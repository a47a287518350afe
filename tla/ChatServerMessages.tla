--------------------------- MODULE ChatServerMessages ---------------------------
(***************************************************************************)
(* The messages of ChatServer, from their sender to their recipient's      *)
(* connection and to the replicas: none is lost, doubled or reordered, for *)
(* any clients, names, texts and replicas and any number of requests.      *)
(***************************************************************************)
EXTENDS ChatServerReplicas, FiniteSetTheorems

(* The real part of a sequence.  Counting is additive, so that the k-th real *)
(* message of s \o t is the k-th of s or, past those, one of t.              *)

RealCount(s, i) == Cardinality(RealUpTo(s, i))

LEMMA RealCountIsNat ==
    ASSUME NEW s, NEW i \in Nat
    PROVE  IsFiniteSet(RealUpTo(s, i)) /\ RealCount(s, i) \in Nat
<1>1. IsFiniteSet(1 .. i) /\ RealUpTo(s, i) \in SUBSET (1 .. i)
  BY FS_Interval DEF RealUpTo
<1>2. IsFiniteSet(RealUpTo(s, i))
  BY <1>1, FS_Subset
<1>3. QED
  BY <1>2, FS_CardinalityType DEF RealCount

LEMMA RealCountGrows ==
    ASSUME NEW s, NEW i \in Nat, NEW j \in Nat, i <= j
    PROVE  RealCount(s, i) <= RealCount(s, j)
<1>1. RealUpTo(s, i) \in SUBSET RealUpTo(s, j)
  BY DEF RealUpTo
<1>2. QED
  BY <1>1, RealCountIsNat, FS_Subset DEF RealCount

LEMMA RealIsCounted ==
    ASSUME NEW s, NEW i \in Nat \ {0}, Real(s[i])
    PROVE  RealCount(s, i) > 0
<1>1. i \in RealUpTo(s, i)
  BY DEF RealUpTo
<1>2. QED
  BY <1>1, RealCountIsNat, FS_EmptySet DEF RealCount

LEMMA RealCountOfPrefix ==
    ASSUME NEW s \in Seq(Message), NEW t \in Seq(Message), NEW i \in 0 .. Len(s)
    PROVE  RealCount(s \o t, i) = RealCount(s, i)
<1>1. \A j \in 1 .. i : (s \o t)[j] = s[j]
  OBVIOUS
<1>2. QED
  BY <1>1 DEF RealCount, RealUpTo

LEMMA RealCountOfSuffix ==
    ASSUME NEW s \in Seq(Message), NEW t \in Seq(Message), NEW i \in 0 .. Len(t)
    PROVE  RealCount(s \o t, Len(s) + i) = RealCount(s, Len(s)) + RealCount(t, i)
<1> DEFINE S == RealUpTo(s, Len(s))
           T == RealUpTo(t, i)
           U == {Len(s) + j : j \in T}
           f == [j \in T |-> Len(s) + j]
<1>1. /\ IsFiniteSet(S) /\ Cardinality(S) \in Nat
      /\ IsFiniteSet(T) /\ Cardinality(T) \in Nat
  BY RealCountIsNat DEF RealCount
<1>2. IsFiniteSet(U) /\ Cardinality(U) = Cardinality(T)
  <2>1. T \subseteq Nat
    BY DEF RealUpTo
  <2>2. f \in Bijection(T, U)
    BY <2>1 DEF Bijection, Injection, Surjection, IsInjective
  <2>3. QED
    BY <1>1, <2>2, FS_Bijection DEF ExistsBijection
<1>3. RealUpTo(s \o t, Len(s) + i) = S \cup U
  <2>1. \A j \in 1 .. Len(s) + i :
           (s \o t)[j] = IF j <= Len(s) THEN s[j] ELSE t[j - Len(s)]
    OBVIOUS
  <2>2. ASSUME NEW j \in 1 .. Len(s) + i, Real((s \o t)[j])
        PROVE  j \in S \cup U
    <3>1. CASE j <= Len(s)
      BY <2>1, <2>2, <3>1 DEF RealUpTo
    <3>2. CASE j > Len(s)
      <4>1. j - Len(s) \in T /\ j = Len(s) + (j - Len(s))
        BY <2>1, <2>2, <3>2 DEF RealUpTo
      <4>2. QED
        BY <4>1
    <3>3. QED
      BY <3>1, <3>2
  <2>3. ASSUME NEW j \in S
        PROVE  j \in RealUpTo(s \o t, Len(s) + i)
    BY <2>1 DEF RealUpTo
  <2>4. ASSUME NEW j \in T
        PROVE  Len(s) + j \in RealUpTo(s \o t, Len(s) + i)
    <3>1. j \in 1 .. i /\ Real(t[j])
      BY DEF RealUpTo
    <3>2. (s \o t)[Len(s) + j] = t[j]
      BY <2>1, <3>1
    <3>3. QED
      BY <3>1, <3>2 DEF RealUpTo
  <2>5. QED
    BY <2>2, <2>3, <2>4 DEF RealUpTo
<1>4. Cardinality(S \cup U) = Cardinality(S) + Cardinality(T)
  <2>1. S \cap U = {}
    BY DEF RealUpTo
  <2>2. Cardinality(S \cap U) = 0
    BY <2>1, FS_EmptySet
  <2>3. Cardinality(S \cup U) =
        Cardinality(S) + Cardinality(U) - Cardinality(S \cap U)
    BY <1>1, <1>2, FS_Union
  <2> HIDE DEF S, T, U
  <2>4. QED
    BY <1>1, <1>2, <2>2, <2>3
<1>5. QED
  BY <1>3, <1>4 DEF RealCount

LEMMA NthRealOfConcat ==
    ASSUME NEW s \in Seq(Message), NEW t \in Seq(Message),
           NEW k \in 1 .. RealCount(s \o t, Len(s \o t))
    PROVE  NthReal(s \o t, k) =
             IF k <= RealCount(s, Len(s)) THEN NthReal(s, k)
             ELSE NthReal(t, k - RealCount(s, Len(s)))
<1> DEFINE st == s \o t
           a == RealCount(s, Len(s))
<1>1. /\ a \in Nat /\ k \in Nat /\ Len(s) \in Nat /\ Len(t) \in Nat
      /\ st \in Seq(Message) /\ Len(st) = Len(s) + Len(t)
  BY RealCountIsNat
<1>2. ASSUME NEW i \in 1 .. Len(s)
      PROVE  /\ st[i] = s[i]
             /\ RealCount(st, i) = RealCount(s, i)
             /\ RealCount(s, i) \in Nat /\ RealCount(s, i) <= a
  BY <1>1, RealCountOfPrefix, RealCountGrows, RealCountIsNat
<1>3. ASSUME NEW j \in 1 .. Len(t)
      PROVE  /\ st[Len(s) + j] = t[j]
             /\ RealCount(t, j) \in Nat
             /\ RealCount(st, Len(s) + j) = a + RealCount(t, j)
             /\ Real(t[j]) => RealCount(t, j) > 0
  <2>1. st[Len(s) + j] = t[j]
    BY <1>1
  <2>2. j \in Nat \ {0} /\ j \in 0 .. Len(t)
    BY <1>1
  <2>3. RealCount(st, Len(s) + j) = a + RealCount(t, j)
    BY <2>2, RealCountOfSuffix
  <2>4. QED
    BY <2>1, <2>2, <2>3, RealIsCounted, RealCountIsNat
<1>4. ASSUME NEW q, NEW m
      PROVE  NthReal(q, m) = {q[i] : i \in {j \in 1 .. Len(q) :
                                             /\ Real(q[j])
                                             /\ RealCount(q, j) = m}}
  BY DEF NthReal, RealUpTo, RealCount
<1>5. CASE k <= a
  <2>1. ASSUME NEW j \in 1 .. Len(st), Real(st[j]), RealCount(st, j) = k
        PROVE  j \in 1 .. Len(s)
    <3>1. SUFFICES ASSUME j > Len(s)
                   PROVE  FALSE
      BY <1>1
    <3>2. j - Len(s) \in 1 .. Len(t) /\ j = Len(s) + (j - Len(s))
      BY <1>1, <3>1
    <3>3. /\ RealCount(t, j - Len(s)) \in Nat /\ RealCount(t, j - Len(s)) > 0
          /\ RealCount(st, j) = a + RealCount(t, j - Len(s))
      BY <1>3, <2>1, <3>2
    <3>4. QED
      BY ONLY <1>1, <1>5, <2>1, <3>3
  <2>2. {j \in 1 .. Len(st) : Real(st[j]) /\ RealCount(st, j) = k} =
        {j \in 1 .. Len(s) : Real(s[j]) /\ RealCount(s, j) = k}
    BY <1>1, <1>2, <2>1
  <2>3. NthReal(st, k) = NthReal(s, k)
    <3>1. \A i \in {j \in 1 .. Len(s) : Real(s[j]) /\ RealCount(s, j) = k} :
             st[i] = s[i]
      BY <1>2
    <3>2. QED
      BY <1>4, <2>2, <3>1
  <2>4. QED
    BY <1>5, <2>3
<1>6. CASE k > a
  <2>1. ASSUME NEW j \in 1 .. Len(st), Real(st[j]), RealCount(st, j) = k
        PROVE  \E i \in 1 .. Len(t) : /\ st[j] = t[i] /\ Real(t[i])
                                      /\ RealCount(t, i) = k - a
    <3>1. j > Len(s)
      BY <1>1, <1>2, <1>6, <2>1
    <3>2. j - Len(s) \in 1 .. Len(t) /\ j = Len(s) + (j - Len(s))
      BY <1>1, <3>1
    <3>3. /\ st[j] = t[j - Len(s)]
          /\ RealCount(t, j - Len(s)) \in Nat
          /\ k = a + RealCount(t, j - Len(s))
      BY <1>3, <2>1, <3>2
    <3>4. RealCount(t, j - Len(s)) = k - a
      BY ONLY <1>1, <3>3
    <3>5. QED
      BY <2>1, <3>2, <3>3, <3>4
  <2>2. ASSUME NEW i \in 1 .. Len(t), Real(t[i]), RealCount(t, i) = k - a
        PROVE  /\ Len(s) + i \in 1 .. Len(st) /\ st[Len(s) + i] = t[i]
               /\ RealCount(st, Len(s) + i) = k
    <3>1. RealCount(st, Len(s) + i) = a + (k - a)
      BY <1>3, <2>2
    <3>2. a + (k - a) = k
      BY ONLY <1>1
    <3>3. QED
      BY <1>1, <1>3, <3>1, <3>2
  <2>3. ASSUME NEW m \in NthReal(st, k)
        PROVE  m \in NthReal(t, k - a)
    <3>1. PICK j \in 1 .. Len(st) :
             Real(st[j]) /\ RealCount(st, j) = k /\ m = st[j]
      BY <1>4
    <3>2. QED
      BY <1>4, <2>1, <3>1
  <2>4. ASSUME NEW m \in NthReal(t, k - a)
        PROVE  m \in NthReal(st, k)
    <3>1. PICK i \in 1 .. Len(t) :
             Real(t[i]) /\ RealCount(t, i) = k - a /\ m = t[i]
      BY <1>4
    <3>2. PICK j \in 1 .. Len(st) :
             Real(st[j]) /\ RealCount(st, j) = k /\ st[j] = m
      BY <2>2, <3>1
    <3>3. QED
      BY <1>4, <3>2
  <2>5. ~(k <= a)
    BY ONLY <1>1, <1>6
  <2>6. QED
    BY <2>3, <2>4, <2>5
<1>7. QED
  BY <1>1, <1>5, <1>6

LEMMA RealPartOfConcat ==
    ASSUME NEW s \in Seq(Message), NEW t \in Seq(Message)
    PROVE  RealPart(s \o t) = RealPart(s) \o RealPart(t)
<1> DEFINE a == RealCount(s, Len(s))
           b == RealCount(t, Len(t))
<1>1. a \in Nat /\ b \in Nat /\ RealCount(s \o t, Len(s \o t)) = a + b
  BY RealCountIsNat, RealCountOfSuffix
<1>2. /\ RealPart(s) = [k \in 1 .. a |-> CHOOSE m \in NthReal(s, k) : TRUE]
      /\ RealPart(t) = [k \in 1 .. b |-> CHOOSE m \in NthReal(t, k) : TRUE]
      /\ RealPart(s \o t) =
            [k \in 1 .. a + b |-> CHOOSE m \in NthReal(s \o t, k) : TRUE]
  BY <1>1 DEF RealPart, RealCount
<1>3. \A k \in 1 .. a + b :
         NthReal(s \o t, k) = IF k <= a THEN NthReal(s, k)
                              ELSE NthReal(t, k - a)
  BY <1>1, NthRealOfConcat
<1> HIDE DEF a, b
<1>4. RealPart(s) \o RealPart(t) =
         [k \in 1 .. a + b |-> IF k <= a THEN RealPart(s)[k]
                               ELSE RealPart(t)[k - a]]
  BY <1>1, <1>2
<1>5. ASSUME NEW k \in 1 .. a + b
      PROVE  (CHOOSE m \in NthReal(s \o t, k) : TRUE) =
             IF k <= a THEN RealPart(s)[k] ELSE RealPart(t)[k - a]
  <2>1. CASE k <= a
    <3>1. k \in 1 .. a /\ NthReal(s \o t, k) = NthReal(s, k)
      BY <1>1, <1>3, <2>1
    <3>2. QED
      BY <1>2, <2>1, <3>1
  <2>2. CASE ~(k <= a)
    <3>1. k - a \in 1 .. b /\ NthReal(s \o t, k) = NthReal(t, k - a)
      BY <1>1, <1>3, <2>2
    <3>2. QED
      BY <1>2, <2>2, <3>1
  <2>3. QED
    BY <2>1, <2>2
<1>6. QED
  BY <1>2, <1>4, <1>5

\* The real part of a sequence is one, too.
LEMMA RealPartIsSequence ==
    ASSUME NEW s \in Seq(Message)
    PROVE  \E S : RealPart(s) \in Seq(S)
<1> DEFINE S == {RealPart(s)[k] : k \in 1 .. RealCount(s, Len(s))}
<1>1. RealCount(s, Len(s)) \in Nat
  BY RealCountIsNat
<1>2. RealPart(s) = [k \in 1 .. RealCount(s, Len(s)) |-> RealPart(s)[k]]
  BY DEF RealPart, RealCount
<1>3. RealPart(s) \in [1 .. RealCount(s, Len(s)) -> S]
  BY <1>2
<1>4. RealPart(s) \in Seq(S)
  BY <1>1, <1>3
<1>5. QED
  BY <1>4

LEMMA NoRealPart ==
    ASSUME NEW s \in Seq(Message), \A i \in 1 .. Len(s) : ~Real(s[i])
    PROVE  RealPart(s) = <<>>
<1>1. RealUpTo(s, Len(s)) = {}
  BY DEF RealUpTo
<1>2. QED
  BY <1>1, FS_EmptySet DEF RealPart

LEMMA EmptyHasNoRealPart == RealPart(<<>>) = <<>>
<1>1. <<>> \in Seq(Message) /\ \A i \in 1 .. Len(<<>>) : ~Real(<<>>[i])
  OBVIOUS
<1>2. QED
  BY ONLY <1>1, NoRealPart

LEMMA RealPartOfOne ==
    ASSUME NEW m \in Message, Real(m)
    PROVE  RealPart(<<m>>) = <<m>>
<1>1. RealUpTo(<<m>>, 1) = {1} /\ Len(<<m>>) = 1
  BY DEF RealUpTo
<1>2. Cardinality({1}) = 1
  BY FS_Singleton
<1>3. NthReal(<<m>>, 1) = {m}
  BY <1>1, <1>2 DEF NthReal
<1>4. RealPart(<<m>>) = [k \in 1 .. 1 |-> CHOOSE n \in NthReal(<<m>>, k) : TRUE]
  BY <1>1, <1>2 DEF RealPart
<1>5. ASSUME NEW k \in 1 .. 1
      PROVE  (CHOOSE n \in NthReal(<<m>>, k) : TRUE) = m
  <2>1. k = 1
    OBVIOUS
  <2>2. QED
    BY <1>3, <2>1
<1>6. RealPart(<<m>>) = [k \in 1 .. 1 |-> m]
  BY <1>4, <1>5
<1>7. QED
  BY <1>6

-----------------------------------------------------------------------------
(* A pass of the delivery thread.  While it has the messages of a recipient  *)
(* in hand, it holds undelivered_msg_lock and both login locks: nobody adds  *)
(* to them, and the session it found is not ended or taken over.             *)

Delivering == pc[Delivery] = "send" \/ Busy(Delivery)

Queued(n) ==
    IF Delivering /\ user[Delivery] = n THEN refused \o unsent
    ELSE undelivered[n]

\* It has refused nothing from a recipient who is there, and what it tells the
\* replicas is exactly what it could not send.
BatchOK ==
    /\ pc[Delivery] = "send" /\ refused # <<>> =>
           logged_in[user[Delivery]] \in gone
    /\ Busy(Delivery) => unsent = <<>> /\ upd[Delivery].msgs = refused

ConservedInv ==
    /\ UpdatesInv
    /\ BatchOK
    /\ \A n \in Names : RealPart(accepted[n]) = delivered[n] \o RealPart(Queued(n))

\* The steps that move messages.  No other step does, nor does it begin or end
\* a batch.
BatchUnchanged ==
    /\ UNCHANGED <<accepted, delivered, undelivered, refused, unsent>>
    /\ UNCHANGED upd[Delivery]
    /\ (pc[Delivery] = "send")' <=> pc[Delivery] = "send"
    /\ Busy(Delivery)' <=> Busy(Delivery)
    /\ Delivering => UNCHANGED user[Delivery]

LEMMA StepsAndMessages ==
    ASSUME TypeOK, [Next]_vars
    PROVE  \/ \E c \in Clients : SendApply(c)
           \/ DeliveryVisit \/ DeliverySend \/ DeliveryUpdate \/ DeliveryApply
           \/ BatchUnchanged
<1> USE ThreadsAreDistinct
<1>1. ASSUME UNCHANGED <<accepted, delivered, undelivered, refused, unsent>>,
             UNCHANGED <<pc[Delivery], user[Delivery], upd[Delivery]>>
      PROVE  BatchUnchanged
  BY <1>1 DEF BatchUnchanged, Busy
<1>2. ASSUME NEW c \in Clients, Handle(c), ~SendApply(c)
      PROVE  BatchUnchanged
  <2>1. UNCHANGED <<accepted, delivered, undelivered, refused, unsent>>
    BY <1>2
       DEF Handle, AcquireClients, Quit, CreateCheck, CreateAccount,
           CreateApply, LogInClients, LogInLogged, LoginCheck, LoginAccount,
           LoginApply, LogoffCheck, LogoffApply, DeleteAccount, DeleteApply,
           SendCheck, SendRecipient, SendQueue, ListAccounts, primary, thread,
           batch, history
  <2>2. QED
    BY <1>1, <1>2, <2>1, HandleIsLocal
<1>3. ASSUME NEW c \in Clients,
             Register(c) \/ Close(c) \/ Receive(c) \/ HangUp(c)
      PROVE  BatchUnchanged
  BY <1>1, <1>3, ConnectionIsLocal
     DEF Register, Close, Receive, HangUp, primary, thread, batch, history
<1>4. ASSUME NEW t \in Threads, Round(t)
      PROVE  BatchUnchanged
  <2>1. UNCHANGED <<accepted, delivered, undelivered, refused, unsent>>
    BY <1>4 DEF Round, AcquireAck, AcquireOther, Replicate, primary, thread,
       batch, history
  <2>2. QED
    BY <1>4, <2>1, RoundIsLocal DEF BatchUnchanged, Busy
<1>5. CASE DeliveryStart \/ DeliveryNext \/ DeliverySleep
  BY <1>5
     DEF DeliveryStart, DeliveryNext, DeliverySleep, BatchUnchanged,
         Delivering, Busy, Goto, TypeOK, primary, thread, batch, history
<1>6. ASSUME NEW r \in Replicas, NEW c \in Clients,
             RepRegister(r, c) \/ RepHangUp(r, c)
      PROVE  BatchUnchanged
  BY <1>1, <1>6 DEF RepRegister, RepHangUp, primary, thread, batch, history
<1>7. CASE UNCHANGED vars
  BY <1>1, <1>7 DEF vars, primary, thread, batch, history
<1>8. QED
  BY <1>2, <1>3, <1>4, <1>5, <1>6, <1>7 DEF Next, Deliver

\* The session the delivery thread sends to stays what it was.
LEMMA SessionIsHeld ==
    ASSUME LocksInv, [Next]_vars, pc[Delivery] = "send"
    PROVE  UNCHANGED logged_in
<1> USE ThreadsAreDistinct
<1>1. \A t \in Threads : Owns(t)
  BY DEF LocksInv
<1>2. lock["logged_in_lock"] = Delivery
  BY <1>1 DEF Owns, Has, HasSession, Locks
<1>3. ASSUME NEW c \in Clients, Handle(c)
      PROVE  UNCHANGED logged_in
  <2>1. Busy(c) /\ upd[c].kind \in {"login", "logoff"} =>
           lock["logged_in_lock"] = c
    BY <1>1 DEF Owns, Has, HasSession, Locks
  <2>2. QED
    BY <1>2, <1>3, <2>1, SessionsChange
<1>4. ASSUME NEW c \in Clients,
             Register(c) \/ Close(c) \/ Receive(c) \/ HangUp(c)
      PROVE  UNCHANGED logged_in
  BY <1>4 DEF Register, Close, Receive, HangUp, primary
<1>5. ASSUME NEW t \in Threads, Round(t)
      PROVE  UNCHANGED logged_in
  BY <1>5 DEF Round, AcquireAck, AcquireOther, Replicate, primary
<1>6. CASE Deliver
  BY <1>6 DEF Deliver, DeliveryStart, DeliveryNext, DeliverySleep,
     DeliveryVisit, DeliverySend, DeliveryUpdate, DeliveryApply, primary
<1>7. ASSUME NEW r \in Replicas, NEW c \in Clients,
             RepRegister(r, c) \/ RepHangUp(r, c)
      PROVE  UNCHANGED logged_in
  BY <1>7 DEF RepRegister, RepHangUp, primary
<1>8. CASE UNCHANGED vars
  BY <1>8 DEF vars, primary
<1>9. QED
  BY <1>3, <1>4, <1>5, <1>6, <1>7, <1>8 DEF Next

LEMMA NextBatch ==
    ASSUME UpdatesInv, BatchOK, [Next]_vars
    PROVE  BatchOK'
<1> USE ThreadsAreDistinct
<1>1. LocksInv /\ TypeOK /\ DeliverySays
  BY DEF UpdatesInv, LocksInv, ExistenceInv, TypeInv
<1>2. gone \subseteq gone'
  BY <1>1, GoneGrows
<1>3. CASE BatchUnchanged
  BY <1>1, <1>2, <1>3, SessionIsHeld DEF BatchUnchanged, BatchOK, Delivering
<1>4. ASSUME NEW c \in Clients, SendApply(c)
      PROVE  BatchOK'
  <2>1. UNCHANGED <<logged_in, refused, unsent, user, upd>>
    BY <1>4 DEF SendApply, thread, batch
  <2>2. UNCHANGED pc[Delivery]
    BY <1>1, <1>4 DEF SendApply, RespondOther, Goto, TypeOK
  <2>3. QED
    BY <1>2, <2>1, <2>2 DEF BatchOK, Busy
<1>5. CASE DeliveryVisit
  BY <1>1, <1>5 DEF DeliveryVisit, BatchOK, Busy, Goto, TypeOK, primary, client
<1>6. CASE DeliverySend
  BY <1>1, <1>6, SessionIsHeld
     DEF DeliverySend, Refuses, BatchOK, Busy, primary, client
<1>7. CASE DeliveryUpdate
  <2>1. unsent' = <<>> /\ refused' = refused /\ upd'[Delivery].msgs = refused
    BY <1>1, <1>7
       DEF DeliveryUpdate, Replicating, Update, TypeOK, batch
  <2>2. pc'[Delivery] # "send"
    BY <1>1, <1>7 DEF DeliveryUpdate, Replicating, Goto, TypeOK
  <2>3. QED
    BY <2>1, <2>2 DEF BatchOK
<1>8. CASE DeliveryApply
  BY <1>1, <1>8 DEF DeliveryApply, BatchOK, Busy, Goto, TypeOK
<1>9. QED
  BY <1>1, <1>3, <1>4, <1>5, <1>6, <1>7, <1>8, StepsAndMessages

LEMMA HandOver ==
    ASSUME NEW d \in Seq(Message), NEW s \in Seq(Message), NEW t \in Seq(Message)
    PROVE  d \o RealPart(s \o t) = (d \o RealPart(s)) \o RealPart(t)
<1>1. PICK S : RealPart(s) \in Seq(S)
  BY RealPartIsSequence
<1>2. PICK T : RealPart(t) \in Seq(T)
  BY RealPartIsSequence
<1>3. \A A, B : A \subseteq B => Seq(A) \subseteq Seq(B)
  OBVIOUS
<1> DEFINE U == Message \cup S \cup T
<1>4. d \in Seq(U) /\ RealPart(s) \in Seq(U) /\ RealPart(t) \in Seq(U)
  BY <1>1, <1>2, <1>3
<1>5. \A q, r, w \in Seq(U) : q \o (r \o w) = (q \o r) \o w
  OBVIOUS
<1> HIDE DEF U
<1>6. d \o (RealPart(s) \o RealPart(t)) = (d \o RealPart(s)) \o RealPart(t)
  BY <1>4, <1>5
<1>7. QED
  BY <1>6, RealPartOfConcat

LEMMA NextConserved ==
    ASSUME ConservedInv, [Next]_vars, NEW n \in Names
    PROVE  RealPart(accepted'[n]) = delivered'[n] \o RealPart(Queued(n)')
<1> USE ThreadsAreDistinct
<1>1. /\ LocksInv /\ TypeOK /\ DeliverySays /\ BatchOK
      /\ \A t \in Threads : Owns(t)
      /\ \A c \in Clients : InStep(c)
      /\ RealPart(accepted[n]) = delivered[n] \o RealPart(Queued(n))
  BY DEF ConservedInv, UpdatesInv, LocksInv, ExistenceInv, TypeInv,
         HandlersInStep
<1>2. CASE BatchUnchanged
  BY <1>1, <1>2 DEF BatchUnchanged, Queued, Delivering
<1>3. ASSUME NEW c \in Clients, SendApply(c)
      PROVE  RealPart(accepted'[n]) = delivered'[n] \o RealPart(Queued(n)')
  <2>1. InRound(c) /\ upd[c].kind = "addmsg" /\ req[c].op = "send"
    BY <1>1, <1>3 DEF SendApply, Acknowledged, InRound, InStep, Busy
  <2>2. lock["undelivered_msg_lock"] = c
    BY <1>1, <2>1 DEF Owns, Has, HasMessages, InRound, Busy, Locks
  <2>3. pc[Delivery] = "sleep"
    BY <1>1, <2>2 DEF Owns, Has, HasMessages, Locks
  <2>4. UNCHANGED pc[Delivery] /\ ~Delivering /\ ~Delivering'
    BY <1>1, <1>3, <2>3 DEF SendApply, RespondOther, Goto, TypeOK, Delivering,
       Busy
  <2>5. /\ req[c].name \in Names /\ upd[c].msgs \in Seq(Message)
        /\ accepted[n] \in Seq(Message) /\ undelivered[n] \in Seq(Message)
        /\ delivered[n] \in Seq(Message)
    BY <1>1, <2>1 DEF InStep, TypeOK, UpdateType
  <2>6. /\ Queued(n) = undelivered[n] /\ Queued(n)' = undelivered'[n]
        /\ UNCHANGED delivered
    BY <1>3, <2>4 DEF Queued, SendApply
  <2>7. CASE req[c].name = n
    <3>1. /\ accepted'[n] = accepted[n] \o upd[c].msgs
          /\ undelivered'[n] = undelivered[n] \o upd[c].msgs
      BY <1>1, <1>3, <2>7 DEF SendApply, TypeOK
    <3>2. RealPart(accepted'[n]) = RealPart(accepted[n]) \o RealPart(upd[c].msgs)
      BY <2>5, <3>1, RealPartOfConcat
    <3>3. delivered[n] \o RealPart(undelivered[n] \o upd[c].msgs) =
             (delivered[n] \o RealPart(undelivered[n])) \o RealPart(upd[c].msgs)
      BY ONLY <2>5, HandOver
    <3>4. QED
      BY <1>1, <2>6, <3>1, <3>2, <3>3
  <2>8. CASE req[c].name # n
    <3>1. accepted'[n] = accepted[n] /\ undelivered'[n] = undelivered[n]
      BY <1>1, <1>3, <2>8 DEF SendApply, TypeOK
    <3>2. QED
      BY <1>1, <2>6, <3>1
  <2>9. QED
    BY <2>7, <2>8
<1>4. ASSUME UNCHANGED <<accepted, delivered>>, Queued(n)' = Queued(n)
      PROVE  RealPart(accepted'[n]) = delivered'[n] \o RealPart(Queued(n)')
  BY <1>1, <1>4
<1>5. CASE DeliveryVisit
  <2>1. /\ UNCHANGED <<accepted, delivered, undelivered, user>>
        /\ ~Delivering /\ ~Busy(Delivery)'
    BY <1>1, <1>5 DEF DeliveryVisit, Delivering, Busy, Goto, TypeOK, primary,
       history
  <2>2. Delivering' => /\ refused' = <<>>
                       /\ unsent' = undelivered[user[Delivery]]
    BY <1>1, <1>5, <2>1 DEF DeliveryVisit, Delivering, Goto, TypeOK
  <2>3. undelivered[n] \in Seq(Message) /\ \A s \in Seq(Message) : <<>> \o s = s
    BY <1>1 DEF TypeOK
  <2>4. Queued(n)' = Queued(n)
    BY <2>1, <2>2, <2>3 DEF Queued
  <2>5. QED
    BY <1>4, <2>1, <2>4
<1>6. CASE DeliverySend
  <2>1. /\ UNCHANGED <<accepted, undelivered, user, pc>>
        /\ pc[Delivery] = "send" /\ Delivering /\ Delivering'
    BY <1>1, <1>6 DEF DeliverySend, Delivering, Busy, primary
  <2>2. CASE user[Delivery] # n
    <3>1. delivered'[n] = delivered[n]
      BY <1>1, <1>6, <2>2 DEF DeliverySend, TypeOK
    <3>2. Queued(n)' = undelivered[n] /\ Queued(n) = undelivered[n]
      BY <2>1, <2>2 DEF Queued
    <3>3. QED
      BY <1>1, <2>1, <3>1, <3>2
  <2>3. CASE user[Delivery] = n
    <3> DEFINE m == Head(unsent)
               rest == Tail(unsent)
    <3>1. /\ refused \in Seq(Message) /\ delivered[n] \in Seq(Message)
          /\ unsent \in Seq(Message) /\ unsent # <<>> /\ unsent' = rest
      BY <1>1, <1>6 DEF DeliverySend, TypeOK
    <3>2. /\ m \in Message /\ rest \in Seq(Message) /\ <<m>> \in Seq(Message)
          /\ unsent = <<m>> \o rest
      BY <3>1
    <3> HIDE DEF m, rest
    <3>3. /\ Queued(n) = refused \o unsent
          /\ Queued(n)' = refused' \o rest
      BY <2>1, <2>3, <3>1 DEF Queued
    <3>4. /\ refused \o <<m>> \in Seq(Message)
          /\ refused \o unsent = (refused \o <<m>>) \o rest
      BY <3>1, <3>2
    <3>5. delivered[n] \o RealPart(Queued(n)) =
             (delivered[n] \o RealPart(refused \o <<m>>)) \o RealPart(rest)
      <4>1. \A q \in Seq(Message) :
               delivered[n] \o RealPart(q \o rest) =
                  (delivered[n] \o RealPart(q)) \o RealPart(rest)
        BY ONLY ZenonT(30), <3>1, <3>2, HandOver
      <4>2. delivered[n] \o RealPart((refused \o <<m>>) \o rest) =
               (delivered[n] \o RealPart(refused \o <<m>>)) \o RealPart(rest)
        BY ONLY <3>4, <4>1
      <4>3. QED
        BY ONLY <3>3, <3>4, <4>2
    <3>6. CASE ~Real(m) /\ UNCHANGED <<refused, delivered>>
      <4>1. RealPart(<<m>>) = <<>>
        <5>1. \A i \in 1 .. Len(<<m>>) : ~Real(<<m>>[i])
          BY <3>6
        <5>2. QED
          BY ONLY <3>2, <5>1, NoRealPart
      <4>2. PICK S : RealPart(refused) \in Seq(S)
        BY <3>1, RealPartIsSequence
      <4>3. RealPart(refused \o <<m>>) = RealPart(refused) \o <<>>
        BY ONLY <3>1, <3>2, <4>1, RealPartOfConcat
      <4>4. RealPart(refused \o <<m>>) = RealPart(refused)
        BY ONLY <4>2, <4>3
      <4>5. delivered[n] \o RealPart(refused \o rest) =
               (delivered[n] \o RealPart(refused)) \o RealPart(rest)
        BY ONLY ZenonT(30), <3>1, <3>2, HandOver
      <4>6. QED
        BY <1>1, <2>1, <3>3, <3>5, <3>6, <4>4, <4>5
    <3>7. CASE /\ Real(m) /\ refused = <<>> /\ UNCHANGED refused
               /\ delivered' = [delivered EXCEPT ![n] = Append(@, m)]
      <4>1. RealPart(refused \o <<m>>) = <<m>> /\ refused \o rest = rest
        BY <3>2, <3>7, RealPartOfOne
      <4>2. delivered'[n] = delivered[n] \o <<m>>
        BY <1>1, <3>1, <3>2, <3>7 DEF TypeOK
      <4>3. QED
        BY <1>1, <2>1, <3>3, <3>5, <3>7, <4>1, <4>2
    <3>8. CASE refused' = Append(refused, m) /\ UNCHANGED delivered
      <4>1. refused' = refused \o <<m>>
        BY <3>1, <3>2, <3>8
      <4>2. QED
        BY <1>1, <2>1, <3>3, <3>4, <3>8, <4>1
    <3>9. \/ ~Real(m) /\ UNCHANGED <<refused, delivered>>
          \/ /\ Real(m) /\ refused = <<>> /\ UNCHANGED refused
             /\ delivered' = [delivered EXCEPT ![n] = Append(@, m)]
          \/ refused' = Append(refused, m) /\ UNCHANGED delivered
      BY <1>1, <1>6, <2>1, <2>3 DEF DeliverySend, BatchOK, Refuses, m
    <3>10. QED
      BY <3>6, <3>7, <3>8, <3>9
  <2>4. QED
    BY <2>2, <2>3
<1>7. CASE DeliveryUpdate
  <2>1. /\ UNCHANGED <<accepted, delivered, undelivered, user, batch>>
        /\ Delivering /\ Delivering'
    BY <1>1, <1>7 DEF DeliveryUpdate, Replicating, Delivering, Busy, Goto,
       TypeOK, primary, history
  <2>2. Queued(n)' = Queued(n)
    BY <2>1 DEF Queued, batch
  <2>3. QED
    BY <1>4, <2>1, <2>2
<1>8. CASE DeliveryApply
  <2>1. /\ UNCHANGED <<accepted, delivered, user>> /\ Busy(Delivery)
        /\ Delivering /\ ~Delivering' /\ user[Delivery] \in Names
        /\ undelivered' = [undelivered EXCEPT ![user[Delivery]] = refused]
        /\ unsent = <<>> /\ refused \in Seq(Message)
    BY <1>1, <1>8 DEF DeliveryApply, Acknowledged, Delivering, Busy, BatchOK,
       DeliverySays, Goto, TypeOK, thread, history
  <2>2. Queued(n)' = undelivered'[n]
    BY <2>1 DEF Queued
  <2>3. Queued(n)' = Queued(n)
    BY <1>1, <2>1, <2>2 DEF Queued, TypeOK
  <2>4. QED
    BY <1>4, <2>1, <2>3
<1>9. QED
  BY <1>1, <1>2, <1>3, <1>5, <1>6, <1>7, <1>8, StepsAndMessages

\* Whatever is accepted for an account is delivered or still queued: once, and
\* in the order in which it was accepted.
THEOREM NoMessageIsLost == Spec => []MessagesConserved
<1> USE ThreadsAreDistinct
<1>1. Init => ConservedInv
  <2>1. SUFFICES ASSUME Init
                 PROVE  ConservedInv
    OBVIOUS
  <2>2. UpdatesInv
    BY <2>1, InitUpdates
  <2>3. ~Delivering /\ BatchOK
    BY <2>1 DEF Init, Delivering, BatchOK, Busy
  <2>4. RealPart(<<>>) = <<>>
    BY EmptyHasNoRealPart
  <2>5. ASSUME NEW n \in Names
        PROVE  RealPart(accepted[n]) = delivered[n] \o RealPart(Queued(n))
    <3>1. accepted[n] = <<>> /\ delivered[n] = <<>> /\ Queued(n) = <<>>
      BY <2>1, <2>3 DEF Init, Queued
    <3>2. QED
      BY ONLY <2>4, <3>1
  <2>6. QED
    BY <2>2, <2>3, <2>5 DEF ConservedInv
<1>2. ConservedInv /\ [Next]_vars => ConservedInv'
  BY NextConserved, NextUpdates, NextBatch DEF ConservedInv
<1>3. ConservedInv => MessagesConserved
  BY DEF ConservedInv, MessagesConserved, Queued, Delivering, Busy
<1>4. QED
  BY <1>1, <1>2, <1>3, PTL DEF Spec

-----------------------------------------------------------------------------
(* The replicas' copies of the queued messages.                             *)

\* The update of t is about the messages of n, and r has made it.
Updated(t, r, n) ==
    /\ InRound(t) /\ r \notin pend[t]
    /\ upd[t].kind \in {"addmsg", "setmsgs"} /\ upd[t].name = n

\* What t makes of the messages of n on the primary.
After(t, n) ==
    IF upd[t].kind = "setmsgs" THEN upd[t].msgs ELSE undelivered[n] \o upd[t].msgs

FollowsMessages(r, n) ==
    /\ (\A t \in Threads : ~Updated(t, r, n)) =>
           RealPart(repMsgs[r][n]) = RealPart(undelivered[n])
    /\ \A t \in Threads :
          Updated(t, r, n) => RealPart(repMsgs[r][n]) = RealPart(After(t, n))

\* What a replica makes of an update, the empty pair included.
LEMMA ReplicaMakesTheUpdate ==
    ASSUME TypeOK, NEW t \in Threads, NEW r \in Replicas, NEW n \in Names,
           ProcessUpdateMessages(r, upd[t]), r \in repUp', upd[t].name = n,
           RealPart(repMsgs[r][n]) = RealPart(undelivered[n])
    PROVE  RealPart(repMsgs'[r][n]) = RealPart(After(t, n))
<1>1. /\ repMsgs \in [Replicas -> [Names -> Seq(Message)]]
      /\ repMsgs[r][n] \in Seq(Message) /\ undelivered[n] \in Seq(Message)
      /\ upd[t].msgs \in Seq(Message)
  BY DEF TypeOK, UpdateType
<1>2. CASE upd[t].kind = "addmsg"
  <2>1. repMsgs'[r][n] = repMsgs[r][n] \o upd[t].msgs
    <3>1. repMsgs' = [repMsgs EXCEPT ![r][n] = @ \o upd[t].msgs]
      BY <1>2 DEF ProcessUpdateMessages
    <3>2. QED
      BY ONLY <1>1, <3>1
  <2>2. After(t, n) = undelivered[n] \o upd[t].msgs
    BY <1>2 DEF After
  <2>3. \A q \in Seq(Message) :
           RealPart(q \o upd[t].msgs) = RealPart(q) \o RealPart(upd[t].msgs)
    BY <1>1, RealPartOfConcat
  <2>4. QED
    BY ONLY <1>1, <2>1, <2>2, <2>3,
            RealPart(repMsgs[r][n]) = RealPart(undelivered[n])
<1>3. CASE upd[t].kind = "setmsgs"
  <2>1. repMsgs'[r][n] = IF upd[t].msgs = <<>> THEN <<Phantom>> ELSE upd[t].msgs
    BY <1>1, <1>3 DEF ProcessUpdateMessages
  <2>2. RealPart(<<Phantom>>) = <<>>
    <3>1. /\ <<Phantom>> \in Seq(Message)
          /\ \A i \in 1 .. Len(<<Phantom>>) : ~Real(<<Phantom>>[i])
      BY PhantomIsTyped DEF Real, Phantom
    <3>2. QED
      BY ONLY <3>1, NoRealPart
  <2>3. RealPart(<<>>) = <<>>
    BY EmptyHasNoRealPart
  <2>4. After(t, n) = upd[t].msgs
    BY <1>3 DEF After
  <2>5. QED
    BY <2>1, <2>2, <2>3, <2>4
<1>4. QED
  BY <1>2, <1>3 DEF ProcessUpdateMessages

LEMMA NextMessagesFollow ==
    ASSUME UpdatesInv, \A r \in repUp, n \in Names : FollowsMessages(r, n),
           [Next]_vars, NEW r \in repUp', NEW n \in Names
    PROVE  FollowsMessages(r, n)'
<1> USE ThreadsAreDistinct
<1>1. /\ LocksInv /\ TypeOK /\ OneRoundAtATime /\ DeliverySays
      /\ \A c \in Clients : UpdateSays(c) /\ InStep(c)
  BY DEF UpdatesInv, LocksInv, ExistenceInv, TypeInv, HandlersInStep, Owns,
         Has, Locks, OneRoundAtATime
<1>2. r \in Replicas
  <2>1. TypeOK'
    BY <1>1, NextLocks DEF LocksInv, ExistenceInv, TypeInv
  <2>2. QED
    BY <2>1 DEF TypeOK
<1>3. r \in repUp => FollowsMessages(r, n)
  OBVIOUS
<1>4. ASSUME NEW t \in Threads, AcquireOther(t)
      PROVE  FollowsMessages(r, n)'
  <2>1. UNCHANGED <<undelivered, repMsgs, repUp>>
    BY <1>4 DEF AcquireOther, primary, replica
  <2>2. \A kind : ~Applied(r, kind, n) /\ ~Applied(r, kind, n)'
    BY <1>1, <1>4, <2>1, RoundOpens
  <2>3. \A s \in Threads : ~Updated(s, r, n) /\ ~Updated(s, r, n)'
    BY <2>2 DEF Applied, Updated, InRound
  <2>4. QED
    BY <1>3, <2>1, <2>3 DEF FollowsMessages
<1>5. ASSUME NEW t \in Threads, NEW s \in Replicas, Replicate(t, s)
      PROVE  FollowsMessages(r, n)'
  <2>1. /\ UNCHANGED <<undelivered, pc, upd>>
        /\ InRound(t) /\ s \in pend[t]
        /\ pend' = [pend EXCEPT ![t] = @ \ {s}]
        /\ r \in repUp
    BY <1>1, <1>2, <1>5
       DEF Replicate, InRound, primary, replica, thread, TypeOK,
           ProcessUpdateAccounts, ProcessUpdateLogin, ProcessUpdateMessages
  <2>2. \A u \in Threads : InRound(u) => u = t
    BY <1>1, <2>1 DEF OneRoundAtATime, InRound
  <2>3. \A u \in Threads : After(u, n)' = After(u, n)
    BY <2>1 DEF After
  <2>4. CASE r # s
    <3>1. repMsgs'[r] = repMsgs[r]
      BY <1>1, <1>2, <1>5, <2>4
         DEF Replicate, ProcessUpdateAccounts, ProcessUpdateLogin,
             ProcessUpdateMessages, replica, TypeOK
    <3>2. \A u \in Threads : Updated(u, r, n)' <=> Updated(u, r, n)
      BY <1>1, <2>1, <2>4 DEF TypeOK, Updated, InRound
    <3>3. QED
      BY <1>3, <2>1, <2>3, <3>1, <3>2 DEF FollowsMessages
  <2>5. CASE r = s
    <3>1. \A u \in Threads : ~Updated(u, r, n)
      BY <2>1, <2>2, <2>5 DEF Updated
    <3>2. RealPart(repMsgs[r][n]) = RealPart(undelivered[n])
      BY <1>3, <2>1, <3>1 DEF FollowsMessages
    <3>3. \A u \in Threads : Updated(u, r, n)' =>
             /\ u = t /\ upd[t].name = n
             /\ upd[t].kind \in {"addmsg", "setmsgs"}
      BY <2>1, <2>2 DEF Updated, InRound
    <3>4. r \notin pend'[t]
      BY <1>1, <2>1, <2>5 DEF TypeOK
    <3>5. CASE ProcessUpdateMessages(r, upd[t]) /\ upd[t].name = n
      <4>1. RealPart(repMsgs'[r][n]) = RealPart(After(t, n))
        BY <1>1, <1>2, <3>2, <3>5, ReplicaMakesTheUpdate
      <4>2. Updated(t, r, n)'
        BY <2>1, <3>4, <3>5 DEF Updated, InRound, ProcessUpdateMessages
      <4>3. QED
        BY <2>3, <3>3, <4>1, <4>2 DEF FollowsMessages
    <3>6. CASE ProcessUpdateMessages(r, upd[t]) /\ upd[t].name # n
      <4>1. \E q : \/ repMsgs' = [repMsgs EXCEPT ![r][upd[t].name] = q]
                   \/ UNCHANGED repMsgs
        BY <3>6 DEF ProcessUpdateMessages
      <4>2. /\ repMsgs \in [Replicas -> [Names -> Seq(Message)]]
            /\ upd[t].name # n
        BY <1>1, <3>6 DEF TypeOK
      <4>3. repMsgs'[r][n] = repMsgs[r][n]
        BY ONLY <1>2, <4>1, <4>2, n \in Names
      <4>4. QED
        BY <2>1, <3>2, <3>3, <3>6, <4>3 DEF FollowsMessages
    <3>7. CASE \/ ProcessUpdateAccounts(r, upd[t])
               \/ ProcessUpdateLogin(r, upd[t])
      <4>1. UNCHANGED repMsgs /\ upd[t].kind \notin {"addmsg", "setmsgs"}
        BY <3>7 DEF ProcessUpdateAccounts, ProcessUpdateLogin
      <4>2. QED
        BY <2>1, <3>2, <3>3, <4>1 DEF FollowsMessages
    <3>8. QED
      BY <1>5, <2>1, <2>5, <3>5, <3>6, <3>7 DEF Replicate
  <2>6. QED
    BY <2>4, <2>5
<1>6. ASSUME NEW t \in Threads, InRound(t), pend[t] = {}, ~InRound(t)',
             \A s \in Threads \ {t} : UNCHANGED pc[s],
             UNCHANGED <<repMsgs, repUp>>,
             \/ /\ upd[t].kind \in {"addmsg", "setmsgs"}
                /\ undelivered' = [undelivered EXCEPT
                                      ![upd[t].name] = After(t, upd[t].name)]
             \/ /\ upd[t].kind \notin {"addmsg", "setmsgs"}
                /\ UNCHANGED undelivered
      PROVE  FollowsMessages(r, n)'
  <2>1. /\ \A s \in Threads : /\ InRound(s) => s = t
                              /\ ~InRound(s)'
        /\ r \in repUp /\ r \notin pend[t]
    BY <1>1, <1>6 DEF OneRoundAtATime, InRound
  <2>2. RealPart(repMsgs[r][n]) = RealPart(undelivered'[n])
    <3>1. CASE upd[t].kind \in {"addmsg", "setmsgs"} /\ upd[t].name = n
      <4>1. undelivered'[n] = After(t, n)
        BY <1>1, <1>6, <3>1 DEF TypeOK
      <4>2. Updated(t, r, n)
        BY <1>6, <2>1, <3>1 DEF Updated
      <4>3. QED
        BY <1>3, <2>1, <4>1, <4>2 DEF FollowsMessages
    <3>2. CASE ~(upd[t].kind \in {"addmsg", "setmsgs"} /\ upd[t].name = n)
      <4>1. undelivered'[n] = undelivered[n]
        BY <1>1, <1>6, <3>2 DEF TypeOK
      <4>2. \A s \in Threads : ~Updated(s, r, n)
        BY <2>1, <3>2 DEF Updated
      <4>3. QED
        BY <1>3, <2>1, <4>1, <4>2 DEF FollowsMessages
    <3>3. QED
      BY <3>1, <3>2
  <2>3. \A s \in Threads : ~Updated(s, r, n)'
    BY <2>1 DEF Updated
  <2>4. repMsgs'[r][n] = repMsgs[r][n]
    BY <1>6
  <2>5. QED
    BY <2>2, <2>3, <2>4 DEF FollowsMessages
<1>7. ASSUME NEW c \in Clients, Closes(c)
      PROVE  FollowsMessages(r, n)'
  <2>1. /\ InRound(c) /\ pend[c] = {} /\ ~InRound(c)'
        /\ \A s \in Threads \ {c} : UNCHANGED pc[s]
        /\ UNCHANGED <<repMsgs, repUp>>
    BY <1>1, <1>7, ClosingEndsARound DEF replica
  <2>2. CASE SendApply(c)
    <3>1. upd[c].kind = "addmsg" /\ upd[c].name = req[c].name
      BY <1>1, <2>1, <2>2 DEF SendApply, Acknowledged, UpdateSays, Busy, InRound
    <3>2. undelivered' = [undelivered EXCEPT
                             ![upd[c].name] = After(c, upd[c].name)]
      BY <2>2, <3>1 DEF SendApply, After
    <3>3. QED
      BY <1>6, <2>1, <3>1, <3>2
  <2>3. CASE \/ CreateApply(c) \/ LoginApply(c) \/ LogoffApply(c)
             \/ DeleteApply(c)
    <3>1. UNCHANGED undelivered /\ upd[c].kind \notin {"addmsg", "setmsgs"}
      BY <2>3 DEF CreateApply, LoginApply, LogoffApply, DeleteApply,
         Acknowledged
    <3>2. QED
      BY <1>6, <2>1, <3>1
  <2>4. QED
    BY <1>7, <2>2, <2>3 DEF Closes
<1>8. CASE DeliveryApply
  <2>1. /\ InRound(Delivery) /\ pend[Delivery] = {} /\ ~InRound(Delivery)'
        /\ \A s \in Threads \ {Delivery} : UNCHANGED pc[s]
        /\ UNCHANGED <<repMsgs, repUp>> /\ upd[Delivery].kind = "setmsgs"
    BY <1>1, <1>8, DeliveryEndsARound DEF replica
  <2>2. upd[Delivery].name = user[Delivery]
    BY <1>1, <2>1 DEF DeliverySays, Busy, InRound
  <2>3. undelivered' = [undelivered EXCEPT
            ![upd[Delivery].name] = After(Delivery, upd[Delivery].name)]
    BY <1>8, <2>1, <2>2 DEF DeliveryApply, After
  <2>4. QED
    BY <1>6, <2>1, <2>3
<1>9. CASE Quiet
  <2>1. UNCHANGED <<undelivered, repMsgs, repUp>> /\ RoundsUnchanged
    BY <1>9 DEF Quiet
  <2>2. \A t \in Threads :
           /\ Updated(t, r, n)' <=> Updated(t, r, n)
           /\ Updated(t, r, n) => After(t, n)' = After(t, n)
    BY <2>1 DEF RoundsUnchanged, Updated, After, InRound
  <2>3. r \in repUp /\ repMsgs'[r][n] = repMsgs[r][n]
        /\ undelivered'[n] = undelivered[n]
    BY <2>1
  <2>4. FollowsMessages(r, n)
    BY <1>3, <2>3
  <2>5. ASSUME NEW t \in Threads, Updated(t, r, n)'
        PROVE  RealPart(repMsgs'[r][n]) = RealPart(After(t, n)')
    BY <2>2, <2>3, <2>4, <2>5 DEF FollowsMessages
  <2>6. ASSUME \A t \in Threads : ~Updated(t, r, n)'
        PROVE  RealPart(repMsgs'[r][n]) = RealPart(undelivered'[n])
    BY <2>2, <2>3, <2>4, <2>6 DEF FollowsMessages
  <2>7. QED
    BY <2>5, <2>6 DEF FollowsMessages
<1>10. QED
  BY <1>1, <1>4, <1>5, <1>7, <1>8, <1>9, StepsAndRounds

\* A replica that still follows the primary has the same real messages queued
\* for everybody, in the same order, up to the round in progress.
THEOREM ReplicasKnowTheMessages == Spec => []MessagesInSync
<1> DEFINE Follow == \A r \in repUp, n \in Names : FollowsMessages(r, n)
<1>1. Init => Follow
  BY ThreadsAreDistinct DEF Init, FollowsMessages, Updated, InRound
<1>2. UpdatesInv /\ Follow /\ [Next]_vars => Follow'
  BY NextMessagesFollow
<1>3. Follow => MessagesInSync
  <2>1. ASSUME NEW r \in repUp, NEW n \in Names, FollowsMessages(r, n)
        PROVE  LET pending == {t \in Threads :
                                 /\ pc[t] = "round" /\ r \notin pend[t]
                                 /\ upd[t].kind \in {"addmsg", "setmsgs"}
                                 /\ upd[t].name = n}
               IN  /\ pending = {} =>
                         RealPart(repMsgs[r][n]) = RealPart(undelivered[n])
                   /\ \A t \in pending :
                         RealPart(repMsgs[r][n]) = RealPart(After(t, n))
    BY <2>1 DEF FollowsMessages, Updated, InRound
  <2>2. QED
    BY <2>1 DEF MessagesInSync, After
<1>4. QED
  BY <1>1, <1>2, <1>3, UpdatesInvariant, PTL DEF Spec

=============================================================================
