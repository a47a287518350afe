-------------------------- MODULE FailoverMessages --------------------------
(***************************************************************************)
(* The messages of Failover, for any servers, clients and names, and any   *)
(* number of requests, ends and crashes.                                   *)
(***************************************************************************)
EXTENDS FailoverProofs, FiniteSetTheorems

(* Sequences of message numbers.                                             *)

MayBePhantom == Messages \cup {Phantom}

LEMMA Numbers ==
    /\ MayBePhantom \subseteq Nat /\ Messages \subseteq MayBePhantom
    /\ \A m \in MayBePhantom : m \in Messages <=> m # Phantom
    /\ Phantom \notin Messages
BY FailoverAssumptions DEF MayBePhantom, Messages, Phantom

UpTo(s, k) == \A i \in 1 .. Len(s) : s[i] <= k

\* Real messages become more recent along a sequence.
Rising(s) ==
    \A i, j \in 1 .. Len(s) :
        i < j /\ s[i] # Phantom /\ s[j] # Phantom => s[i] < s[j]

Below(s, t) ==
    \A i \in 1 .. Len(s), j \in 1 .. Len(t) :
        s[i] # Phantom /\ t[j] # Phantom => s[i] < t[j]

LEMMA InNone ==
    ASSUME NEW m
    PROVE  ~InSeq(m, <<>>)
BY DEF InSeq

LEMMA InOne ==
    ASSUME NEW m, NEW k
    PROVE  InSeq(m, <<k>>) <=> m = k
<1>1. Len(<<k>>) = 1 /\ <<k>>[1] = k /\ \A i \in 1 .. 1 : i = 1
  OBVIOUS
<1>2. QED
  BY <1>1 DEF InSeq

LEMMA InConcat ==
    ASSUME NEW S, NEW s \in Seq(S), NEW t \in Seq(S), NEW m
    PROVE  InSeq(m, s \o t) <=> InSeq(m, s) \/ InSeq(m, t)
<1>1. /\ Len(s) \in Nat /\ Len(t) \in Nat /\ Len(s \o t) = Len(s) + Len(t)
      /\ \A i \in 1 .. Len(s) + Len(t) :
            (s \o t)[i] = IF i <= Len(s) THEN s[i] ELSE t[i - Len(s)]
  OBVIOUS
<1>2. ASSUME InSeq(m, s)
      PROVE  InSeq(m, s \o t)
  BY <1>1, <1>2 DEF InSeq
<1>3. ASSUME InSeq(m, t)
      PROVE  InSeq(m, s \o t)
  <2>1. PICK i \in 1 .. Len(t) : t[i] = m
    BY <1>3 DEF InSeq
  <2>2. Len(s) + i \in 1 .. Len(s) + Len(t) /\ (s \o t)[Len(s) + i] = m
    BY <1>1, <2>1
  <2>3. QED
    BY <1>1, <2>2 DEF InSeq
<1>4. ASSUME InSeq(m, s \o t)
      PROVE  InSeq(m, s) \/ InSeq(m, t)
  <2>1. PICK i \in 1 .. Len(s) + Len(t) : (s \o t)[i] = m
    BY <1>1, <1>4 DEF InSeq
  <2>2. CASE i <= Len(s)
    BY <1>1, <2>1, <2>2 DEF InSeq
  <2>3. CASE ~(i <= Len(s))
    <3>1. i - Len(s) \in 1 .. Len(t) /\ t[i - Len(s)] = m
      BY <1>1, <2>1, <2>3
    <3>2. QED
      BY <3>1 DEF InSeq
  <2>4. QED
    BY <2>2, <2>3
<1>5. QED
  BY <1>2, <1>3, <1>4

LEMMA InTail ==
    ASSUME NEW S, NEW s \in Seq(S), s # <<>>, NEW m
    PROVE  InSeq(m, s) <=> m = Head(s) \/ InSeq(m, Tail(s))
<1>1. /\ Len(s) \in Nat \ {0} /\ Head(s) = s[1] /\ Len(Tail(s)) = Len(s) - 1
      /\ \A i \in 1 .. Len(s) - 1 : Tail(s)[i] = s[i + 1]
  OBVIOUS
<1>2. ASSUME InSeq(m, s), m # Head(s)
      PROVE  InSeq(m, Tail(s))
  <2>1. PICK i \in 1 .. Len(s) : s[i] = m
    BY <1>2 DEF InSeq
  <2>2. i - 1 \in 1 .. Len(s) - 1 /\ Tail(s)[i - 1] = m
    BY <1>1, <1>2, <2>1
  <2>3. QED
    BY <1>1, <2>2 DEF InSeq
<1>3. ASSUME InSeq(m, Tail(s))
      PROVE  InSeq(m, s)
  <2>1. PICK i \in 1 .. Len(s) - 1 : s[i + 1] = m
    BY <1>1, <1>3 DEF InSeq
  <2>2. i + 1 \in 1 .. Len(s)
    BY <1>1
  <2>3. QED
    BY <2>1, <2>2 DEF InSeq
<1>4. InSeq(Head(s), s)
  BY <1>1 DEF InSeq
<1>5. QED
  BY <1>2, <1>3, <1>4

\* UpTo, Rising and Below say what they do about the members.
LEMMA UpToMembers ==
    ASSUME NEW s, NEW k
    PROVE  UpTo(s, k) <=> \A m : InSeq(m, s) => m <= k
BY DEF UpTo, InSeq

LEMMA BelowMembers ==
    ASSUME NEW s, NEW t
    PROVE  Below(s, t) <=>
              \A m, k : InSeq(m, s) /\ InSeq(k, t) /\ m # Phantom /\ k # Phantom
                            => m < k
BY DEF Below, InSeq

LEMMA UpToMore ==
    ASSUME NEW s \in Seq(Nat), NEW k \in Nat, NEW j \in Nat, UpTo(s, k), k <= j
    PROVE  UpTo(s, j)
BY DEF UpTo

LEMMA NoneIsRising ==
    /\ Rising(<<>>) /\ \A k : UpTo(<<>>, k)
    /\ \A s : Below(<<>>, s) /\ Below(s, <<>>)
BY DEF Rising, UpTo, Below

LEMMA RisingConcat ==
    ASSUME NEW s \in Seq(MayBePhantom), NEW t \in Seq(MayBePhantom),
           Rising(s), Rising(t), Below(s, t)
    PROVE  Rising(s \o t)
<1>1. /\ Len(s) \in Nat /\ Len(t) \in Nat /\ Len(s \o t) = Len(s) + Len(t)
      /\ \A i \in 1 .. Len(s) + Len(t) :
            (s \o t)[i] = IF i <= Len(s) THEN s[i] ELSE t[i - Len(s)]
  OBVIOUS
<1>2. SUFFICES ASSUME NEW i \in 1 .. Len(s) + Len(t),
                      NEW j \in 1 .. Len(s) + Len(t), i < j,
                      (s \o t)[i] # Phantom, (s \o t)[j] # Phantom
               PROVE  (s \o t)[i] < (s \o t)[j]
  BY <1>1 DEF Rising
<1>3. CASE j <= Len(s)
  BY <1>1, <1>2, <1>3 DEF Rising
<1>4. CASE i <= Len(s) /\ ~(j <= Len(s))
  <2>1. j - Len(s) \in 1 .. Len(t)
    BY <1>1, <1>4
  <2>2. QED
    BY <1>1, <1>2, <1>4, <2>1 DEF Below
<1>5. CASE ~(i <= Len(s))
  <2>1. i - Len(s) \in 1 .. Len(t) /\ j - Len(s) \in 1 .. Len(t)
        /\ i - Len(s) < j - Len(s)
    BY <1>1, <1>2, <1>5
  <2>2. QED
    BY <1>1, <1>2, <1>5, <2>1 DEF Rising
<1>6. QED
  BY <1>1, <1>3, <1>4, <1>5

LEMMA OneIsRising ==
    ASSUME NEW m
    PROVE  Rising(<<m>>)
<1>1. \A i, j \in 1 .. Len(<<m>>) : ~(i < j)
  BY \A i \in 1 .. 1 : i = 1
<1>2. QED
  BY <1>1 DEF Rising

\* A message more recent than all others keeps the order.
LEMMA RisingNext ==
    ASSUME NEW s \in Seq(MayBePhantom), NEW m \in Messages, Rising(s),
           \A k : InSeq(k, s) /\ k # Phantom => k < m
    PROVE  Rising(s \o <<m>>)
<1>1. Below(s, <<m>>)
  BY InOne, BelowMembers
<1>2. <<m>> \in Seq(MayBePhantom)
  BY Numbers
<1>3. QED
  BY <1>1, <1>2, OneIsRising, RisingConcat

LEMMA RisingTail ==
    ASSUME NEW s \in Seq(MayBePhantom), s # <<>>, Rising(s)
    PROVE  /\ Rising(Tail(s))
           /\ \A k : InSeq(k, Tail(s)) /\ k # Phantom /\ Head(s) # Phantom
                         => Head(s) < k
<1>1. /\ Len(s) \in Nat \ {0} /\ Head(s) = s[1] /\ Len(Tail(s)) = Len(s) - 1
      /\ \A i \in 1 .. Len(s) - 1 : Tail(s)[i] = s[i + 1]
  OBVIOUS
<1>2. ASSUME NEW i \in 1 .. Len(s) - 1, NEW j \in 1 .. Len(s) - 1, i < j,
             Tail(s)[i] # Phantom, Tail(s)[j] # Phantom
      PROVE  Tail(s)[i] < Tail(s)[j]
  <2>1. i + 1 \in 1 .. Len(s) /\ j + 1 \in 1 .. Len(s) /\ i + 1 < j + 1
    BY <1>1, <1>2
  <2>2. QED
    BY <1>1, <1>2, <2>1 DEF Rising
<1>3. ASSUME NEW k, InSeq(k, Tail(s)), k # Phantom, Head(s) # Phantom
      PROVE  Head(s) < k
  <2>1. PICK i \in 1 .. Len(s) - 1 : s[i + 1] = k
    BY <1>1, <1>3 DEF InSeq
  <2>2. 1 \in 1 .. Len(s) /\ i + 1 \in 1 .. Len(s) /\ 1 < i + 1
    BY <1>1
  <2>3. QED
    BY <1>1, <1>3, <2>1, <2>2 DEF Rising
<1>4. QED
  BY <1>1, <1>2, <1>3 DEF Rising

\* In rising sequences a message has one place.
LEMMA OnePlace ==
    ASSUME NEW s \in Seq(MayBePhantom), Rising(s),
           NEW i \in 1 .. Len(s), NEW j \in 1 .. Len(s),
           s[i] # Phantom, s[j] # Phantom
    PROVE  /\ s[i] = s[j] => i = j
           /\ s[i] < s[j] <=> i < j
<1>1. s[i] \in MayBePhantom /\ s[j] \in MayBePhantom /\ Len(s) \in Nat
  OBVIOUS
<1>2. s[i] \in Nat /\ s[j] \in Nat
  BY <1>1, Numbers
<1>3. QED
  BY <1>1, <1>2 DEF Rising

LEMMA OccurrencesAppended ==
    ASSUME NEW S, NEW s \in Seq(S), NEW k \in S, NEW m
    PROVE  /\ Occurrences(m, s) \in Nat
           /\ Occurrences(m, Append(s, k)) =
                 IF k = m THEN Occurrences(m, s) + 1 ELSE Occurrences(m, s)
<1> DEFINE At == {i \in 1 .. Len(s) : s[i] = m}
           After == {i \in 1 .. Len(Append(s, k)) : Append(s, k)[i] = m}
<1>1. /\ Len(s) \in Nat /\ Len(Append(s, k)) = Len(s) + 1
      /\ \A i \in 1 .. Len(s) : Append(s, k)[i] = s[i]
      /\ Append(s, k)[Len(s) + 1] = k
  OBVIOUS
<1>2. IsFiniteSet(At)
  <2>1. IsFiniteSet(1 .. Len(s))
    BY <1>1, FS_Interval
  <2>2. QED
    BY <2>1, FS_Subset
<1>3. Cardinality(At) \in Nat
  BY <1>2, FS_CardinalityType
<1>4. After = IF k = m THEN At \cup {Len(s) + 1} ELSE At
  BY <1>1
<1>5. Len(s) + 1 \notin At
  BY <1>1
<1>6. Cardinality(At \cup {Len(s) + 1}) = Cardinality(At) + 1
  BY <1>2, <1>5, FS_AddElement
<1>7. QED
  BY <1>3, <1>4, <1>6 DEF Occurrences

LEMMA NoOccurrence ==
    ASSUME NEW s, NEW m, ~InSeq(m, s)
    PROVE  Occurrences(m, s) = 0
<1>1. {i \in 1 .. Len(s) : s[i] = m} = {}
  BY DEF InSeq
<1>2. QED
  BY <1>1, FS_EmptySet DEF Occurrences

-----------------------------------------------------------------------------
(* What carries the messages: they are numbered as their requests begin, and *)
(* every list is in this order.                                              *)

NumbersOK ==
    /\ \A n \in Names :
          UpTo(accepted[n], requests) /\ UpTo(delivered[n], requests)
    /\ \A s \in Servers, n \in Names : UpTo(queue[s][n], requests)
    /\ UpTo(visit.refused, requests) /\ UpTo(visit.unsent, requests)

OrderOK ==
    /\ \A n \in Names : Rising(accepted[n])
    /\ \A s \in Servers, n \in Names : Rising(queue[s][n])
    /\ Rising(visit.refused) /\ Rising(visit.unsent)
    /\ Below(visit.refused, visit.unsent)

\* The message that is being sent is new to everyone whom it has not reached.
SendOK ==
    round.kind = "addmsg" =>
        /\ visit = NoVisit
        /\ requests > 0 /\ round.msgs = <<requests>>
        /\ \A n \in Names : /\ UpTo(accepted[n], requests - 1)
                            /\ UpTo(delivered[n], requests - 1)
        /\ \A s \in serving \cup round.pend :
              UpTo(queue[s][round.name], requests - 1)

\* The delivery thread reports what was refused, and only those that have
\* ended refuse.
BatchOK ==
    /\ visit # NoVisit =>
          /\ round.kind \in {"none", "create", "remove", "setmsgs"}
          /\ \A s \in serving :
                visit.refused # <<>> => sessions[s][visit.name] \in gone
    /\ round.kind = "setmsgs" =>
          /\ visit # NoVisit /\ visit.unsent = <<>>
          /\ round.name = visit.name /\ round.msgs = visit.refused

LEMMA MailIsTyped ==
    ASSUME WorkInv
    PROVE  /\ accepted \in [Names -> Seq(MayBePhantom)]
           /\ accepted \in [Names -> Seq(Messages)]
           /\ delivered \in [Names -> Seq(MayBePhantom)]
           /\ delivered \in [Names -> Seq(Messages)]
           /\ queue \in [Servers -> [Names -> Seq(MayBePhantom)]]
           /\ visit.unsent \in Seq(MayBePhantom)
           /\ visit.refused \in Seq(MayBePhantom)
           /\ visit.refused \in Seq(Messages)
           /\ visit \in [name : Names \cup {None}, unsent : Seq(MayBePhantom),
                         refused : Seq(Messages)]
           /\ requests \in Nat
           /\ visit # NoVisit => visit.name \in Names /\ serving # {}
<1>1. Messages \subseteq MayBePhantom
  BY Numbers
<1>2. Seq(Messages) \subseteq Seq(MayBePhantom)
  BY <1>1
<1>3. QED
  BY <1>2, FailoverAssumptions
     DEF WorkInv, VisitOK, FailoverTypeOK, MayBePhantom

MailKinds == {"addmsg", "setmsgs"}

\* What a step that is not about messages leaves alone.
Aside ==
    /\ UNCHANGED <<accepted, delivered, queue, visit, live, serving, closed>>
    /\ gone \subseteq gone'
    /\ \/ UNCHANGED <<round, requests>>
       \/ /\ round.kind \notin MailKinds /\ round'.kind \notin MailKinds
          /\ visit # NoVisit =>
                round'.kind \notin LoginKinds \/ round.kind \in LoginKinds
          /\ requests' \in {requests, requests + 1}

LEMMA StepsOnMail ==
    ASSUME WorkInv, [Next]_vars
    PROVE  \/ \E s \in Servers : CrashServer(s) \/ BecomePrimary(s)
           \/ \E c \in Clients, n \in Names : BeginSend(c, n)
           \/ \E r \in Servers : Replicate(r)
           \/ ApplySend
           \/ \E n \in Names : DeliveryVisit(n)
           \/ DeliverySend \/ DeliveryUpdate \/ DeliveryApply
           \/ Aside
<1> USE NoRoundTyped
    DEF leaders, tables, faults, histories, handlers, messages, MailKinds,
        LoginKinds, Aside
<1>1. ASSUME NEW c \in Clients, BeginRequest(c),
             ~ \E n \in Names : BeginSend(c, n)
      PROVE  Aside
  BY <1>1 DEF BeginRequest, BeginCreate, BeginLogin, BeginLogoff, Begin, Update
<1>2. ASSUME NEW c \in Clients, Continue(c)
      PROVE  Aside
  BY <1>2 DEF Continue, CreateLogin, DeleteRemove, Update
<1>3. ASSUME NEW c \in Clients, Close(c)
      PROVE  Aside
  BY <1>3 DEF Close
<1>4. ASSUME NEW s \in Servers, NEW c \in Clients, HangUp(s, c)
      PROVE  Aside
  BY <1>4 DEF HangUp
<1>5. ApplyCreate => Aside
  BY DEF ApplyCreate, Acknowledged
<1>6. ApplyLogin => Aside
  BY DEF ApplyLogin, Acknowledged, Respond
<1>7. ApplyLogoff => Aside
  BY DEF ApplyLogoff, Acknowledged, Respond
<1>8. ApplyRemove => Aside
  BY DEF ApplyRemove, Acknowledged, Respond
<1>9. UNCHANGED vars => Aside
  BY DEF vars
<1>10. QED
  BY <1>1, <1>2, <1>3, <1>4, <1>5, <1>6, <1>7, <1>8, <1>9
     DEF Next, Round, Deliver

LEMMA NextBatch == WorkInv /\ BatchOK /\ [Next]_vars => BatchOK'
<1> SUFFICES ASSUME WorkInv, BatchOK, [Next]_vars
             PROVE  BatchOK'
  OBVIOUS
<1> USE NoRoundTyped DEF leaders, tables, faults, histories, handlers, messages
<1>p. serving # {} => serving = {Primary} /\ Primary \in Servers
  BY PrimaryServes DEF WorkInv, FailoverTypeOK
\* No session of the primary changes while messages are sent.
<1>s. ASSUME visit # NoVisit, visit' = visit, serving' = serving
      PROVE  \A s \in serving : sessions'[s] = sessions[s]
  <2>1. round.kind \notin LoginKinds
    BY <1>s DEF BatchOK, LoginKinds
  <2>2. sessions \in [Servers -> [Names -> Clients \cup {None}]]
    BY DEF WorkInv, FailoverTypeOK
  <2>3. ASSUME NEW s \in Servers, NEW c \in Clients, HangUp(s, c)
        PROVE  \A t \in serving : sessions'[t] = sessions[t]
    BY <1>s, <2>2, <2>3, <1>p DEF HangUp
  <2>4. ASSUME NEW r \in Servers, Replicate(r)
        PROVE  UNCHANGED sessions
    BY <2>1, <2>4
       DEF Replicate, ProcessUpdateAccounts, ProcessUpdateLogin,
           ProcessUpdateMessages, LoginKinds
  <2>5. ASSUME NEW c \in Clients, BeginRequest(c) \/ Continue(c) \/ Close(c)
        PROVE  UNCHANGED sessions
    BY <2>5
       DEF BeginRequest, BeginCreate, BeginLogin, BeginLogoff, BeginSend,
           Continue, CreateLogin, DeleteRemove, Close
  <2>6. ASSUME NEW s \in Servers, CrashServer(s) \/ BecomePrimary(s)
        PROVE  UNCHANGED sessions
    BY <2>6 DEF CrashServer, BecomePrimary
  <2>7. ~ApplyLogin /\ ~ApplyLogoff
    BY <2>1 DEF ApplyLogin, ApplyLogoff, Acknowledged, LoginKinds
  <2>8. ApplyCreate \/ ApplyRemove \/ ApplySend => UNCHANGED sessions
    BY DEF ApplyCreate, ApplyRemove, ApplySend
  <2>9. ASSUME NEW n \in Names, DeliveryVisit(n)
        PROVE  UNCHANGED sessions
    BY <2>9 DEF DeliveryVisit
  <2>10. DeliverySend \/ DeliveryUpdate \/ DeliveryApply => UNCHANGED sessions
    BY DEF DeliverySend, DeliveryUpdate, DeliveryApply, DeliveryEnds
  <2>11. UNCHANGED vars => UNCHANGED sessions
    BY DEF vars
  <2>12. QED
    BY <2>3, <2>4, <2>5, <2>6, <2>7, <2>8, <2>9, <2>10, <2>11
       DEF Next, Round, Deliver
<1>1. ASSUME NEW s \in Servers, CrashServer(s) \/ BecomePrimary(s)
      PROVE  BatchOK'
  BY <1>1, NoVisitTyped
     DEF CrashServer, L!Crash, BecomePrimary, L!Serve, BatchOK, WorkInv, VisitOK
<1>2. ASSUME NEW c \in Clients, NEW n \in Names, BeginSend(c, n)
      PROVE  BatchOK'
  BY <1>2 DEF BeginSend, Update, BatchOK
<1>3. ASSUME NEW r \in Servers, Replicate(r)
      PROVE  BatchOK'
  <2>1. /\ round'.kind = round.kind /\ round'.name = round.name
        /\ round'.msgs = round.msgs
        /\ UNCHANGED <<visit, serving, gone>>
    BY <1>3 DEF Replicate, WorkInv, FailoverTypeOK, UpdateType
  <2>2. QED
    BY <1>s, <2>1 DEF BatchOK
<1>4. CASE ApplySend
  <2>1. visit = NoVisit
    BY <1>4 DEF ApplySend, Acknowledged, BatchOK
  <2>2. QED
    BY <1>4, <2>1 DEF ApplySend, BatchOK
<1>5. ASSUME NEW n \in Names, DeliveryVisit(n)
      PROVE  BatchOK'
  <2>1. /\ UNCHANGED <<round, serving, gone, sessions>>
        /\ round.kind \in {"none", "create", "remove"}
        /\ visit' = NoVisit \/ visit'.refused = <<>>
    BY <1>5 DEF DeliveryVisit, AccountKinds
  <2>2. QED
    BY <2>1 DEF BatchOK
<1>6. CASE DeliverySend
  <2>1. visit # NoVisit /\ round.kind # "setmsgs"
    BY <1>6 DEF DeliverySend, BatchOK, NoVisit
  <2>2. /\ UNCHANGED <<round, serving, gone, sessions>>
        /\ visit'.name = visit.name
        /\ visit'.refused = visit.refused \/ sessions[Primary][visit.name] \in gone
    BY <1>6 DEF DeliverySend, WorkInv, FailoverTypeOK
  <2>3. QED
    BY <1>p, <2>1, <2>2 DEF BatchOK
<1>7. CASE DeliveryUpdate
  BY <1>7, <1>s DEF DeliveryUpdate, Update, BatchOK
<1>8. CASE DeliveryApply
  BY <1>8 DEF DeliveryApply, DeliveryEnds, BatchOK
<1>9. CASE Aside
  <2>1. /\ round'.kind = "setmsgs" => UNCHANGED round
        /\ visit # NoVisit => round'.kind \in {"none", "create", "remove", "setmsgs"}
    <3>1. round' \in UpdateType
      BY NextWork DEF WorkInv, FailoverTypeOK
    <3>2. QED
      BY <1>9, <3>1 DEF Aside, MailKinds, LoginKinds, BatchOK, UpdateType
  <2>2. QED
    BY <1>9, <1>s, <2>1 DEF Aside, BatchOK
<1>10. QED
  BY <1>1, <1>2, <1>3, <1>4, <1>5, <1>6, <1>7, <1>8, <1>9, StepsOnMail

(* How the lists change. *)

LEMMA ServerSteps ==
    ASSUME WorkInv, [Next]_vars
    PROVE  \/ \E s \in Servers : CrashServer(s) \/ BecomePrimary(s)
           \/ UNCHANGED <<live, serving>>
<1> USE DEF leaders
<1>1. ASSUME NEW c \in Clients, NEW n \in Names, BeginSend(c, n)
      PROVE  UNCHANGED <<live, serving>>
  BY <1>1 DEF BeginSend
<1>2. ASSUME NEW r \in Servers, Replicate(r)
      PROVE  UNCHANGED <<live, serving>>
  BY <1>2 DEF Replicate
<1>3. ASSUME NEW n \in Names, DeliveryVisit(n)
      PROVE  UNCHANGED <<live, serving>>
  BY <1>3 DEF DeliveryVisit
<1>4. ApplySend \/ DeliverySend \/ DeliveryUpdate \/ DeliveryApply
          => UNCHANGED <<live, serving>>
  BY DEF ApplySend, DeliverySend, DeliveryUpdate, DeliveryApply, DeliveryEnds
<1>5. QED
  BY <1>1, <1>2, <1>3, <1>4, StepsOnMail DEF Aside

LEMMA RequestsGrow ==
    ASSUME WorkInv, [Next]_vars
    PROVE  requests' \in Nat /\ requests <= requests'
<1> USE DEF handlers
<1>1. requests \in Nat /\ requests' \in Nat
  BY SMTT(30), MailIsTyped, NextWork, FailoverAssumptions
     DEF WorkInv, FailoverTypeOK
<1>2. requests' \in {requests, requests + 1}
  <2>1. ASSUME NEW s \in Servers, CrashServer(s) \/ BecomePrimary(s)
        PROVE  requests' = requests
    BY <2>1 DEF CrashServer, BecomePrimary
  <2>2. ASSUME NEW c \in Clients, NEW n \in Names, BeginSend(c, n)
        PROVE  requests' = requests + 1
    BY <2>2 DEF BeginSend, Begin
  <2>3. ASSUME NEW r \in Servers, Replicate(r)
        PROVE  requests' = requests
    BY <2>3 DEF Replicate
  <2>4. ASSUME NEW n \in Names, DeliveryVisit(n)
        PROVE  requests' = requests
    BY <2>4 DEF DeliveryVisit
  <2>5. ApplySend \/ DeliverySend \/ DeliveryUpdate \/ DeliveryApply
            => requests' = requests
    BY DEF ApplySend, DeliverySend, DeliveryUpdate, DeliveryApply, DeliveryEnds
  <2>6. QED
    BY <2>1, <2>2, <2>3, <2>4, <2>5, StepsOnMail DEF Aside
<1>3. QED
  BY <1>1, <1>2

LEMMA QueueSteps ==
    ASSUME WorkInv, BatchOK, SendOK, [Next]_vars,
           NEW s \in Servers, NEW n \in Names
    PROVE  \/ queue'[s][n] = queue[s][n]
           \/ /\ round.kind = "addmsg" /\ n = round.name
              /\ s \in serving \cup round.pend
              /\ round' = NoRound \/ s \notin serving' \cup round'.pend
              /\ requests' = requests
              /\ queue'[s][n] = queue[s][n] \o <<requests>>
           \/ /\ round.kind = "setmsgs" /\ n = visit.name
              /\ \/ queue'[s][n] = visit.refused
                 \/ visit.refused = <<>> /\ queue'[s][n] = <<Phantom>>
<1> USE DEF tables, messages, handlers, leaders
<1>t. queue \in [Servers -> [Names -> Seq(MayBePhantom)]]
  BY MailIsTyped
<1>1. ASSUME NEW r \in Servers, CrashServer(r) \/ BecomePrimary(r)
      PROVE  queue' = queue
  BY <1>1 DEF CrashServer, BecomePrimary
<1>2. ASSUME NEW c \in Clients, NEW m \in Names, BeginSend(c, m)
      PROVE  queue' = queue
  BY <1>2 DEF BeginSend
<1>3. ASSUME NEW r \in Servers, Replicate(r), queue'[s][n] # queue[s][n]
      PROVE  \/ /\ round.kind = "addmsg" /\ n = round.name
                /\ s \in serving \cup round.pend
                /\ s \notin serving' \cup round'.pend
                /\ requests' = requests
                /\ queue'[s][n] = queue[s][n] \o <<requests>>
             \/ /\ round.kind = "setmsgs" /\ n = visit.name
                /\ \/ queue'[s][n] = visit.refused
                   \/ visit.refused = <<>> /\ queue'[s][n] = <<Phantom>>
  <2>1. /\ round.kind # "none" /\ round.name \in Names
        /\ r \in round.pend /\ r \notin serving
        /\ round'.pend = round.pend \ {r} /\ UNCHANGED <<requests, serving>>
        /\ round.msgs \in Seq(Messages)
    BY <1>3, NoRoundTyped
       DEF Replicate, WorkInv, RoundOK, FailoverTypeOK, UpdateType
  <2>2. ProcessUpdateMessages(r, round)
    BY <1>3 DEF Replicate, ProcessUpdateAccounts, ProcessUpdateLogin
  <2>3. CASE round.kind = "addmsg"
    <3>1. queue' = [queue EXCEPT ![r][round.name] =
                        queue[r][round.name] \o <<requests>>]
      BY <2>2, <2>3 DEF ProcessUpdateMessages, SendOK
    <3>2. requests \in MayBePhantom
      BY <2>3, FailoverAssumptions
         DEF SendOK, WorkInv, FailoverTypeOK, MayBePhantom, Messages
    <3>3. queue[r][round.name] \o <<requests>> \in Seq(MayBePhantom)
      BY <1>t, <2>1, <3>2
    <3>4. queue'[s][n] = IF s = r /\ n = round.name
                         THEN queue[r][round.name] \o <<requests>>
                         ELSE queue[s][n]
      BY <1>t, <2>1, <3>1, <3>3, EntrySet
    <3>5. QED
      BY <1>3, <2>1, <2>3, <3>4
  <2>4. CASE round.kind = "setmsgs"
    <3>1. PICK back \in {visit.refused, <<Phantom>>} :
             /\ \/ back = visit.refused
                \/ visit.refused = <<>> /\ back = <<Phantom>>
             /\ queue' = [queue EXCEPT ![r][round.name] = back]
      BY <1>3, <2>2, <2>4 DEF ProcessUpdateMessages, BatchOK
    <3>2. back \in Seq(MayBePhantom)
      <4>1. <<Phantom>> \in Seq(MayBePhantom)
        BY DEF MayBePhantom
      <4>2. QED
        BY <4>1, MailIsTyped
    <3>3. queue'[s][n] = IF s = r /\ n = round.name THEN back
                         ELSE queue[s][n]
      BY <1>t, <2>1, <3>1, <3>2, EntrySet
    <3>4. QED
      BY <1>3, <2>4, <3>1, <3>3 DEF BatchOK
  <2>5. QED
    BY <2>2, <2>3, <2>4 DEF ProcessUpdateMessages
<1>p. round.kind # "none" =>
         /\ serving = {Primary} /\ Primary \in Servers /\ round.name \in Names
  BY RoundIsTyped
<1>4. ASSUME ApplySend, queue'[s][n] # queue[s][n]
      PROVE  /\ round.kind = "addmsg" /\ n = round.name /\ s \in serving
             /\ round' = NoRound /\ requests' = requests
             /\ queue'[s][n] = queue[s][n] \o <<requests>>
  <2>1. /\ round.kind = "addmsg" /\ round' = NoRound /\ requests' = requests
        /\ round.msgs = <<requests>> /\ requests > 0
        /\ queue' = [queue EXCEPT ![Primary][round.name] =
                        queue[Primary][round.name] \o <<requests>>]
    BY <1>4 DEF ApplySend, Acknowledged, SendOK
  <2>2. requests \in MayBePhantom
    BY <2>1, Numbers, FailoverAssumptions
       DEF WorkInv, FailoverTypeOK, MayBePhantom, Messages
  <2>3. queue[Primary][round.name] \o <<requests>> \in Seq(MayBePhantom)
    BY <1>t, <1>p, <2>1, <2>2
  <2>4. queue'[s][n] = IF s = Primary /\ n = round.name
                       THEN queue[Primary][round.name] \o <<requests>>
                       ELSE queue[s][n]
    BY <1>t, <1>p, <2>1, <2>3, EntrySet
  <2>5. QED
    BY <1>4, <1>p, <2>1, <2>4
<1>5. ASSUME NEW m \in Names, DeliveryVisit(m)
      PROVE  queue' = queue
  BY <1>5 DEF DeliveryVisit
<1>6. DeliverySend \/ DeliveryUpdate => queue' = queue
  BY DEF DeliverySend, DeliveryUpdate
<1>7. ASSUME DeliveryApply, queue'[s][n] # queue[s][n]
      PROVE  /\ round.kind = "setmsgs" /\ n = visit.name
             /\ queue'[s][n] = visit.refused
  <2>1. /\ round.kind = "setmsgs" /\ round.name = visit.name
        /\ queue' = [queue EXCEPT ![Primary][round.name] = visit.refused]
    BY <1>7 DEF DeliveryApply, DeliveryEnds, Acknowledged, BatchOK
  <2>2. queue'[s][n] = IF s = Primary /\ n = round.name THEN visit.refused
                       ELSE queue[s][n]
    BY <1>t, <1>p, <2>1, MailIsTyped, EntrySet
  <2>3. QED
    BY <1>7, <2>1, <2>2
<1>8. QED
  BY <1>1, <1>2, <1>3, <1>4, <1>5, <1>6, <1>7, StepsOnMail DEF Aside

LEMMA VisitSteps ==
    ASSUME WorkInv, [Next]_vars
    PROVE  \/ UNCHANGED <<visit, delivered>>
           \/ visit' = NoVisit /\ UNCHANGED delivered
           \/ /\ UNCHANGED <<delivered, queue>>
              /\ visit = NoVisit /\ serving # {}
              /\ \E n \in Names :
                    visit' = [name |-> n, unsent |-> queue[Primary][n],
                              refused |-> <<>>]
           \/ DeliverySend
<1> USE DEF tables, messages
<1>1. ASSUME NEW s \in Servers, CrashServer(s) \/ BecomePrimary(s)
      PROVE  UNCHANGED delivered /\ (visit' = visit \/ visit' = NoVisit)
  BY <1>1 DEF CrashServer, BecomePrimary
<1>2. ASSUME NEW c \in Clients, NEW n \in Names, BeginSend(c, n)
      PROVE  UNCHANGED <<visit, delivered>>
  BY <1>2 DEF BeginSend
<1>3. ASSUME NEW r \in Servers, Replicate(r)
      PROVE  UNCHANGED <<visit, delivered>>
  BY <1>3 DEF Replicate
<1>4. ApplySend \/ DeliveryUpdate => UNCHANGED <<visit, delivered>>
  BY DEF ApplySend, DeliveryUpdate
<1>5. DeliveryApply => visit' = NoVisit /\ UNCHANGED delivered
  BY DEF DeliveryApply, DeliveryEnds
<1>6. ASSUME NEW n \in Names, DeliveryVisit(n)
      PROVE  \/ UNCHANGED <<visit, delivered>>
             \/ /\ UNCHANGED <<delivered, queue>>
                /\ visit = NoVisit /\ serving # {}
                /\ visit' = [name |-> n, unsent |-> queue[Primary][n],
                             refused |-> <<>>]
  BY <1>6 DEF DeliveryVisit
<1>7. QED
  BY <1>1, <1>2, <1>3, <1>4, <1>5, <1>6, StepsOnMail DEF Aside

LEMMA InAppend ==
    ASSUME NEW S, NEW s \in Seq(S), NEW k \in S, NEW m
    PROVE  /\ Append(s, k) = s \o <<k>>
           /\ InSeq(m, Append(s, k)) <=> InSeq(m, s) \/ m = k
<1>1. Append(s, k) = s \o <<k>> /\ <<k>> \in Seq(S)
  OBVIOUS
<1>2. InSeq(m, s \o <<k>>) <=> InSeq(m, s) \/ InSeq(m, <<k>>)
  BY <1>1, InConcat
<1>3. InSeq(m, <<k>>) <=> m = k
  BY InOne
<1>4. QED
  BY <1>1, <1>2, <1>3

LEMMA DeliverySteps ==
    ASSUME WorkInv, DeliverySend, NEW m, m = Head(visit.unsent)
    PROVE  /\ visit # NoVisit /\ visit.name \in Names /\ visit.unsent # <<>>
           /\ serving = {Primary}
           /\ m \in MayBePhantom
           /\ visit'.name = visit.name /\ visit'.unsent = Tail(visit.unsent)
           /\ UNCHANGED <<live, serving, closed, queue, round, requests,
                          accepted>>
           /\ \A n \in Names \ {visit.name} : delivered'[n] = delivered[n]
           /\ \/ /\ m = Phantom
                 /\ visit'.refused = visit.refused /\ UNCHANGED delivered
              \/ /\ m \in Messages
                 /\ \A s \in serving : sessions[s][visit.name] \in gone =>
                                          visit.refused = <<>>
                 /\ visit'.refused = visit.refused
                 /\ delivered'[visit.name] = Append(delivered[visit.name], m)
              \/ /\ m \in Messages
                 /\ visit'.refused = Append(visit.refused, m)
                 /\ UNCHANGED delivered
<1> USE DEF leaders, tables, faults, handlers
<1>1. visit # NoVisit /\ visit.unsent # <<>>
  BY DEF DeliverySend, NoVisit
<1>2. visit.name \in Names /\ serving = {Primary}
  BY <1>1, MailIsTyped, PrimaryServes DEF WorkInv
<1>3. m \in MayBePhantom
  <2>1. visit.unsent \in Seq(MayBePhantom)
    BY MailIsTyped
  <2>2. QED
    BY <1>1, <2>1
<1>4. m # Phantom => m \in Messages
  BY <1>3, Numbers
<1>5. delivered \in [Names -> Seq(Messages)]
  BY MailIsTyped
<1>v. /\ visit \in [name : Names \cup {None}, unsent : Seq(MayBePhantom),
                    refused : Seq(Messages)]
  BY MailIsTyped
<1>6. /\ visit'.name = visit.name /\ visit'.unsent = Tail(visit.unsent)
      /\ UNCHANGED <<live, serving, closed, queue, round, requests, accepted>>
  BY <1>v DEF DeliverySend
<1>7. \/ /\ m = Phantom
         /\ visit'.refused = visit.refused /\ UNCHANGED delivered
      \/ /\ m # Phantom
         /\ sessions[Primary][visit.name] \in gone => visit.refused = <<>>
         /\ visit'.refused = visit.refused
         /\ delivered' = [delivered EXCEPT ![visit.name] =
                             Append(delivered[visit.name], m)]
      \/ /\ m # Phantom
         /\ visit'.refused = Append(visit.refused, m)
         /\ UNCHANGED delivered
  BY <1>v DEF DeliverySend
<1>8. QED
  BY <1>1, <1>2, <1>3, <1>4, <1>5, <1>6, <1>7

LEMMA AcceptedSteps ==
    ASSUME WorkInv, SendOK, [Next]_vars
    PROVE  \/ UNCHANGED accepted
           \/ /\ ApplySend /\ round.kind = "addmsg" /\ round.name \in Names
              /\ serving = {Primary}
              /\ requests' = requests /\ requests \in Messages
              /\ UNCHANGED <<visit, delivered, live, serving, closed>>
              /\ round' = NoRound /\ round.pend \cap live = {}
              /\ accepted'[round.name] = Append(accepted[round.name], requests)
              /\ \A n \in Names \ {round.name} : accepted'[n] = accepted[n]
<1> USE DEF leaders, faults, handlers, messages
<1>1. ASSUME ApplySend
      PROVE  /\ round.kind = "addmsg" /\ round.name \in Names
             /\ serving = {Primary}
             /\ requests' = requests /\ requests \in Messages
             /\ UNCHANGED <<visit, delivered, live, serving, closed>>
             /\ round' = NoRound /\ round.pend \cap live = {}
             /\ accepted'[round.name] = Append(accepted[round.name], requests)
             /\ \A n \in Names \ {round.name} : accepted'[n] = accepted[n]
  <2>1. /\ round.kind = "addmsg" /\ requests' = requests
        /\ round.msgs = <<requests>> /\ requests > 0
        /\ round' = NoRound /\ round.pend \cap live = {}
        /\ UNCHANGED <<visit, delivered, live, serving, closed>>
        /\ accepted' = [accepted EXCEPT ![round.name] =
                           accepted[round.name] \o <<requests>>]
    BY <1>1 DEF ApplySend, Acknowledged, SendOK
  <2>2. requests \in Messages
    BY <2>1, FailoverAssumptions DEF WorkInv, FailoverTypeOK, Messages
  <2>3. round.name \in Names /\ serving = {Primary}
    BY <2>1, RoundIsTyped
  <2>4. accepted \in [Names -> Seq(Messages)]
    BY MailIsTyped
  <2>5. accepted[round.name] \o <<requests>> = Append(accepted[round.name], requests)
    BY <2>2, <2>3, <2>4, InAppend
  <2>6. QED
    BY <2>1, <2>2, <2>3, <2>4, <2>5
<1>2. ASSUME NEW s \in Servers, CrashServer(s) \/ BecomePrimary(s)
      PROVE  UNCHANGED accepted
  BY <1>2 DEF CrashServer, BecomePrimary
<1>3. ASSUME NEW c \in Clients, NEW n \in Names, BeginSend(c, n)
      PROVE  UNCHANGED accepted
  BY <1>3 DEF BeginSend
<1>4. ASSUME NEW r \in Servers, Replicate(r)
      PROVE  UNCHANGED accepted
  BY <1>4 DEF Replicate
<1>5. ASSUME NEW n \in Names, DeliveryVisit(n)
      PROVE  UNCHANGED accepted
  BY <1>5 DEF DeliveryVisit
<1>6. DeliverySend \/ DeliveryUpdate \/ DeliveryApply => UNCHANGED accepted
  BY DEF DeliverySend, DeliveryUpdate, DeliveryApply, DeliveryEnds
<1>7. QED
  BY <1>1, <1>2, <1>3, <1>4, <1>5, <1>6, StepsOnMail DEF Aside

LEMMA NextNumbers ==
    WorkInv /\ BatchOK /\ SendOK /\ NumbersOK /\ [Next]_vars => NumbersOK'
<1> SUFFICES ASSUME WorkInv, BatchOK, SendOK, NumbersOK, [Next]_vars
             PROVE  NumbersOK'
  OBVIOUS
<1> USE DEF NumbersOK
<1>t. /\ accepted \in [Names -> Seq(MayBePhantom)]
      /\ delivered \in [Names -> Seq(MayBePhantom)]
      /\ queue \in [Servers -> [Names -> Seq(MayBePhantom)]]
      /\ visit.unsent \in Seq(MayBePhantom)
      /\ visit.refused \in Seq(MayBePhantom)
      /\ requests \in Nat /\ requests' \in Nat /\ requests <= requests'
      /\ MayBePhantom \subseteq Nat
  BY MailIsTyped, RequestsGrow, Numbers
<1>u. ASSUME NEW s \in Seq(MayBePhantom), UpTo(s, requests)
      PROVE  UpTo(s, requests')
  <2>1. \A i \in 1 .. Len(s) : s[i] \in MayBePhantom
    OBVIOUS
  <2>2. \A i \in 1 .. Len(s) : s[i] \in Nat
    BY <1>t, <2>1
  <2>3. QED
    BY <1>t, <1>u, <2>2 DEF UpTo
<1>m. ASSUME NEW s \in Seq(MayBePhantom), UpTo(s, requests),
             NEW k \in MayBePhantom, k <= requests
      PROVE  /\ UpTo(s \o <<k>>, requests') /\ UpTo(Append(s, k), requests')
  <2>1. Append(s, k) = s \o <<k>> /\ Append(s, k) \in Seq(MayBePhantom)
    BY InAppend
  <2>2. \A m : InSeq(m, Append(s, k)) => InSeq(m, s) \/ m = k
    BY InAppend
  <2>3. \A m : InSeq(m, s) => m <= requests
    BY <1>m, UpToMembers
  <2>4. UpTo(Append(s, k), requests)
    BY <1>m, <2>2, <2>3, UpToMembers
  <2>5. QED
    BY <1>u, <2>1, <2>4
<1>p. ASSUME NEW k \in Nat
      PROVE  UpTo(<<Phantom>>, k)
  <2>1. Phantom <= k
    BY DEF Phantom
  <2>2. \A m : InSeq(m, <<Phantom>>) => m = Phantom
    BY InOne
  <2>3. QED
    BY <2>1, <2>2, UpToMembers
<1>1. ASSUME NEW n \in Names
      PROVE  UpTo(accepted'[n], requests')
  <2>1. CASE UNCHANGED accepted
    BY <1>t, <1>u, <2>1
  <2>2. ASSUME requests \in Messages,
               \/ accepted'[n] = accepted[n]
               \/ accepted'[n] = Append(accepted[n], requests)
        PROVE  UpTo(accepted'[n], requests')
    <3>1. requests \in MayBePhantom
      BY <2>2, Numbers
    <3>2. accepted[n] \in Seq(MayBePhantom) /\ UpTo(accepted[n], requests)
      BY <1>t
    <3>3. requests <= requests
      BY <1>t
    <3>4. UpTo(Append(accepted[n], requests), requests')
      BY <1>m, <3>1, <3>2, <3>3
    <3>5. QED
      BY <1>u, <2>2, <3>2, <3>4
  <2>3. QED
    BY <2>1, <2>2, AcceptedSteps
<1>2. ASSUME NEW s \in Servers, NEW n \in Names
      PROVE  UpTo(queue'[s][n], requests')
  <2>1. CASE queue'[s][n] = queue[s][n]
    BY <1>t, <1>u, <2>1
  <2>2. CASE round.kind = "addmsg" /\ queue'[s][n] = queue[s][n] \o <<requests>>
    <3>1. requests \in MayBePhantom
      BY <2>2, FailoverAssumptions
         DEF SendOK, WorkInv, FailoverTypeOK, MayBePhantom, Messages
    <3>2. QED
      BY <1>t, <1>m, <2>2, <3>1
  <2>3. CASE queue'[s][n] = visit.refused
    BY <1>t, <1>u, <2>3
  <2>4. CASE queue'[s][n] = <<Phantom>>
    BY <1>t, <1>p, <2>4
  <2>5. QED
    BY <2>1, <2>2, <2>3, <2>4, QueueSteps
<1>3. UpTo(visit'.refused, requests') /\ UpTo(visit'.unsent, requests')
  <2>1. CASE UNCHANGED visit
    BY <1>t, <1>u, <2>1
  <2>2. CASE visit' = NoVisit
    BY <2>2, NoneIsRising DEF NoVisit
  <2>3. ASSUME NEW n \in Names, serving # {},
               visit' = [name |-> n, unsent |-> queue[Primary][n],
                         refused |-> <<>>]
        PROVE  UpTo(visit'.refused, requests') /\ UpTo(visit'.unsent, requests')
    <3>1. Primary \in Servers
      BY <2>3, PrimaryServes DEF WorkInv, FailoverTypeOK
    <3>2. UpTo(queue[Primary][n], requests') /\ UpTo(<<>>, requests')
      BY <1>t, <1>u, <3>1, NoneIsRising
    <3>3. QED
      BY <2>3, <3>2
  <2>4. CASE DeliverySend
    <3> DEFINE m == Head(visit.unsent)
    <3>1. /\ visit.unsent # <<>> /\ m \in MayBePhantom
          /\ visit'.unsent = Tail(visit.unsent)
          /\ visit'.refused \in {visit.refused, Append(visit.refused, m)}
      BY <2>4, DeliverySteps
    <3>2. \A k : InSeq(k, visit.unsent) => k <= requests
      BY UpToMembers
    <3>3. m <= requests /\ \A k : InSeq(k, Tail(visit.unsent)) => k <= requests
      BY <1>t, <3>1, <3>2, InTail
    <3>4. UpTo(Tail(visit.unsent), requests)
      BY <3>3, UpToMembers
    <3>5. Tail(visit.unsent) \in Seq(MayBePhantom)
      BY <1>t, <3>1
    <3>6. UpTo(visit'.unsent, requests')
      BY <1>u, <3>1, <3>4, <3>5
    <3>7. UpTo(visit'.refused, requests')
      BY <1>t, <1>u, <1>m, <3>1, <3>3
    <3>8. QED
      BY <3>6, <3>7
  <2>5. QED
    BY <2>1, <2>2, <2>3, <2>4, VisitSteps
<1>4. ASSUME NEW n \in Names
      PROVE  UpTo(delivered'[n], requests')
  <2>1. CASE UNCHANGED delivered
    BY <1>t, <1>u, <2>1
  <2>2. CASE DeliverySend
    <3> DEFINE m == Head(visit.unsent)
    <3>1. /\ visit.unsent # <<>> /\ m \in MayBePhantom
          /\ \/ delivered'[n] = delivered[n]
             \/ delivered'[n] = Append(delivered[n], m)
      BY <2>2, DeliverySteps
    <3>2. m <= requests
      BY <1>t, <3>1, InTail, UpToMembers
    <3>3. QED
      BY <1>t, <1>u, <1>m, <3>1, <3>2
  <2>3. QED
    BY <2>1, <2>2, VisitSteps
<1>5. QED
  BY <1>1, <1>2, <1>3, <1>4

LEMMA NextOrder ==
    /\ WorkInv /\ BatchOK /\ SendOK /\ NumbersOK /\ OrderOK /\ [Next]_vars
    => OrderOK'
<1> SUFFICES ASSUME WorkInv, BatchOK, SendOK, NumbersOK, OrderOK, [Next]_vars
             PROVE  OrderOK'
  OBVIOUS
<1>t. /\ accepted \in [Names -> Seq(MayBePhantom)]
      /\ queue \in [Servers -> [Names -> Seq(MayBePhantom)]]
      /\ visit.unsent \in Seq(MayBePhantom)
      /\ visit.refused \in Seq(MayBePhantom)
      /\ Messages \subseteq MayBePhantom /\ MayBePhantom \subseteq Nat
  BY MailIsTyped, Numbers
<1>o. /\ \A n \in Names : Rising(accepted[n])
      /\ \A s \in Servers, n \in Names : Rising(queue[s][n])
      /\ Rising(visit.refused) /\ Rising(visit.unsent)
      /\ Below(visit.refused, visit.unsent)
  BY DEF OrderOK
\* The new message is more recent than what is in the list.
<1>n. ASSUME NEW s \in Seq(MayBePhantom), Rising(s), requests \in Messages,
             UpTo(s, requests - 1)
      PROVE  Rising(s \o <<requests>>) /\ Rising(Append(s, requests))
  <2>1. \A k : InSeq(k, s) /\ k # Phantom => k < requests
    <3> SUFFICES ASSUME NEW i \in 1 .. Len(s)
                 PROVE  s[i] < requests
      BY DEF InSeq
    <3>1. s[i] \in MayBePhantom /\ s[i] <= requests - 1
      BY <1>n DEF UpTo
    <3>2. s[i] \in Nat /\ requests \in Nat
      BY <1>n, <1>t, <3>1
    <3>3. QED
      BY <3>1, <3>2
  <2>2. Append(s, requests) = s \o <<requests>>
    BY <1>n, <1>t, InAppend
  <2>3. QED
    BY <1>n, <2>1, <2>2, RisingNext
<1>1. ASSUME NEW n \in Names
      PROVE  Rising(accepted'[n])
  <2>1. CASE UNCHANGED accepted
    BY <1>o, <2>1
  <2>2. ASSUME round.kind = "addmsg", requests \in Messages,
               \/ accepted'[n] = accepted[n]
               \/ accepted'[n] = Append(accepted[n], requests)
        PROVE  Rising(accepted'[n])
    <3>1. UpTo(accepted[n], requests - 1)
      BY <2>2 DEF SendOK
    <3>2. QED
      BY <1>n, <1>t, <1>o, <2>2, <3>1
  <2>3. QED
    BY <2>1, <2>2, AcceptedSteps
<1>2. ASSUME NEW s \in Servers, NEW n \in Names
      PROVE  Rising(queue'[s][n])
  <2>1. CASE /\ round.kind = "addmsg" /\ n = round.name
             /\ s \in serving \cup round.pend
             /\ queue'[s][n] = queue[s][n] \o <<requests>>
    <3>1. requests > 0 /\ UpTo(queue[s][n], requests - 1)
      BY <2>1 DEF SendOK
    <3>2. requests \in 0 .. MaxRequests
      BY DEF WorkInv, FailoverTypeOK
    <3>3. requests \in Messages
      BY <3>1, <3>2, FailoverAssumptions DEF Messages
    <3>4. QED
      BY <1>n, <1>t, <1>o, <2>1, <3>1, <3>3
  <2>2. QED
    BY <1>o, <2>1, OneIsRising, QueueSteps
<1>3. /\ Rising(visit'.refused) /\ Rising(visit'.unsent)
      /\ Below(visit'.refused, visit'.unsent)
  <2>1. CASE visit' = NoVisit
    BY <2>1, NoneIsRising DEF NoVisit
  <2>2. ASSUME NEW n \in Names, serving # {},
               visit' = [name |-> n, unsent |-> queue[Primary][n],
                         refused |-> <<>>]
        PROVE  /\ Rising(visit'.refused) /\ Rising(visit'.unsent)
               /\ Below(visit'.refused, visit'.unsent)
    <3>1. Primary \in Servers
      BY <2>2, PrimaryServes DEF WorkInv, FailoverTypeOK
    <3>2. /\ Rising(<<>>) /\ Rising(queue[Primary][n])
          /\ Below(<<>>, queue[Primary][n])
      BY <1>o, <3>1, NoneIsRising
    <3>3. QED
      BY <2>2, <3>2
  <2>3. CASE DeliverySend
    <3> DEFINE m == Head(visit.unsent)
               rest == Tail(visit.unsent)
    <3>1. /\ visit.unsent # <<>> /\ m \in MayBePhantom
          /\ visit'.unsent = rest
          /\ \/ visit'.refused = visit.refused
             \/ m \in Messages /\ visit'.refused = Append(visit.refused, m)
      BY <2>3, DeliverySteps
    <3>2. /\ Rising(rest)
          /\ \A k : InSeq(k, rest) /\ k # Phantom /\ m # Phantom => m < k
      BY <1>t, <1>o, <3>1, RisingTail
    <3>3. \A k : InSeq(k, visit.unsent) <=> k = m \/ InSeq(k, rest)
      BY <1>t, <3>1, InTail
    <3>4. \A j, k : InSeq(j, visit.refused) /\ InSeq(k, visit.unsent)
                        /\ j # Phantom /\ k # Phantom => j < k
      BY <1>o, BelowMembers
    <3>5. Below(visit.refused, rest)
      BY <3>3, <3>4, BelowMembers
    <3>6. ASSUME m \in Messages
          PROVE  /\ Rising(Append(visit.refused, m))
                 /\ Below(Append(visit.refused, m), rest)
      <4> HIDE DEF m, rest
      <4>1. m # Phantom /\ m \in MayBePhantom
        BY <3>6, Numbers
      <4>2. \A k : InSeq(k, visit.refused) /\ k # Phantom => k < m
        BY <3>3, <3>4, <4>1
      <4>r. visit.refused \in Seq(MayBePhantom)
        BY <1>t
      <4>3. Append(visit.refused, m) = visit.refused \o <<m>>
        BY ONLY <4>1, <4>r
      <4>4. ASSUME NEW k, InSeq(k, Append(visit.refused, m))
            PROVE  InSeq(k, visit.refused) \/ k = m
        <5>1. InSeq(k, Append(visit.refused, m))
                <=> InSeq(k, visit.refused) \/ k = m
          BY ONLY <4>1, <4>r, InAppend
        <5>2. QED
          BY <4>4, <5>1
      <4>5. Rising(Append(visit.refused, m))
        BY <1>t, <1>o, <3>6, <4>2, <4>3, RisingNext
      <4>6. \A j, k : InSeq(j, Append(visit.refused, m)) /\ InSeq(k, rest)
                        /\ j # Phantom /\ k # Phantom => j < k
        BY <3>2, <3>3, <3>4, <4>1, <4>4
      <4>7. QED
        BY <4>5, <4>6, BelowMembers
    <3>7. QED
      BY <1>o, <3>1, <3>2, <3>5, <3>6
  <2>4. QED
    BY <1>o, <2>1, <2>2, <2>3, VisitSteps
<1>4. QED
  BY <1>1, <1>2, <1>3 DEF OrderOK

LEMMA NextSend ==
    WorkInv /\ BatchOK /\ SendOK /\ NumbersOK /\ [Next]_vars => SendOK'
<1> SUFFICES ASSUME WorkInv, BatchOK, SendOK, NumbersOK, [Next]_vars,
                    round'.kind = "addmsg"
             PROVE  /\ visit' = NoVisit
                    /\ requests' > 0 /\ round'.msgs = <<requests'>>
                    /\ \A n \in Names : /\ UpTo(accepted'[n], requests' - 1)
                                        /\ UpTo(delivered'[n], requests' - 1)
                    /\ \A s \in serving' \cup round'.pend :
                          UpTo(queue'[s][round'.name], requests' - 1)
  BY DEF SendOK
<1> USE NoRoundTyped DEF leaders, tables, faults, histories, handlers, messages
<1>t. /\ requests \in Nat /\ serving \subseteq Servers
      /\ round.pend \subseteq Servers
  BY MailIsTyped DEF WorkInv, FailoverTypeOK, UpdateType
<1>1. ASSUME round.kind = "addmsg", UNCHANGED <<requests, accepted, delivered>>,
             visit' = visit,
             round'.msgs = round.msgs, round'.name = round.name,
             serving' \subseteq serving, round'.pend \subseteq round.pend
      PROVE  /\ visit' = NoVisit
             /\ requests' > 0 /\ round'.msgs = <<requests'>>
             /\ \A n \in Names : /\ UpTo(accepted'[n], requests' - 1)
                                 /\ UpTo(delivered'[n], requests' - 1)
             /\ \A s \in serving' \cup round'.pend :
                   UpTo(queue'[s][round'.name], requests' - 1)
  <2>1. round.name \in Names /\ round' # NoRound
    BY <1>1, RoundIsTyped
  <2>2. ASSUME NEW s \in serving' \cup round'.pend
        PROVE  UpTo(queue'[s][round'.name], requests' - 1)
    <3>1. s \in Servers /\ s \in serving \cup round.pend
      BY <1>1, <1>t
    <3>2. queue'[s][round.name] = queue[s][round.name]
      BY <1>1, <2>1, <2>2, <3>1, QueueSteps
    <3>3. QED
      BY <1>1, <3>1, <3>2 DEF SendOK
  <2>3. QED
    BY <1>1, <2>2 DEF SendOK
<1>2. ASSUME NEW s \in Servers, CrashServer(s) \/ BecomePrimary(s)
      PROVE  /\ round.kind = "addmsg"
             /\ UNCHANGED <<requests, accepted, delivered, visit, round>>
             /\ serving' \subseteq serving
  BY <1>2 DEF CrashServer, L!Crash, BecomePrimary, L!Serve, WorkInv, RoundOK
<1>3. ASSUME NEW c \in Clients, NEW n \in Names, BeginSend(c, n)
      PROVE  /\ visit' = NoVisit
             /\ requests' > 0 /\ round'.msgs = <<requests'>>
             /\ \A m \in Names : /\ UpTo(accepted'[m], requests' - 1)
                                 /\ UpTo(delivered'[m], requests' - 1)
             /\ \A s \in serving' \cup round'.pend :
                   UpTo(queue'[s][round'.name], requests' - 1)
  <2>1. /\ UNCHANGED <<accepted, delivered, queue, visit, serving>>
        /\ visit = NoVisit /\ requests' = requests + 1
        /\ round'.msgs = <<requests'>> /\ round'.name = n
        /\ round'.pend = live \ serving
    BY <1>3 DEF BeginSend, Begin, Update
  <2>2. requests' - 1 = requests /\ requests' > 0
    BY <1>t, <2>1
  <2>3. serving \cup (live \ serving) \subseteq Servers
    BY DEF WorkInv, FailoverTypeOK
  <2>4. QED
    BY <2>1, <2>2, <2>3 DEF NumbersOK
<1>4. ASSUME NEW r \in Servers, Replicate(r)
      PROVE  /\ round.kind = "addmsg"
             /\ UNCHANGED <<requests, accepted, delivered, visit, serving>>
             /\ round'.msgs = round.msgs /\ round'.name = round.name
             /\ round'.pend \subseteq round.pend
  BY <1>4 DEF Replicate, WorkInv, FailoverTypeOK, UpdateType
<1>5. ~ApplySend /\ ~DeliveryApply /\ ~DeliveryUpdate
  <2>1. round' # NoRound
    OBVIOUS
  <2>2. DeliveryUpdate => round'.kind = "setmsgs"
    BY DEF DeliveryUpdate, Update
  <2>3. QED
    BY <2>1, <2>2 DEF ApplySend, DeliveryApply, DeliveryEnds
<1>6. ASSUME NEW n \in Names
      PROVE  ~DeliveryVisit(n)
  BY DEF DeliveryVisit, AccountKinds
<1>7. ~DeliverySend
  BY DEF DeliverySend, SendOK, NoVisit
<1>8. Aside => /\ round.kind = "addmsg"
               /\ UNCHANGED <<requests, accepted, delivered, visit, round, serving>>
  BY DEF Aside, MailKinds
<1>9. QED
  BY <1>1, <1>2, <1>3, <1>4, <1>5, <1>6, <1>7, <1>8, StepsOnMail

-----------------------------------------------------------------------------
(* No message is lost.  What waits is in every queue; while it is being sent *)
(* the delivery thread has it.                                               *)

Queued ==
    \A s \in live, n \in Names : \A i \in Waiting(n) :
        InSeq(accepted[n][i], queue[s][n])

\* The replicas that a round has reached have its message, which is not
\* accepted yet.
ReachedHaveIt ==
    round.kind = "addmsg" =>
        \A s \in live : Reached(s) => InSeq(requests, queue[s][round.name])

BatchIsAll ==
    visit # NoVisit =>
        \A i \in Waiting(visit.name) :
            \/ InSeq(accepted[visit.name][i], visit.refused)
            \/ InSeq(accepted[visit.name][i], visit.unsent)

MailInv ==
    /\ WorkInv /\ NumbersOK /\ OrderOK /\ SendOK /\ BatchOK
    /\ closed = {} => Queued /\ ReachedHaveIt /\ BatchIsAll

LEMMA ClosedStays ==
    ASSUME [Next]_vars
    PROVE  closed \subseteq closed'
<1> USE DEF leaders, tables, faults, histories, handlers, messages
<1>1. ASSUME NEW c \in Clients, BeginRequest(c) \/ Continue(c) \/ Close(c)
      PROVE  closed' = closed
  BY <1>1 DEF BeginRequest, BeginCreate, BeginLogin, BeginLogoff, BeginSend,
              Continue, CreateLogin, DeleteRemove, Close
<1>2. ASSUME NEW s \in Servers, CrashServer(s) \/ BecomePrimary(s)
      PROVE  closed' = closed
  BY <1>2 DEF CrashServer, BecomePrimary
<1>3. ASSUME NEW s \in Servers, NEW c \in Clients, HangUp(s, c)
      PROVE  closed' = closed
  BY <1>3 DEF HangUp
<1>4. ASSUME NEW r \in Servers, Replicate(r)
      PROVE  closed \subseteq closed'
  BY <1>4 DEF Replicate, ProcessUpdateAccounts, ProcessUpdateLogin,
              ProcessUpdateMessages
<1>5. ApplyCreate \/ ApplyLogin \/ ApplyLogoff \/ ApplyRemove \/ ApplySend
          => closed' = closed
  BY DEF ApplyCreate, ApplyLogin, ApplyLogoff, ApplyRemove, ApplySend
<1>6. ASSUME NEW n \in Names, DeliveryVisit(n)
      PROVE  closed' = closed
  BY <1>6 DEF DeliveryVisit
<1>7. DeliverySend \/ DeliveryUpdate \/ DeliveryApply => closed' = closed
  BY DEF DeliverySend, DeliveryUpdate, DeliveryApply, DeliveryEnds
<1>8. UNCHANGED vars => closed' = closed
  BY DEF vars
<1>9. QED
  BY <1>1, <1>2, <1>3, <1>4, <1>5, <1>6, <1>7, <1>8 DEF Next, Round, Deliver

LEMMA MessageArrives ==
    ASSUME WorkInv, SendOK, closed = {}, round.kind = "addmsg",
           NEW s \in Servers, Replicate(s) \/ (ApplySend /\ s \in serving)
    PROVE  InSeq(requests, queue'[s][round.name])
<1>1. /\ round.msgs = <<requests>> /\ requests \in MayBePhantom
      /\ round.name \in Names /\ serving = {Primary}
  <2>1. round.name \in Names /\ serving = {Primary}
    BY RoundIsTyped
  <2>2. round.msgs = <<requests>> /\ requests \in MayBePhantom
    BY FailoverAssumptions
       DEF SendOK, WorkInv, FailoverTypeOK, MayBePhantom, Messages
  <2>3. QED
    BY <2>1, <2>2
<1>2. queue' = [queue EXCEPT ![s][round.name] =
                   queue[s][round.name] \o <<requests>>]
  <2>1. CASE Replicate(s)
    BY <1>1, <2>1
       DEF Replicate, ProcessUpdateAccounts, ProcessUpdateLogin,
           ProcessUpdateMessages
  <2>2. CASE ApplySend /\ s \in serving
    BY <1>1, <2>2 DEF ApplySend
  <2>3. QED
    BY <2>1, <2>2
<1>3. /\ queue \in [Servers -> [Names -> Seq(MayBePhantom)]]
      /\ <<requests>> \in Seq(MayBePhantom)
      /\ queue[s][round.name] \o <<requests>> \in Seq(MayBePhantom)
  BY <1>1, MailIsTyped
<1>4. queue'[s][round.name] = queue[s][round.name] \o <<requests>>
  BY <1>1, <1>2, <1>3, EntrySet
<1>5. InSeq(requests, <<requests>>)
  BY InOne
<1>6. queue[s][round.name] \in Seq(MayBePhantom)
  BY <1>1, <1>3
<1>7. QED
  BY <1>3, <1>4, <1>5, <1>6, InConcat

\* What waits after a step did before it, or has been accepted in this step.
LEMMA WaitingSteps ==
    ASSUME WorkInv, SendOK, [Next]_vars, NEW n \in Names, NEW i \in Waiting(n)'
    PROVE  /\ ~InSeq(accepted'[n][i], delivered'[n])
           /\ accepted'[n][i] \in Messages
           /\ \/ i \in Waiting(n) /\ accepted'[n][i] = accepted[n][i]
              \/ ApplySend /\ n = round.name /\ accepted'[n][i] = requests
<1>1. i \in DOMAIN accepted'[n] /\ ~InSeq(accepted'[n][i], delivered'[n])
  BY DEF Waiting
<1>t. /\ accepted[n] \in Seq(Messages) /\ delivered[n] \in Seq(Messages)
      /\ accepted'[n] \in Seq(Messages)
  BY NextWork, MailIsTyped DEF WorkInv, FailoverTypeOK
<1>2. accepted'[n][i] \in Messages
  BY <1>1, <1>t
<1>3. ASSUME NEW m, InSeq(m, delivered[n])
      PROVE  InSeq(m, delivered'[n])
  <2>1. CASE UNCHANGED delivered
    BY <1>3, <2>1
  <2>2. CASE DeliverySend
    <3> DEFINE k == Head(visit.unsent)
    <3>1. \/ delivered'[n] = delivered[n]
          \/ k \in Messages /\ delivered'[n] = Append(delivered[n], k)
      BY <2>2, DeliverySteps
    <3>2. k \in Messages => InSeq(m, Append(delivered[n], k))
      BY <1>3, <1>t, InAppend
    <3>3. QED
      BY <1>3, <3>1, <3>2
  <2>3. QED
    BY <2>1, <2>2, VisitSteps
<1>4. ASSUME accepted'[n] = accepted[n]
      PROVE  i \in Waiting(n) /\ accepted'[n][i] = accepted[n][i]
  BY <1>1, <1>3, <1>4 DEF Waiting
<1>5. ASSUME n = round.name, requests \in Messages,
             accepted'[n] = Append(accepted[n], requests)
      PROVE  \/ i \in Waiting(n) /\ accepted'[n][i] = accepted[n][i]
             \/ accepted'[n][i] = requests
  <2>1. /\ Len(accepted[n]) \in Nat
        /\ DOMAIN accepted'[n] = 1 .. Len(accepted[n]) + 1
        /\ DOMAIN accepted[n] = 1 .. Len(accepted[n])
        /\ accepted'[n][Len(accepted[n]) + 1] = requests
        /\ \A j \in 1 .. Len(accepted[n]) : accepted'[n][j] = accepted[n][j]
    BY <1>5, <1>t
  <2>2. CASE i = Len(accepted[n]) + 1
    BY <2>1, <2>2
  <2>3. CASE i \in DOMAIN accepted[n]
    BY <1>1, <1>3, <2>1, <2>3 DEF Waiting
  <2>4. QED
    BY <1>1, <2>1, <2>2, <2>3
<1>6. QED
  BY <1>1, <1>2, <1>4, <1>5, AcceptedSteps

LEMMA NextQueued ==
    ASSUME MailInv, [Next]_vars, closed = {}
    PROVE  Queued'
<1>w. /\ WorkInv /\ WorkInv' /\ NumbersOK /\ OrderOK /\ SendOK /\ BatchOK
      /\ Queued /\ ReachedHaveIt /\ BatchIsAll
  BY NextWork DEF MailInv
<1>1. SUFFICES ASSUME NEW s \in live', NEW n \in Names, NEW i \in Waiting(n)'
               PROVE  InSeq(accepted'[n][i], queue'[s][n])
  BY DEF Queued
<1> DEFINE m == accepted'[n][i]
<1>2. s \in Servers /\ s \in live
  <2>1. live' \subseteq live
    BY <1>w, ServerSteps DEF CrashServer, L!Crash, BecomePrimary, L!Serve
  <2>2. QED
    BY <1>w, <2>1 DEF WorkInv, FailoverTypeOK
<1>t. /\ queue[s][n] \in Seq(MayBePhantom) /\ m \in Messages
      /\ requests \in Nat
  BY <1>w, <1>2, MailIsTyped, WaitingSteps
<1> HIDE DEF m
<1>3. ASSUME InSeq(m, queue[s][n])
      PROVE  \/ InSeq(m, queue'[s][n])
             \/ /\ round.kind = "setmsgs" /\ n = visit.name
                /\ \/ queue'[s][n] = visit.refused
                   \/ visit.refused = <<>>
  <2>1. CASE round.kind = "addmsg" /\ queue'[s][n] = queue[s][n] \o <<requests>>
    <3>1. requests \in MayBePhantom
      BY <1>w, <2>1, FailoverAssumptions
         DEF SendOK, WorkInv, FailoverTypeOK, MayBePhantom, Messages
    <3>2. <<requests>> \in Seq(MayBePhantom)
      BY <3>1
    <3>3. QED
      BY <1>3, <1>t, <2>1, <3>2, InConcat
  <2>2. QED
    BY <1>2, <1>3, <1>w, <2>1, QueueSteps
<1>4. ASSUME i \in Waiting(n), m = accepted[n][i]
      PROVE  InSeq(m, queue'[s][n])
  <2>1. InSeq(m, queue[s][n])
    BY <1>2, <1>4, <1>w DEF Queued
  <2>2. CASE round.kind = "setmsgs" /\ n = visit.name
    <3>1. visit # NoVisit /\ visit.unsent = <<>>
      BY <1>w, <2>2 DEF BatchOK
    <3>2. InSeq(m, visit.refused)
      BY <1>4, <1>w, <2>2, <3>1, InNone DEF BatchIsAll
    <3>3. visit.refused # <<>>
      BY <3>2, InNone
    <3>4. QED
      BY <1>3, <2>1, <3>2, <3>3
  <2>3. QED
    BY <1>3, <2>1, <2>2
<1>5. ASSUME ApplySend, n = round.name, m = requests
      PROVE  InSeq(m, queue'[s][n])
  <2>1. round.kind = "addmsg" /\ round.pend \cap live = {}
    BY <1>5 DEF ApplySend, Acknowledged
  <2>2. CASE s \in serving
    BY <1>2, <1>5, <1>w, <2>1, <2>2, MessageArrives
  <2>3. CASE s \notin serving
    <3>1. InSeq(m, queue[s][n])
      BY <1>2, <1>5, <1>w, <2>1, <2>3 DEF ReachedHaveIt, Reached
    <3>2. QED
      BY <1>3, <2>1, <3>1
  <2>4. QED
    BY <2>2, <2>3
<1>6. QED
  BY <1>4, <1>5, <1>w, WaitingSteps DEF m

LEMMA NextReached ==
    ASSUME MailInv, [Next]_vars, closed = {}
    PROVE  ReachedHaveIt'
<1>w. /\ WorkInv /\ WorkInv' /\ NumbersOK /\ OrderOK /\ SendOK /\ BatchOK
      /\ Queued /\ ReachedHaveIt /\ BatchIsAll
  BY NextWork DEF MailInv
<1>1. SUFFICES ASSUME round'.kind = "addmsg", NEW s \in live', Reached(s)'
               PROVE  InSeq(requests', queue'[s][round'.name])
  BY DEF ReachedHaveIt
<1> USE NoRoundTyped DEF leaders, tables, handlers, messages
<1>k. s \notin serving' /\ s \notin round'.pend
  BY <1>1 DEF Reached
<1>2. ASSUME round.kind = "addmsg", round'.name = round.name,
             requests' = requests, s \in live, Reached(s)
      PROVE  InSeq(requests', queue'[s][round'.name])
  <2>1. s \in Servers /\ round.name \in Names /\ round' # NoRound
    BY <1>1, <1>2, <1>w, RoundIsTyped DEF WorkInv, FailoverTypeOK
  <2>2. queue'[s][round.name] = queue[s][round.name]
    BY <1>2, <1>w, <2>1, QueueSteps DEF Reached
  <2>3. QED
    BY <1>2, <1>w, <2>2 DEF ReachedHaveIt
<1>3. ASSUME NEW r \in Servers, CrashServer(r) \/ BecomePrimary(r)
      PROVE  InSeq(requests', queue'[s][round'.name])
  <2>1. /\ round.kind = "addmsg" /\ round' = round /\ requests' = requests
        /\ s \in live /\ s \notin serving
    BY <1>1, <1>3, <1>k, <1>w
       DEF CrashServer, L!Crash, BecomePrimary, L!Serve, WorkInv, RoundOK
  <2>2. QED
    BY <1>2, <1>k, <2>1 DEF Reached
<1>4. ASSUME NEW c \in Clients, NEW n \in Names, BeginSend(c, n)
      PROVE  FALSE
  BY <1>1, <1>4, <1>k DEF BeginSend, Update
<1>5. ASSUME NEW r \in Servers, Replicate(r)
      PROVE  InSeq(requests', queue'[s][round'.name])
  <2>1. /\ round'.kind = round.kind /\ round'.name = round.name
        /\ round'.pend = round.pend \ {r} /\ requests' = requests
        /\ live' = live /\ serving' = serving
    BY <1>5, <1>w DEF Replicate, WorkInv, FailoverTypeOK, UpdateType
  <2>2. CASE s = r
    BY <1>1, <1>5, <1>w, <2>1, <2>2, MessageArrives DEF MailInv
  <2>3. CASE s # r
    BY <1>1, <1>2, <1>k, <2>1, <2>3 DEF Reached
  <2>4. QED
    BY <2>2, <2>3
<1>6. ~ApplySend /\ ~DeliveryApply /\ ~DeliveryUpdate
  <2>1. round' # NoRound
    BY <1>1
  <2>2. DeliveryUpdate => round'.kind = "setmsgs"
    BY DEF DeliveryUpdate, Update
  <2>3. QED
    BY <1>1, <2>1, <2>2 DEF ApplySend, DeliveryApply, DeliveryEnds
<1>7. ASSUME NEW n \in Names
      PROVE  ~DeliveryVisit(n)
  BY <1>1 DEF DeliveryVisit, AccountKinds
<1>8. ~DeliverySend
  BY <1>1, <1>w DEF DeliverySend, SendOK, NoVisit
<1>9. CASE Aside
  BY <1>1, <1>2, <1>9, <1>k DEF Aside, MailKinds, Reached
<1>10. QED
  BY <1>3, <1>4, <1>5, <1>6, <1>7, <1>8, <1>9, <1>w, StepsOnMail

LEMMA NextBatchIsAll ==
    ASSUME MailInv, [Next]_vars, closed = {}
    PROVE  BatchIsAll'
<1>w. /\ WorkInv /\ WorkInv' /\ NumbersOK /\ OrderOK /\ SendOK /\ BatchOK
      /\ Queued /\ ReachedHaveIt /\ BatchIsAll
  BY NextWork DEF MailInv
<1>1. SUFFICES ASSUME visit' # NoVisit, NEW n, n = visit'.name,
                      NEW i \in Waiting(n)'
               PROVE  \/ InSeq(accepted'[n][i], visit'.refused)
                      \/ InSeq(accepted'[n][i], visit'.unsent)
  BY DEF BatchIsAll, Waiting
<1> DEFINE m == accepted'[n][i]
<1>2. n \in Names
  BY <1>1, <1>w DEF WorkInv, VisitOK
<1>3. i \in Waiting(n)' /\ i \in Waiting(n) /\ m = accepted[n][i] /\ m \in Messages
  <2>1. i \in Waiting(n)'
    BY <1>1
  <2>2. ~ApplySend
    BY <1>1, <1>w DEF ApplySend, Acknowledged, SendOK
  <2>3. QED
    BY <1>2, <1>w, <2>1, <2>2, WaitingSteps
<1>4. ~InSeq(m, delivered'[n])
  BY <1>2, <1>3, <1>w, WaitingSteps
<1> HIDE DEF m
<1>5. ASSUME UNCHANGED visit
      PROVE  InSeq(m, visit'.refused) \/ InSeq(m, visit'.unsent)
  BY <1>1, <1>3, <1>5, <1>w DEF BatchIsAll
<1>6. ASSUME serving # {},
             visit' = [name |-> n, unsent |-> queue[Primary][n], refused |-> <<>>]
      PROVE  InSeq(m, visit'.unsent)
  <2>1. Primary \in live
    BY <1>6, <1>w, PrimaryServes DEF WorkInv
  <2>2. QED
    BY <1>2, <1>3, <1>6, <1>w, <2>1 DEF Queued
<1>7. ASSUME DeliverySend
      PROVE  InSeq(m, visit'.refused) \/ InSeq(m, visit'.unsent)
  <2> DEFINE k == Head(visit.unsent)
  <2>1. /\ visit # NoVisit /\ n = visit.name /\ visit.unsent # <<>>
        /\ k \in MayBePhantom /\ visit'.unsent = Tail(visit.unsent)
        /\ \/ k = Phantom /\ visit'.refused = visit.refused
           \/ /\ k \in Messages
              /\ delivered'[n] = Append(delivered[n], k)
              /\ visit'.refused = visit.refused
           \/ k \in Messages /\ visit'.refused = Append(visit.refused, k)
    BY <1>1, <1>7, <1>w, DeliverySteps
  <2> HIDE DEF k
  <2>t. /\ visit.refused \in Seq(Messages) /\ visit.unsent \in Seq(MayBePhantom)
        /\ delivered[n] \in Seq(Messages)
    BY <1>2, <1>w, MailIsTyped
  <2>2. InSeq(m, visit.refused) \/ InSeq(m, visit.unsent)
    BY <1>3, <1>w, <2>1 DEF BatchIsAll
  <2>3. CASE InSeq(m, visit.refused)
    <3>1. k \in Messages => InSeq(m, Append(visit.refused, k))
      BY <2>3, <2>t, InAppend
    <3>2. QED
      BY <2>1, <2>3, <3>1
  <2>4. CASE InSeq(m, visit.unsent)
    <3>1. m = k \/ InSeq(m, Tail(visit.unsent))
      BY <2>1, <2>4, <2>t, InTail DEF k
    <3>2. CASE m = k
      <4>1. k # Phantom
        BY <1>3, <3>2, Numbers
      <4>2. k \in Messages => /\ InSeq(m, Append(visit.refused, k))
                              /\ InSeq(m, Append(delivered[n], k))
        BY <2>t, <3>2, InAppend
      <4>3. QED
        BY <1>4, <2>1, <4>1, <4>2
    <3>3. QED
      BY <2>1, <3>1, <3>2
  <2>5. QED
    BY <2>2, <2>3, <2>4
<1>8. QED
  BY <1>1, <1>2, <1>5, <1>6, <1>7, <1>w, VisitSteps DEF m

LEMMA InitMail == Init => MailInv
<1> SUFFICES ASSUME Init
             PROVE  MailInv
  OBVIOUS
<1>1. /\ \A n \in Names : accepted[n] = <<>> /\ delivered[n] = <<>>
      /\ \A s \in Servers, n \in Names : queue[s][n] = <<>>
      /\ visit = NoVisit /\ visit.refused = <<>> /\ visit.unsent = <<>>
      /\ round.kind = "none"
  BY NoRoundTyped DEF Init, NoVisit
<1>2. NumbersOK /\ OrderOK
  BY <1>1, NoneIsRising DEF NumbersOK, OrderOK
<1>3. SendOK /\ BatchOK /\ ReachedHaveIt /\ BatchIsAll
  BY <1>1 DEF SendOK, BatchOK, ReachedHaveIt, BatchIsAll
<1>4. Queued
  BY <1>1 DEF Queued, Waiting
<1>5. QED
  BY <1>2, <1>3, <1>4, InitWork DEF MailInv

LEMMA NextMail == MailInv /\ [Next]_vars => MailInv'
<1> SUFFICES ASSUME MailInv, [Next]_vars
             PROVE  MailInv'
  OBVIOUS
<1>1. WorkInv' /\ NumbersOK' /\ OrderOK' /\ SendOK' /\ BatchOK'
  BY NextWork, NextNumbers, NextOrder, NextSend, NextBatch DEF MailInv
<1>2. closed' = {} => closed = {}
  BY ClosedStays
<1>3. QED
  BY <1>1, <1>2, NextQueued, NextReached, NextBatchIsAll DEF MailInv

LEMMA MailInvariance == Spec => []MailInv
BY InitMail, NextMail, PTL DEF Spec

\* No accepted message is lost, doubled or reordered on any server that is left,
\* whenever servers crash, as long as no replica has closed its connection to a
\* primary: process_update_messages, atomicUpdateMessages and the delivery
\* thread keep the lists of all servers in the order of acceptance.
THEOREM MessagesOutliveCrashes == Spec => []AcceptedIsKept
<1>1. MailInv => AcceptedIsKept
  <2> SUFFICES ASSUME MailInv, closed = {}, NEW s \in live, NEW n \in Names
               PROVE  \E place \in [Waiting(n) -> DOMAIN queue[s][n]] :
                         \A i, j \in Waiting(n) :
                            /\ \A k \in DOMAIN queue[s][n] :
                                  queue[s][n][k] = accepted[n][i]
                                     <=> k = place[i]
                            /\ i < j => place[i] < place[j]
    BY DEF AcceptedIsKept
  <2> DEFINE Q == queue[s][n]
             A == accepted[n]
             place == [i \in Waiting(n) |-> CHOOSE k \in DOMAIN Q : Q[k] = A[i]]
  <2>t. /\ Q \in Seq(MayBePhantom) /\ A \in Seq(Messages)
        /\ A \in Seq(MayBePhantom) /\ Rising(Q) /\ Rising(A)
    BY SMTT(30), MailIsTyped DEF MailInv, OrderOK, WorkInv, FailoverTypeOK
  <2>d. DOMAIN Q = 1 .. Len(Q) /\ DOMAIN A = 1 .. Len(A)
    BY <2>t
  <2>a. \A i \in Waiting(n) : InSeq(A[i], Q)
    BY DEF MailInv, Queued
  <2>b. \A i \in Waiting(n) : i \in 1 .. Len(A)
    BY <2>d DEF Waiting
  <2> HIDE DEF Q, A
  <2>c. \A i \in Waiting(n) : A[i] \in Messages /\ A[i] # Phantom
    <3>1. \A i \in Waiting(n) : A[i] \in Messages
      BY <2>b, <2>t
    <3>2. QED
      BY <3>1, Numbers
  <2>1. \A i \in Waiting(n) : place[i] \in 1 .. Len(Q) /\ Q[place[i]] = A[i]
    <3> SUFFICES ASSUME NEW i \in Waiting(n)
                 PROVE  place[i] \in 1 .. Len(Q) /\ Q[place[i]] = A[i]
      OBVIOUS
    <3>1. \E k \in DOMAIN Q : Q[k] = A[i]
      BY <2>a, <2>d DEF InSeq
    <3>2. QED
      BY <3>1, <2>d
  <2>2. place \in [Waiting(n) -> DOMAIN Q]
    BY <2>1, <2>d
  <2> HIDE DEF place
  <2>3. ASSUME NEW i \in Waiting(n), NEW k \in 1 .. Len(Q)
        PROVE  Q[k] = A[i] <=> k = place[i]
    BY <2>1, <2>c, <2>t, OnePlace
  <2>4. ASSUME NEW i \in Waiting(n), NEW j \in Waiting(n), i < j
        PROVE  place[i] < place[j]
    <3>1. A[i] < A[j]
      BY <2>4, <2>b, <2>c, <2>t, OnePlace
    <3>2. QED
      BY <3>1, <2>1, <2>c, <2>t, OnePlace
  <2>5. QED
    BY <2>2, <2>3, <2>4, <2>d DEF Q, A
<1>2. QED
  BY <1>1, MailInvariance, PTL

\* A message is handed over in its turn: it is the first of those that wait.
LEMMA HandsOverTheFirst ==
    ASSUME MailInv, closed = {}, NEW n \in Names, n = visit.name,
           visit # NoVisit, visit.unsent # <<>>, visit.refused = <<>>,
           NEW first \in Waiting(n), accepted[n][first] = Head(visit.unsent)
    PROVE  /\ \A i \in Waiting(n) : first <= i
           /\ \A i \in Waiting(n) \ {first} :
                 accepted[n][i] # accepted[n][first]
<1>w. WorkInv /\ OrderOK /\ BatchIsAll
  BY DEF MailInv
<1> DEFINE A == accepted[n]
           m == Head(visit.unsent)
<1>t. /\ A \in Seq(MayBePhantom) /\ A \in Seq(Messages) /\ Rising(A)
      /\ visit.unsent \in Seq(MayBePhantom) /\ Rising(visit.unsent)
      /\ Messages \subseteq Nat
  BY <1>w, MailIsTyped, Numbers DEF OrderOK
<1>1. \A i \in Waiting(n) :
         /\ i \in 1 .. Len(A) /\ A[i] \in Messages /\ A[i] # Phantom
         /\ InSeq(A[i], visit.unsent)
  <2> SUFFICES ASSUME NEW i \in Waiting(n)
               PROVE  /\ i \in 1 .. Len(A) /\ A[i] \in Messages /\ A[i] # Phantom
                      /\ InSeq(A[i], visit.unsent)
    OBVIOUS
  <2>1. i \in 1 .. Len(A)
    BY <1>t DEF Waiting
  <2>2. A[i] \in Messages
    BY <1>t, <2>1
  <2>3. A[i] # Phantom
    BY <2>2, Numbers
  <2>4. InSeq(A[i], visit.unsent)
    BY <1>w, InNone DEF BatchIsAll
  <2>5. QED
    BY <2>1, <2>2, <2>3, <2>4
<1>2. \A k : InSeq(k, visit.unsent) /\ k # Phantom => k = m \/ m < k
  <2>1. m # Phantom
    BY <1>1
  <2>2. QED
    BY <1>t, <2>1, InTail, RisingTail
<1> HIDE DEF m, A
<1>3. ASSUME NEW i \in Waiting(n)
      PROVE  first <= i /\ (i # first => A[i] # A[first])
  <2>1. A[first] = m
    BY DEF m, A
  <2>2. A[i] = A[first] \/ A[first] < A[i]
    BY <1>1, <1>2, <1>3, <2>1
  <2>3. /\ A[i] = A[first] => i = first
        /\ A[first] < A[i] <=> first < i
    BY <1>1, <1>3, <1>t, OnePlace
  <2>4. first \in Nat /\ i \in Nat
    BY <1>1, <1>3
  <2>5. QED
    BY <2>2, <2>3, <2>4
<1>4. QED
  BY <1>3 DEF A

\* A message that is handed over does not wait any more; the others do.
LEMMA HandOverSteps ==
    ASSUME MailInv, DeliverySend, closed = {},
           NEW v, v = visit.name, NEW m, m = Head(visit.unsent)
    PROVE  \/ \A n \in Names : Waiting(n)' = Waiting(n)
           \/ Mail!HandOver(v)
<1>w. WorkInv /\ SendOK /\ BatchOK
  BY DEF MailInv
<1>1. /\ visit # NoVisit /\ v \in Names /\ visit.unsent # <<>>
      /\ serving = {Primary} /\ UNCHANGED <<accepted, closed>>
      /\ \A n \in Names \ {v} : delivered'[n] = delivered[n]
      /\ \/ UNCHANGED delivered
         \/ /\ m \in Messages
            /\ \A s \in serving : sessions[s][v] \in gone => visit.refused = <<>>
            /\ delivered'[v] = Append(delivered[v], m)
  BY <1>w, DeliverySteps
<1>2. \A n \in Names \ {v} : Waiting(n)' = Waiting(n)
  BY <1>1 DEF Waiting
<1>3. CASE UNCHANGED delivered
  BY <1>1, <1>3 DEF Waiting
<1>4. ASSUME m \in Messages, delivered'[v] = Append(delivered[v], m),
             \A s \in serving : sessions[s][v] \in gone => visit.refused = <<>>
      PROVE  \/ \A n \in Names : Waiting(n)' = Waiting(n)
             \/ Mail!HandOver(v)
  <2>1. visit.refused = <<>>
    BY <1>1, <1>4, <1>w DEF BatchOK
  <2>2. delivered[v] \in Seq(Messages)
    BY <1>1, <1>w, MailIsTyped
  <2>3. \A k : InSeq(k, delivered'[v]) <=> InSeq(k, delivered[v]) \/ k = m
    <3>1. \A k : InSeq(k, Append(delivered[v], m))
                    <=> InSeq(k, delivered[v]) \/ k = m
      <4>1. \A q \in Seq(Messages), j \in Messages : \A k :
               InSeq(k, Append(q, j)) <=> InSeq(k, q) \/ k = j
        BY InAppend
      <4>2. QED
        BY <1>4, <2>2, <4>1
    <3>2. QED
      BY <1>4, <3>1
  <2>4. Waiting(v)' = {i \in Waiting(v) : accepted[v][i] # m}
    <3>1. accepted' = accepted
      BY <1>1
    <3>2. QED
      BY <2>3, <3>1 DEF Waiting
  <2>5. CASE \A i \in Waiting(v) : accepted[v][i] # m
    <3>1. Waiting(v)' = Waiting(v)
      BY <2>4, <2>5
    <3>2. QED
      BY <1>2, <3>1
  <2>6. ASSUME NEW first \in Waiting(v), accepted[v][first] = m
        PROVE  Mail!HandOver(v)
    <3>1. /\ \A i \in Waiting(v) : first <= i
          /\ \A i \in Waiting(v) \ {first} : accepted[v][i] # m
      BY <1>1, <2>1, <2>6, HandsOverTheFirst
    <3>2. Waiting(v)' = Waiting(v) \ {first}
      BY <2>4, <2>6, <3>1
    <3>3. [n \in Names |-> Waiting(n)']
             = [[n \in Names |-> Waiting(n)] EXCEPT ![v] = Waiting(v) \ {first}]
      BY <1>1, <1>2, <3>2
    <3>4. QED
      BY <1>1, <2>6, <3>1, <3>3 DEF Mail!HandOver
  <2>7. QED
    BY <2>5, <2>6
<1>5. QED
  BY <1>1, <1>3, <1>4

\* The service is a mailbox for each account, through any number of crashes:
\* what is accepted waits, and what waits is handed over in its turn.
THEOREM ServiceIsAMailbox == Spec => KeepsMail
<1>1. Init => Mail!Init
  BY DEF Init, Mail!Init, Waiting
<1>2. MailInv /\ [Next]_vars
         => [Mail!Next]_<<accepted, [n \in Names |-> Waiting(n)], closed = {}>>
  <2> SUFFICES ASSUME MailInv, [Next]_vars
               PROVE  \/ Mail!Next
                      \/ /\ UNCHANGED <<accepted, closed>>
                         /\ \A n \in Names : Waiting(n)' = Waiting(n)
    OBVIOUS
  <2>w. WorkInv /\ SendOK /\ BatchOK
    BY DEF MailInv
  <2>1. CASE closed' # {}
    BY <2>1 DEF Mail!Next, Mail!Lapse
  <2>2. CASE closed' = {} /\ DeliverySend
    <3>1. closed = {} /\ UNCHANGED <<accepted, closed>> /\ visit.name \in Names
      BY <2>2, <2>w, DeliverySteps
    <3>2. QED
      BY <2>2, <3>1, HandOverSteps DEF Mail!Next
  <2>3. CASE closed' = {} /\ ~DeliverySend
    <3>1. closed = {} /\ UNCHANGED <<closed, delivered>>
      BY <2>3, <2>w, ClosedStays, VisitSteps
    <3>2. CASE UNCHANGED accepted
      BY <3>1, <3>2 DEF Waiting
    <3>3. ASSUME NEW r \in Names, requests \in Messages, round.kind = "addmsg",
                 accepted'[r] = Append(accepted[r], requests),
                 \A n \in Names \ {r} : accepted'[n] = accepted[n]
          PROVE  Mail!Accept(r, requests)
      <4> DEFINE A == accepted[r]
                 last == Len(A) + 1
      <4>t. /\ A \in Seq(Messages) /\ delivered[r] \in Seq(Messages)
            /\ accepted \in [Names -> Seq(Messages)]
            /\ accepted' \in [Names -> Seq(Messages)]
            /\ Messages \subseteq Nat
        BY <2>w, MailIsTyped, NextWork, Numbers DEF WorkInv, FailoverTypeOK
      <4>1. /\ DOMAIN accepted'[r] = 1 .. last /\ accepted'[r][last] = requests
            /\ DOMAIN A = 1 .. Len(A) /\ Len(A) \in Nat
            /\ \A i \in 1 .. Len(A) : accepted'[r][i] = A[i]
        BY <3>3, <4>t
      <4>2. ~InSeq(requests, delivered[r])
        <5>1. \A k : InSeq(k, delivered[r]) => k <= requests - 1
          BY <2>w, <3>3, UpToMembers DEF SendOK
        <5>2. requests \in Nat /\ ~(requests <= requests - 1)
          BY <3>3, <4>t
        <5>3. QED
          BY <5>1, <5>2
      <4>3. Waiting(r)' = Waiting(r) \cup {last}
        BY <3>1, <4>1, <4>2 DEF Waiting
      <4>4. \A n \in Names \ {r} : Waiting(n)' = Waiting(n)
        BY <3>1, <3>3 DEF Waiting
      <4>5. [n \in Names |-> Waiting(n)']
               = [[n \in Names |-> Waiting(n)]
                     EXCEPT ![r] = Waiting(r) \cup {last}]
        BY <4>3, <4>4
      <4>6. accepted' = [accepted EXCEPT ![r] = Append(A, requests)]
        BY <3>3, <4>t
      <4>7. QED
        BY <3>1, <4>5, <4>6 DEF Mail!Accept
    <3>4. QED
      BY <2>w, <3>1, <3>2, <3>3, AcceptedSteps DEF Mail!Next
  <2>4. QED
    BY <2>1, <2>2, <2>3
<1>3. QED
  BY <1>1, <1>2, MailInvariance, PTL DEF Spec, KeepsMail, Mail!Spec

-----------------------------------------------------------------------------
(* A message is handed over again only after a crash: each primary hands     *)
(* over once what its queue holds.                                           *)

Crashes == Cardinality(Servers \ live)

HandedOver(m, n) == Occurrences(m, delivered[n])

NoneServing ==
    serving = {} =>
        \A n \in Names, m \in Messages : HandedOver(m, n) <= Crashes

QueuedOnce ==
    \A s \in serving, n \in Names, m \in Messages :
        visit.name # n /\ InSeq(m, queue[s][n]) => HandedOver(m, n) <= Crashes

VisitedOnce ==
    visit # NoVisit =>
        \A m \in Messages :
            InSeq(m, visit.refused) \/ InSeq(m, visit.unsent) =>
                HandedOver(m, visit.name) <= Crashes

RedeliveryInv ==
    /\ MailInv
    /\ IsFiniteSet(Servers \ live)
    /\ RedeliveryNeedsACrash
    /\ NoneServing /\ QueuedOnce /\ VisitedOnce

LEMMA CrashesGrow ==
    ASSUME WorkInv, IsFiniteSet(Servers \ live), [Next]_vars
    PROVE  /\ IsFiniteSet(Servers \ live)' /\ Crashes \in Nat /\ Crashes' \in Nat
           /\ Crashes <= Crashes'
           /\ \A s \in Servers : CrashServer(s) => Crashes' = Crashes + 1
<1>1. Crashes \in Nat
  BY FS_CardinalityType DEF Crashes
<1>2. ASSUME NEW s \in Servers, CrashServer(s)
      PROVE  IsFiniteSet(Servers \ live)' /\ Crashes' = Crashes + 1
  <2>1. Servers \ live' = (Servers \ live) \cup {s} /\ s \notin Servers \ live
    BY <1>2 DEF CrashServer, L!Crash, WorkInv, FailoverTypeOK
  <2>2. QED
    BY <2>1, FS_AddElement DEF Crashes
<1>3. ASSUME live' = live
      PROVE  IsFiniteSet(Servers \ live)' /\ Crashes' = Crashes
  BY <1>3 DEF Crashes
<1>4. ASSUME NEW s \in Servers, BecomePrimary(s)
      PROVE  live' = live
  BY <1>4 DEF BecomePrimary, L!Serve
<1>5. QED
  BY <1>1, <1>2, <1>3, <1>4, ServerSteps

LEMMA HandedOverSteps ==
    ASSUME WorkInv, [Next]_vars, NEW n \in Names, NEW m \in Messages
    PROVE  /\ HandedOver(m, n) \in Nat /\ HandedOver(m, n)' \in Nat
           /\ \/ HandedOver(m, n)' = HandedOver(m, n)
              \/ /\ DeliverySend /\ n = visit.name /\ m = Head(visit.unsent)
                 /\ HandedOver(m, n)' = HandedOver(m, n) + 1
                 /\ delivered'[n] = Append(delivered[n], m)
<1>t. /\ delivered[n] \in Seq(Messages) /\ delivered'[n] \in Seq(Messages)
  BY NextWork, MailIsTyped DEF WorkInv, FailoverTypeOK
<1>1. /\ \A q \in Seq(Messages), k \in Messages :
            /\ Occurrences(m, q) \in Nat
            /\ Occurrences(m, Append(q, k)) =
                  IF k = m THEN Occurrences(m, q) + 1 ELSE Occurrences(m, q)
  BY OccurrencesAppended
<1>2. HandedOver(m, n) \in Nat /\ HandedOver(m, n)' \in Nat
  BY <1>1, <1>t DEF HandedOver
<1>3. CASE delivered'[n] = delivered[n]
  BY <1>2, <1>3 DEF HandedOver
<1>4. CASE DeliverySend
  <2>1. \/ delivered'[n] = delivered[n]
        \/ /\ n = visit.name /\ Head(visit.unsent) \in Messages
           /\ delivered'[n] = Append(delivered[n], Head(visit.unsent))
    BY <1>4, DeliverySteps
  <2>2. ASSUME n = visit.name, NEW k \in Messages, k = Head(visit.unsent),
               delivered'[n] = Append(delivered[n], k)
        PROVE  \/ HandedOver(m, n)' = HandedOver(m, n)
               \/ /\ DeliverySend /\ n = visit.name /\ m = Head(visit.unsent)
                  /\ HandedOver(m, n)' = HandedOver(m, n) + 1
                  /\ delivered'[n] = Append(delivered[n], m)
    BY <1>1, <1>4, <1>t, <2>2 DEF HandedOver
  <2>3. QED
    BY <1>2, <1>3, <2>1, <2>2
<1>5. QED
  BY <1>2, <1>3, <1>4, VisitSteps

LEMMA NextRedelivery ==
    ASSUME RedeliveryInv, [Next]_vars
    PROVE  RedeliveryNeedsACrash' /\ NoneServing'
<1>w. /\ WorkInv /\ IsFiniteSet(Servers \ live) /\ RedeliveryNeedsACrash
      /\ NoneServing /\ VisitedOnce
  BY DEF RedeliveryInv, MailInv
<1>c. /\ Crashes \in Nat /\ Crashes' \in Nat /\ Crashes <= Crashes'
      /\ \A s \in Servers : CrashServer(s) => Crashes' = Crashes + 1
  BY <1>w, CrashesGrow
<1>1. \A n \in Names, m \in Messages : HandedOver(m, n) <= 1 + Crashes
  BY <1>w DEF RedeliveryNeedsACrash, HandedOver, Crashes
<1>2. ASSUME NEW n \in Names, NEW m \in Messages
      PROVE  HandedOver(m, n)' <= 1 + Crashes'
  <2>1. CASE HandedOver(m, n)' = HandedOver(m, n)
    BY <1>1, <1>c, <1>w, <2>1, HandedOverSteps
  <2>2. CASE /\ DeliverySend /\ n = visit.name /\ m = Head(visit.unsent)
             /\ HandedOver(m, n)' = HandedOver(m, n) + 1
    <3>1. visit # NoVisit /\ visit.unsent # <<>> /\ visit.unsent \in Seq(MayBePhantom)
      BY <1>w, <2>2, DeliverySteps, MailIsTyped
    <3>2. InSeq(m, visit.unsent)
      BY <2>2, <3>1, InTail
    <3>3. HandedOver(m, n) <= Crashes
      BY <1>w, <2>2, <3>1, <3>2 DEF VisitedOnce
    <3>4. QED
      BY <1>c, <1>w, <2>2, <3>3, HandedOverSteps
  <2>3. QED
    BY <1>w, <2>1, <2>2, HandedOverSteps
<1>3. RedeliveryNeedsACrash'
  BY <1>2 DEF RedeliveryNeedsACrash, HandedOver, Crashes
<1>4. ASSUME serving' = {}, NEW n \in Names, NEW m \in Messages
      PROVE  HandedOver(m, n)' <= Crashes'
  <2>1. ~DeliverySend
    BY <1>4, <1>w, DeliverySteps
  <2>2. HandedOver(m, n)' = HandedOver(m, n) /\ HandedOver(m, n) \in Nat
    BY <1>w, <2>1, HandedOverSteps
  <2>3. ASSUME NEW s \in Servers, CrashServer(s)
        PROVE  HandedOver(m, n)' <= Crashes'
    BY <1>1, <1>c, <2>2, <2>3
  <2>4. ASSUME NEW s \in Servers, BecomePrimary(s)
        PROVE  FALSE
    BY <1>4, <2>4 DEF BecomePrimary, L!Serve
  <2>5. CASE serving = {}
    BY <1>c, <1>w, <2>2, <2>5 DEF NoneServing
  <2>6. QED
    BY <1>4, <1>w, <2>3, <2>4, <2>5, ServerSteps
<1>5. QED
  BY <1>3, <1>4 DEF NoneServing

LEMMA VisitEnds ==
    ASSUME WorkInv, BatchOK, [Next]_vars, visit # NoVisit, visit' = NoVisit
    PROVE  \/ serving' = {}
           \/ /\ serving' = serving
              /\ \A s \in serving : queue'[s][visit.name] = visit.refused
<1>1. ASSUME NEW s \in Servers, CrashServer(s)
      PROVE  serving' = {}
  <2>1. s \in serving /\ serving' = serving \ {s}
    BY <1>1 DEF CrashServer, L!Crash
  <2>2. QED
    BY <2>1 DEF WorkInv, OneServes
<1>2. ASSUME NEW s \in Servers, BecomePrimary(s)
      PROVE  FALSE
  BY <1>2 DEF BecomePrimary
<1>3. ASSUME NEW c \in Clients, NEW n \in Names, BeginSend(c, n)
      PROVE  FALSE
  BY <1>3 DEF BeginSend
<1>4. ASSUME NEW r \in Servers, Replicate(r)
      PROVE  FALSE
  BY <1>4 DEF Replicate
<1>5. ASSUME NEW n \in Names, DeliveryVisit(n)
      PROVE  FALSE
  BY <1>5 DEF DeliveryVisit
<1>6. ~ApplySend /\ ~DeliveryUpdate
  BY DEF ApplySend, DeliveryUpdate
<1>7. ~DeliverySend
  <2>1. visit.name # None /\ NoVisit.name = None
    BY NonesAreDistinct, NoVisitTyped DEF WorkInv, VisitOK
  <2>2. QED
    BY <2>1, DeliverySteps
<1>8. ASSUME DeliveryApply
      PROVE  /\ serving' = serving
             /\ \A s \in serving : queue'[s][visit.name] = visit.refused
  <2>1. /\ round.kind = "setmsgs" /\ round.name = visit.name
        /\ queue' = [queue EXCEPT ![Primary][visit.name] = visit.refused]
        /\ serving' = serving
    BY <1>8 DEF DeliveryApply, DeliveryEnds, Acknowledged, BatchOK, leaders
  <2>2. /\ serving = {Primary} /\ Primary \in Servers /\ visit.name \in Names
        /\ queue \in [Servers -> [Names -> Seq(MayBePhantom)]]
        /\ visit.refused \in Seq(MayBePhantom)
    BY <2>1, RoundIsTyped, MailIsTyped
  <2>3. queue'[Primary][visit.name] = visit.refused
    BY <2>1, <2>2, EntrySet
  <2>4. QED
    BY <2>1, <2>2, <2>3
<1>9. ~Aside
  BY DEF Aside
<1>10. QED
  BY <1>1, <1>2, <1>3, <1>4, <1>5, <1>6, <1>7, <1>8, <1>9, StepsOnMail

LEMMA NextQueuedOnce ==
    ASSUME RedeliveryInv, [Next]_vars
    PROVE  QueuedOnce'
<1>w. /\ WorkInv /\ WorkInv' /\ SendOK /\ BatchOK /\ IsFiniteSet(Servers \ live)
      /\ NoneServing /\ QueuedOnce /\ VisitedOnce
  BY NextWork DEF RedeliveryInv, MailInv
<1>c. /\ Crashes \in Nat /\ Crashes' \in Nat /\ Crashes <= Crashes'
  BY <1>w, CrashesGrow
<1>1. SUFFICES ASSUME NEW s \in serving', NEW n \in Names, NEW m \in Messages,
                      visit'.name # n, InSeq(m, queue'[s][n])
               PROVE  HandedOver(m, n)' <= Crashes'
  BY DEF QueuedOnce
<1>2. HandedOver(m, n)' = HandedOver(m, n) /\ HandedOver(m, n) \in Nat
  <2>1. DeliverySend => n # visit.name
    BY <1>1, <1>w, DeliverySteps
  <2>2. QED
    BY <1>w, <2>1, HandedOverSteps
<1>3. SUFFICES HandedOver(m, n) <= Crashes
  BY <1>2, <1>c
<1>4. ASSUME NEW r \in Servers, BecomePrimary(r)
      PROVE  HandedOver(m, n) <= Crashes
  BY <1>4, <1>w DEF BecomePrimary, L!Serve, NoneServing
<1>5. ASSUME s \in serving
      PROVE  HandedOver(m, n) <= Crashes
  <2>s. s \in Servers
    BY <1>5, <1>w DEF WorkInv, FailoverTypeOK
  <2>t. s \in Servers /\ queue[s][n] \in Seq(MayBePhantom)
    BY <1>w, <2>s, MailIsTyped
  <2>1. CASE visit.name = n
    <3>1. visit # NoVisit /\ visit' = NoVisit
      <4>1. visit # NoVisit
        BY <2>1, NoVisitTyped, NonesAreDistinct
      <4>2. DeliverySend => visit'.name = visit.name
        BY <1>w, DeliverySteps
      <4>3. QED
        BY <1>1, <1>w, <2>1, <4>1, <4>2, VisitSteps
    <3>2. queue'[s][n] = visit.refused
      BY <1>1, <1>5, <1>w, <2>1, <3>1, VisitEnds
    <3>3. QED
      BY <1>1, <1>w, <2>1, <3>1, <3>2 DEF VisitedOnce
  <2>2. CASE visit.name # n /\ InSeq(m, queue[s][n])
    BY <1>5, <1>w, <2>2 DEF QueuedOnce
  <2>3. CASE visit.name # n /\ ~InSeq(m, queue[s][n])
    <3>1. round.kind = "addmsg" /\ queue'[s][n] = queue[s][n] \o <<requests>>
      BY <1>1, <1>w, <2>3, <2>t, QueueSteps
    <3>2. requests \in Messages /\ requests \in MayBePhantom
      BY <1>w, <3>1, FailoverAssumptions
         DEF SendOK, WorkInv, FailoverTypeOK, Messages, MayBePhantom
    <3>3. m = requests
      <4>1. <<requests>> \in Seq(MayBePhantom)
        BY <3>2
      <4>2. InSeq(m, queue[s][n]) \/ InSeq(m, <<requests>>)
        BY <1>1, <2>t, <3>1, <4>1, InConcat
      <4>3. QED
        BY <2>3, <4>2, InOne
    <3>4. ~InSeq(m, delivered[n])
      <4>1. \A k : InSeq(k, delivered[n]) => k <= requests - 1
        BY <1>w, <3>1, UpToMembers DEF SendOK
      <4>2. requests \in Nat /\ ~(requests <= requests - 1)
        BY <3>2, Numbers
      <4>3. QED
        BY <3>3, <4>1, <4>2
    <3>5. HandedOver(m, n) = 0
      BY <3>4, NoOccurrence DEF HandedOver
    <3>6. QED
      BY <1>c, <3>5
  <2>4. QED
    BY <2>1, <2>2, <2>3
<1>6. s \in serving \/ \E r \in Servers : BecomePrimary(r)
  BY <1>1, <1>w, ServerSteps DEF CrashServer, L!Crash
<1>7. QED
  BY <1>4, <1>5, <1>6

LEMMA NextVisitedOnce ==
    ASSUME RedeliveryInv, [Next]_vars
    PROVE  VisitedOnce'
<1>w. /\ WorkInv /\ WorkInv' /\ OrderOK /\ SendOK /\ BatchOK
      /\ IsFiniteSet(Servers \ live)
      /\ NoneServing /\ QueuedOnce /\ VisitedOnce
  BY NextWork DEF RedeliveryInv, MailInv
<1>c. /\ Crashes \in Nat /\ Crashes' \in Nat /\ Crashes <= Crashes'
  BY <1>w, CrashesGrow
<1>1. SUFFICES ASSUME visit' # NoVisit, NEW n, n = visit'.name,
                      NEW m \in Messages,
                      InSeq(m, visit'.refused) \/ InSeq(m, visit'.unsent)
               PROVE  HandedOver(m, n)' <= Crashes'
  BY DEF VisitedOnce, HandedOver
<1>n. n \in Names
  BY <1>1, <1>w DEF WorkInv, VisitOK
<1>o. HandedOver(m, n) \in Nat
  BY <1>n, <1>w, HandedOverSteps
<1>2. CASE UNCHANGED <<visit, delivered>>
  <2>1. HandedOver(m, n)' = HandedOver(m, n)
    BY <1>2 DEF HandedOver
  <2>2. HandedOver(m, n) <= Crashes
    BY <1>1, <1>2, <1>w DEF VisitedOnce
  <2>3. QED
    BY <1>c, <1>o, <2>1, <2>2
<1>3. ASSUME UNCHANGED <<delivered, queue>>, visit = NoVisit, serving # {},
             visit' = [name |-> n, unsent |-> queue[Primary][n], refused |-> <<>>]
      PROVE  HandedOver(m, n)' <= Crashes'
  <2>1. HandedOver(m, n)' = HandedOver(m, n)
    BY <1>3 DEF HandedOver
  <2>2. InSeq(m, queue[Primary][n])
    BY <1>1, <1>3, InNone
  <2>3. visit.name # n /\ Primary \in serving
    BY <1>3, <1>n, <1>w, NoVisitTyped, NonesAreDistinct, PrimaryServes DEF WorkInv
  <2>4. HandedOver(m, n) <= Crashes
    BY <1>n, <1>w, <2>2, <2>3 DEF QueuedOnce
  <2>5. QED
    BY <1>c, <1>o, <2>1, <2>4
<1>4. CASE DeliverySend
  <2> DEFINE k == Head(visit.unsent)
  <2>1. /\ visit # NoVisit /\ n = visit.name /\ visit.unsent # <<>>
        /\ k \in MayBePhantom /\ visit'.unsent = Tail(visit.unsent)
        /\ serving = {Primary}
        /\ \/ visit'.refused = visit.refused /\ UNCHANGED delivered
           \/ /\ k \in Messages
              /\ \A s \in serving : sessions[s][visit.name] \in gone =>
                                       visit.refused = <<>>
              /\ visit'.refused = visit.refused
           \/ /\ k \in Messages
              /\ visit'.refused = Append(visit.refused, k)
              /\ UNCHANGED delivered
    BY <1>1, <1>4, <1>w, DeliverySteps
  <2> HIDE DEF k
  <2>t. /\ visit.refused \in Seq(Messages) /\ visit.unsent \in Seq(MayBePhantom)
        /\ Rising(visit.unsent)
    BY <1>w, MailIsTyped DEF OrderOK
  <2>2. InSeq(m, visit.unsent) <=> m = k \/ InSeq(m, Tail(visit.unsent))
    BY <2>1, <2>t, InTail DEF k
  <2>3. InSeq(m, visit.refused) \/ InSeq(m, visit.unsent)
    <3>1. k \in Messages /\ InSeq(m, Append(visit.refused, k)) =>
             InSeq(m, visit.refused) \/ m = k
      BY <2>t, InAppend
    <3>2. QED
      BY <1>1, <2>1, <2>2, <3>1
  <2>4. HandedOver(m, n) <= Crashes
    BY <1>w, <2>1, <2>3 DEF VisitedOnce
  <2>5. CASE HandedOver(m, n)' = HandedOver(m, n)
    BY <1>c, <1>o, <2>4, <2>5
  <2>6. ASSUME m = k, HandedOver(m, n)' = HandedOver(m, n) + 1
        PROVE  FALSE
    <3>1. delivered' # delivered
      BY <1>o, <2>6 DEF HandedOver
    <3>2. visit.refused = <<>> /\ visit'.refused = visit.refused
      BY <1>w, <2>1, <3>1 DEF BatchOK
    <3>3. InSeq(m, Tail(visit.unsent))
      BY <1>1, <2>1, <3>2, InNone
    <3>4. m # Phantom /\ m \in Nat
      BY Numbers
    <3>5. m < m
      BY <2>1, <2>6, <2>t, <3>3, <3>4, RisingTail DEF k
    <3>6. QED
      BY <3>4, <3>5
  <2>7. QED
    BY <1>n, <1>w, <2>5, <2>6, HandedOverSteps DEF k
<1>5. QED
  BY <1>1, <1>2, <1>3, <1>4, <1>w, VisitSteps

\* The recipient's socket gets a message twice only when a primary has crashed
\* since, and once more for each crash: a delivery thread sends what the list of
\* its server holds, and takes it off before it sends again.
THEOREM RedeliveriesAreCrashes == Spec => []RedeliveryNeedsACrash
<1>1. Init => RedeliveryInv
  <2> SUFFICES ASSUME Init
               PROVE  RedeliveryInv
    OBVIOUS
  <2>1. Servers \ live = {}
    BY DEF Init, L!Init
  <2>2. IsFiniteSet(Servers \ live) /\ Cardinality(Servers \ live) = 0
    BY <2>1, FS_EmptySet
  <2>3. \A n \in Names, m \in Messages : HandedOver(m, n) = 0
    BY InNone, NoOccurrence DEF Init, HandedOver
  <2>4. RedeliveryNeedsACrash /\ NoneServing
    BY <2>2, <2>3 DEF RedeliveryNeedsACrash, NoneServing, HandedOver, Crashes
  <2>5. QueuedOnce /\ VisitedOnce
    BY DEF Init, L!Init, QueuedOnce, VisitedOnce
  <2>6. QED
    BY <2>2, <2>4, <2>5, InitMail DEF RedeliveryInv
<1>2. RedeliveryInv /\ [Next]_vars => RedeliveryInv'
  <2> SUFFICES ASSUME RedeliveryInv, [Next]_vars
               PROVE  RedeliveryInv'
    OBVIOUS
  <2>1. MailInv' /\ IsFiniteSet(Servers \ live)'
    BY NextMail, CrashesGrow DEF RedeliveryInv, MailInv
  <2>2. QED
    BY <2>1, NextRedelivery, NextQueuedOnce, NextVisitedOnce DEF RedeliveryInv
<1>3. RedeliveryInv => RedeliveryNeedsACrash
  BY DEF RedeliveryInv
<1>4. QED
  BY <1>1, <1>2, <1>3, PTL DEF Spec

=============================================================================
