--------------------------- MODULE ChatServerReplicas ---------------------------
(***************************************************************************)
(* The copies of the tables of ChatServer on its replicas, and the         *)
(* sessions of its clients, for any clients, names and replicas and any    *)
(* number of requests.                                                     *)
(***************************************************************************)
EXTENDS ChatServerProofs

(* Rounds.  A round with the replicas opens when other_server_lock is taken, *)
(* and closes with the step that makes the change on the primary.  No other  *)
(* step touches it, the list of accounts or the queued messages.             *)

InRound(t) == pc[t] = "round"

Closes(c) ==
    \/ CreateApply(c) \/ LoginApply(c) \/ LogoffApply(c) \/ DeleteApply(c)
    \/ SendApply(c)

RoundsUnchanged ==
    \A t \in Threads : /\ InRound(t)' <=> InRound(t)
                       /\ InRound(t) => UNCHANGED <<upd[t], pend[t]>>

Quiet ==
    /\ RoundsUnchanged
    /\ UNCHANGED <<account_list, undelivered, repAccounts, repMsgs, repUp>>

LEMMA HandleIsQuiet ==
    ASSUME TypeOK, NEW c \in Clients, Handle(c), ~Closes(c)
    PROVE  Quiet /\ UNCHANGED repLogged /\ (Quit(c) \/ UNCHANGED logged_in)
<1>1. \A t \in Threads \ {c} : UNCHANGED <<pc[t], upd[t]>>
  BY HandleIsLocal
<1> USE ThreadsAreDistinct
    DEF TypeOK, Quiet, RoundsUnchanged, InRound, primary, replica, thread,
        batch, Goto, Respond, RespondOther, Replicating, Looking
<1>2. CASE AcquireClients(c) \/ Quit(c)
  BY <1>1, <1>2 DEF AcquireClients, Quit
<1>3. CASE CreateCheck(c) \/ CreateAccount(c)
  BY <1>1, <1>3 DEF CreateCheck, CreateAccount
<1>4. CASE LogInClients(c) \/ LogInLogged(c)
  BY <1>1, <1>4 DEF LogInClients, LogInLogged
<1>5. CASE LoginCheck(c) \/ LoginAccount(c)
  BY <1>1, <1>5 DEF LoginCheck, LoginAccount
<1>6. CASE LogoffCheck(c) \/ DeleteAccount(c)
  BY <1>1, <1>6 DEF LogoffCheck, DeleteAccount
<1>7. CASE SendCheck(c) \/ SendRecipient(c) \/ SendQueue(c)
  BY <1>1, <1>7 DEF SendCheck, SendRecipient, SendQueue
<1>8. CASE ListAccounts(c)
  BY <1>1, <1>8 DEF ListAccounts
<1>9. QED
  BY <1>2, <1>3, <1>4, <1>5, <1>6, <1>7, <1>8 DEF Handle, Closes

\* What a step can do to the rounds and the tables on both sides.
LEMMA StepsAndRounds ==
    ASSUME TypeOK, [Next]_vars
    PROVE  \/ \E t \in Threads : AcquireOther(t)
           \/ \E t \in Threads, r \in Replicas : Replicate(t, r)
           \/ \E c \in Clients : Closes(c)
           \/ DeliveryApply
           \/ Quiet /\ UNCHANGED repLogged /\ \E c \in Clients : Quit(c)
           \/ Quiet /\ \E r \in Replicas, c \in Clients : RepHangUp(r, c)
           \/ Quiet /\ UNCHANGED <<logged_in, repLogged>>
<1> USE ThreadsAreDistinct
<1> DEFINE Goal == \/ \E t \in Threads : AcquireOther(t)
                   \/ \E t \in Threads, r \in Replicas : Replicate(t, r)
                   \/ \E c \in Clients : Closes(c)
                   \/ DeliveryApply
                   \/ /\ Quiet /\ UNCHANGED repLogged
                      /\ \E c \in Clients : Quit(c)
                   \/ /\ Quiet
                      /\ \E r \in Replicas, c \in Clients : RepHangUp(r, c)
                   \/ Quiet /\ UNCHANGED <<logged_in, repLogged>>
<1>1. ASSUME NEW c \in Clients, Handle(c)
      PROVE  Goal
  BY <1>1, HandleIsQuiet
<1>2. ASSUME NEW c \in Clients,
             Register(c) \/ Close(c) \/ Receive(c) \/ HangUp(c)
      PROVE  Goal
  BY <1>2
     DEF Register, Close, Receive, HangUp, Goto, TypeOK, Quiet, InRound,
         RoundsUnchanged, primary, replica, thread
<1>3. ASSUME NEW t \in Threads, Round(t)
      PROVE  Goal
  BY <1>3
     DEF Round, AcquireAck, Goto, TypeOK, Quiet, InRound, RoundsUnchanged,
         primary, replica, thread
<1>4. CASE Deliver
  BY <1>4
     DEF Deliver, DeliveryStart, DeliveryNext, DeliverySleep, DeliveryVisit,
         DeliverySend, DeliveryUpdate, Goto, Replicating, TypeOK, Quiet,
         InRound, RoundsUnchanged, primary, replica, thread
<1>5. ASSUME NEW r \in Replicas, NEW c \in Clients,
             RepRegister(r, c) \/ RepHangUp(r, c)
      PROVE  Goal
  BY <1>5
     DEF RepRegister, RepHangUp, Quiet, InRound, RoundsUnchanged, primary,
         thread
<1>6. CASE UNCHANGED vars
  BY <1>6
     DEF vars, Quiet, InRound, RoundsUnchanged, primary, replica, thread
<1>7. QED
  BY <1>1, <1>2, <1>3, <1>4, <1>5, <1>6 DEF Next

(* What a thread sends to the replicas is what it is about to do itself.     *)

UpdateSays(c) ==
    Busy(c) =>
        /\ upd[c].kind \in {"create", "login", "addmsg"} =>
              upd[c].name = req[c].name
        /\ upd[c].kind \in {"logoff", "remove"} => upd[c].name = user[c]
        /\ upd[c].kind \in {"login", "logoff"} => upd[c].uuid = c

DeliverySays ==
    /\ pc[Delivery] \in {"logged", "send"} \/ Busy(Delivery) =>
           user[Delivery] \in Names
    /\ Busy(Delivery) => upd[Delivery].name = user[Delivery]

UpdatesInv ==
    /\ LocksInv
    /\ DeliverySays
    /\ \A c \in Clients : UpdateSays(c)

LEMMA HandleSays ==
    ASSUME TypeOK, NEW c \in Clients, UpdateSays(c), Handle(c)
    PROVE  UpdateSays(c)'
<1> USE ThreadsAreDistinct
    DEF TypeOK, UpdateSays, Busy, thread, batch, client, Goto, Respond,
        RespondOther, Replicating, Update, Looking, Acknowledged
<1>1. CASE AcquireClients(c) \/ Quit(c)
  BY <1>1 DEF AcquireClients, Quit
<1>2. CASE CreateCheck(c) \/ CreateAccount(c) \/ CreateApply(c)
  BY <1>2 DEF CreateCheck, CreateAccount, CreateApply
<1>3. CASE LogInClients(c) \/ LogInLogged(c)
  BY <1>3 DEF LogInClients, LogInLogged
<1>4. CASE LoginCheck(c) \/ LoginAccount(c) \/ LoginApply(c)
  BY <1>4 DEF LoginCheck, LoginAccount, LoginApply
<1>5. CASE LogoffCheck(c)
  <2>1. \/ pc'[c] = "idle"
        \/ upd' = [upd EXCEPT ![c] = [kind |-> "logoff", name |-> user'[c],
                                      uuid |-> c, msgs |-> <<>>]]
    BY <1>5 DEF LogoffCheck
  <2>2. CASE pc'[c] = "idle"
    BY <2>2
  <2>3. CASE upd' = [upd EXCEPT ![c] = [kind |-> "logoff", name |-> user'[c],
                                        uuid |-> c, msgs |-> <<>>]]
    <3>1. upd'[c] = [kind |-> "logoff", name |-> user'[c], uuid |-> c,
                     msgs |-> <<>>]
      BY <2>3
    <3>2. QED
      BY <3>1
  <2>4. QED
    BY <2>1, <2>2, <2>3
<1>6. CASE LogoffApply(c)
  BY <1>6 DEF LogoffApply
<1>7. CASE DeleteAccount(c) \/ DeleteApply(c)
  BY <1>7 DEF DeleteAccount, DeleteApply
<1>8. CASE SendCheck(c) \/ SendRecipient(c) \/ SendApply(c)
  BY <1>8 DEF SendCheck, SendRecipient, SendApply
<1>9. CASE SendQueue(c)
  <2>1. UNCHANGED req /\ upd'[c].kind = "addmsg" /\ upd'[c].name = req[c].name
    BY <1>9 DEF SendQueue
  <2>2. QED
    BY <2>1
<1>10. CASE ListAccounts(c)
  BY <1>10 DEF ListAccounts
<1>11. QED
  BY <1>1, <1>2, <1>3, <1>4, <1>5, <1>6, <1>7, <1>8, <1>9, <1>10 DEF Handle

LEMMA NextUpdates == UpdatesInv /\ [Next]_vars => UpdatesInv'
<1> SUFFICES ASSUME UpdatesInv, [Next]_vars
             PROVE  UpdatesInv'
  OBVIOUS
<1> USE ThreadsAreDistinct
<1>1. LocksInv'
  BY NextLocks DEF UpdatesInv
<1>2. /\ TypeOK /\ DeliverySays
      /\ \A c \in Clients : UpdateSays(c) /\ InStep(c)
  BY DEF UpdatesInv, LocksInv, ExistenceInv, TypeInv, HandlersInStep
<1>3. ASSUME UNCHANGED <<pc[Delivery], user[Delivery], upd[Delivery]>>
      PROVE  DeliverySays'
  BY <1>2, <1>3 DEF DeliverySays, Busy
<1>4. ASSUME NEW c \in Clients, UNCHANGED <<pc[c], user[c], upd[c], req[c]>>
      PROVE  UpdateSays(c)'
  BY <1>2, <1>4 DEF UpdateSays, Busy
<1>5. ASSUME NEW c \in Clients, Handle(c)
      PROVE  UpdatesInv'
  <2>1. UpdateSays(c)'
    BY <1>2, <1>5, HandleSays
  <2>2. QED
    BY <1>1, <1>2, <1>3, <1>4, <1>5, <2>1, HandleIsLocal DEF UpdatesInv
<1>6. ASSUME NEW c \in Clients,
             Register(c) \/ Close(c) \/ Receive(c) \/ HangUp(c)
      PROVE  UpdatesInv'
  <2>1. \/ UNCHANGED <<pc[c], user[c], upd[c], req[c]>>
        \/ ~Busy(c)'
    BY <1>2, <1>6
       DEF Register, Close, Receive, HangUp, Goto, Busy, TypeOK, thread
  <2>2. UpdateSays(c)'
    BY <1>4, <2>1 DEF UpdateSays
  <2>3. QED
    BY <1>1, <1>2, <1>3, <1>4, <1>6, <2>2, ConnectionIsLocal DEF UpdatesInv
<1>7. ASSUME NEW t \in Threads, Round(t)
      PROVE  UpdatesInv'
  BY <1>1, <1>2, <1>7, RoundIsLocal
     DEF UpdatesInv, UpdateSays, DeliverySays, Busy
<1>8. CASE Deliver
  <2>1. DeliverySays'
    BY <1>2, <1>8
       DEF DeliverySays, Busy, Deliver, DeliveryStart, DeliveryNext,
           DeliverySleep, DeliveryVisit, DeliverySend, DeliveryUpdate,
           DeliveryApply, Goto, Replicating, Update, TypeOK, thread
  <2>2. QED
    BY <1>1, <1>2, <1>4, <1>8, <2>1, DeliverIsLocal DEF UpdatesInv
<1>9. ASSUME NEW r \in Replicas, NEW d \in Clients,
             RepRegister(r, d) \/ RepHangUp(r, d)
      PROVE  UpdatesInv'
  BY <1>1, <1>3, <1>4, <1>9, ReplicaIsLocal DEF UpdatesInv, thread
<1>10. CASE UNCHANGED vars
  BY <1>1, <1>3, <1>4, <1>10 DEF UpdatesInv, vars, thread
<1>11. QED
  BY <1>5, <1>6, <1>7, <1>8, <1>9, <1>10 DEF Next

LEMMA InitUpdates == Init => UpdatesInv
BY InitLocks, ThreadsAreDistinct
   DEF Init, UpdatesInv, DeliverySays, UpdateSays, Busy

LEMMA UpdatesInvariant == Spec => []UpdatesInv
BY InitUpdates, NextUpdates, PTL DEF Spec

-----------------------------------------------------------------------------
(* The replicas' lists of accounts.                                         *)

\* The thread that holds other_server_lock alone has an update under way.
LEMMA AppliedInRound ==
    ASSUME OneRoundAtATime, NEW t \in Threads, InRound(t), NEW r, NEW kind,
           NEW n
    PROVE  Applied(r, kind, n) <=> /\ r \notin pend[t]
                                   /\ upd[t].kind = kind /\ upd[t].name = n
BY DEF OneRoundAtATime, InRound, Applied

LEMMA AppliedNowhere ==
    ASSUME \A t \in Threads : ~InRound(t), NEW r, NEW kind, NEW n
    PROVE  ~Applied(r, kind, n)
BY DEF InRound, Applied

LEMMA QuietKeepsApplied ==
    ASSUME RoundsUnchanged, NEW r, NEW kind, NEW n
    PROVE  Applied(r, kind, n)' <=> Applied(r, kind, n)
BY DEF RoundsUnchanged, InRound, Applied

\* A round opens where there was none, and nobody has applied its update.
LEMMA RoundOpens ==
    ASSUME LocksInv, NEW t \in Threads, AcquireOther(t), NEW r \in repUp,
           NEW kind, NEW n
    PROVE  ~Applied(r, kind, n) /\ ~Applied(r, kind, n)'
<1>1. \A s \in Threads : ~InRound(s)
  BY ThreadsAreDistinct
     DEF LocksInv, Owns, Has, InRound, AcquireOther, Acquire, Locks
<1>2. TypeOK
  BY DEF LocksInv, ExistenceInv, TypeInv
<1>3. /\ \A s \in Threads : s # t => ~InRound(s)'
      /\ pend'[t] = Replicas
  BY <1>1, <1>2 DEF AcquireOther, Goto, InRound, TypeOK
<1>4. ~Applied(r, kind, n)
  BY <1>1, AppliedNowhere
<1>5. r \in Replicas
  BY <1>2 DEF TypeOK
<1>6. QED
  BY <1>3, <1>4, <1>5 DEF Applied, InRound

\* It closes for every replica at once, which have all applied the update.
LEMMA RoundCloses ==
    ASSUME LocksInv, NEW t \in Threads, InRound(t), pend[t] = {}, ~InRound(t)',
           \A s \in Threads \ {t} : UNCHANGED pc[s],
           NEW r, NEW kind, NEW n
    PROVE  /\ Applied(r, kind, n) <=> upd[t].kind = kind /\ upd[t].name = n
           /\ ~Applied(r, kind, n)'
<1>1. OneRoundAtATime
  BY DEF LocksInv, Owns, Has, Locks, OneRoundAtATime
<1>2. Applied(r, kind, n) <=> upd[t].kind = kind /\ upd[t].name = n
  BY <1>1, AppliedInRound
<1>3. \A s \in Threads : ~InRound(s)'
  BY <1>1 DEF OneRoundAtATime, InRound
<1>4. QED
  BY <1>2, <1>3 DEF Applied, InRound

LEMMA ClosingEndsARound ==
    ASSUME TypeOK, NEW c \in Clients, Closes(c)
    PROVE  /\ InRound(c) /\ pend[c] = {} /\ ~InRound(c)'
           /\ \A s \in Threads \ {c} : UNCHANGED pc[s]
           /\ UNCHANGED <<replica, upd>>
           /\ upd[c].kind \in {"create", "login", "logoff", "remove", "addmsg"}
BY ZenonT(30), ThreadsAreDistinct
   DEF TypeOK, Closes, CreateApply, LoginApply, LogoffApply, DeleteApply,
       SendApply, Acknowledged, Goto, Respond, RespondOther, InRound, thread

LEMMA DeliveryEndsARound ==
    ASSUME TypeOK, DeliveryApply
    PROVE  /\ InRound(Delivery) /\ pend[Delivery] = {} /\ ~InRound(Delivery)'
           /\ \A s \in Threads \ {Delivery} : UNCHANGED pc[s]
           /\ UNCHANGED <<replica, upd, account_list, logged_in, clients, gone>>
           /\ upd[Delivery].kind = "setmsgs"
BY ThreadsAreDistinct
   DEF TypeOK, DeliveryApply, Acknowledged, Goto, InRound, thread, client

\* How far a replica's count of a name is ahead of the primary's.
Ahead(r, n) == CASE Applied(r, "create", n) -> account_list[n] + 1
                 [] Applied(r, "remove", n) -> account_list[n] - 1
                 [] OTHER -> account_list[n]

LEMMA NextAccountsInSync ==
    ASSUME UpdatesInv, AccountsInSync, [Next]_vars
    PROVE  AccountsInSync'
<1> USE ThreadsAreDistinct
<1>1. /\ LocksInv /\ TypeOK /\ OneRoundAtATime
      /\ \A c \in Clients : UpdateSays(c) /\ InStep(c) /\ RemovesAnAccount(c)
  BY DEF UpdatesInv, LocksInv, ExistenceInv, TypeInv, HandlersInStep, Owns,
         Has, Locks, OneRoundAtATime
<1>2. SUFFICES ASSUME NEW r \in repUp', NEW n \in Names
               PROVE  repAccounts'[r][n] = Ahead(r, n)'
  BY DEF AccountsInSync, Ahead
<1>3. r \in repUp => repAccounts[r][n] = Ahead(r, n)
  BY DEF AccountsInSync, Ahead
<1>4. ASSUME NEW t \in Threads, AcquireOther(t)
      PROVE  repAccounts'[r][n] = Ahead(r, n)'
  <2>1. UNCHANGED <<account_list, repAccounts, repUp>>
    BY <1>4 DEF AcquireOther, primary, replica
  <2>2. \A kind : ~Applied(r, kind, n) /\ ~Applied(r, kind, n)'
    BY <1>1, <1>4, <2>1, RoundOpens
  <2>3. QED
    BY <1>3, <2>1, <2>2 DEF Ahead
<1>5. ASSUME NEW t \in Threads, NEW s \in Replicas, Replicate(t, s)
      PROVE  repAccounts'[r][n] = Ahead(r, n)'
  <2>1. /\ UNCHANGED <<account_list, pc, upd>>
        /\ InRound(t) /\ s \in pend[t]
        /\ pend' = [pend EXCEPT ![t] = @ \ {s}]
        /\ r \in repUp /\ r \in Replicas
    BY <1>1, <1>5
       DEF Replicate, InRound, primary, replica, thread, TypeOK,
           ProcessUpdateAccounts, ProcessUpdateLogin, ProcessUpdateMessages
  <2>2. \A kind : /\ Applied(r, kind, n) <=> /\ r \notin pend[t]
                                             /\ upd[t].kind = kind
                                             /\ upd[t].name = n
                  /\ Applied(r, kind, n)' <=> /\ r \notin pend'[t]
                                              /\ upd[t].kind = kind
                                              /\ upd[t].name = n
    BY <1>1, <2>1, AppliedInRound
       DEF Applied, InRound, OneRoundAtATime
  <2>3. CASE r # s
    <3>1. repAccounts'[r] = repAccounts[r]
      BY <1>1, <1>5, <2>3
         DEF Replicate, ProcessUpdateAccounts, ProcessUpdateLogin,
             ProcessUpdateMessages, replica, TypeOK
    <3>2. r \in pend'[t] <=> r \in pend[t]
      BY <1>1, <2>1, <2>3 DEF TypeOK
    <3>3. QED
      BY <1>3, <2>1, <2>2, <3>1, <3>2 DEF Ahead
  <2>4. CASE r = s
    <3>1. r \in pend[t] /\ r \notin pend'[t]
      BY <1>1, <2>1, <2>4 DEF TypeOK
    <3>2. repAccounts[r][n] = account_list[n]
      BY <1>3, <2>1, <2>2, <3>1 DEF Ahead
    <3>3. CASE ProcessUpdateAccounts(r, upd[t])
      <4>1. /\ upd[t].kind = "create" \/ upd[t].kind = "remove"
            /\ upd[t].kind = "create" =>
                 repAccounts' = [repAccounts EXCEPT ![r][upd[t].name] = @ + 1]
            /\ upd[t].kind = "remove" =>
                 repAccounts' = [repAccounts EXCEPT ![r][upd[t].name] = @ - 1]
        BY <2>1, <3>3 DEF ProcessUpdateAccounts
      <4>2. repAccounts \in [Replicas -> [Names -> Nat]]
        BY <1>1 DEF TypeOK
      <4>3. /\ upd[t].name # n => repAccounts'[r][n] = repAccounts[r][n]
            /\ upd[t].name = n /\ upd[t].kind = "create" =>
                  repAccounts'[r][n] = repAccounts[r][n] + 1
            /\ upd[t].name = n /\ upd[t].kind = "remove" =>
                  repAccounts'[r][n] = repAccounts[r][n] - 1
        BY <2>1, <4>1, <4>2
      <4>4. QED
        BY <2>1, <2>2, <3>1, <3>2, <4>1, <4>3 DEF Ahead
    <3>4. CASE \/ ProcessUpdateLogin(r, upd[t])
               \/ ProcessUpdateMessages(r, upd[t])
      <4>1. /\ UNCHANGED repAccounts
            /\ upd[t].kind \notin {"create", "remove"}
        BY <3>4 DEF ProcessUpdateLogin, ProcessUpdateMessages
      <4>2. QED
        BY <2>1, <2>2, <3>2, <4>1 DEF Ahead
    <3>5. QED
      BY <1>5, <2>1, <2>4, <3>3, <3>4 DEF Replicate
  <2>5. QED
    BY <2>3, <2>4
<1>6. ASSUME NEW c \in Clients, Closes(c)
      PROVE  repAccounts'[r][n] = Ahead(r, n)'
  <2>1. /\ InRound(c) /\ UNCHANGED <<repAccounts, repUp>>
        /\ \A kind : /\ Applied(r, kind, n) <=> /\ upd[c].kind = kind
                                                /\ upd[c].name = n
                     /\ ~Applied(r, kind, n)'
    BY <1>1, <1>6, ClosingEndsARound, RoundCloses DEF replica
  <2>2. account_list \in [Names -> Nat] /\ repAccounts[r][n] \in Nat
    BY <1>1, <2>1 DEF TypeOK
  <2>3. CASE CreateApply(c)
    <3>1. /\ upd[c].kind = "create" /\ upd[c].name = req[c].name
          /\ account_list' = [account_list EXCEPT ![req[c].name] = @ + 1]
      BY <1>1, <2>1, <2>3
         DEF CreateApply, Acknowledged, UpdateSays, Busy, InRound
    <3>2. QED
      BY <1>3, <2>1, <2>2, <3>1 DEF Ahead
  <2>4. CASE DeleteApply(c)
    <3>1. /\ upd[c].kind = "remove" /\ upd[c].name = user[c]
          /\ user[c] \in Names
          /\ \/ account_list' = [account_list EXCEPT ![user[c]] = @ - 1]
             \/ account_list[user[c]] = 0 /\ UNCHANGED account_list
      BY <1>1, <2>1, <2>4
         DEF DeleteApply, Acknowledged, UpdateSays, Busy, InRound, InStep,
             RemovesAnAccount
    <3>2. CASE user[c] = n
      \* The replicas could not remove it either: none is left.
      <4>1. repAccounts[r][n] = account_list[n] - 1
        BY <1>3, <2>1, <3>1, <3>2 DEF Ahead
      <4>2. account_list[n] # 0
        BY <2>2, <4>1
      <4>3. QED
        BY <2>1, <2>2, <3>1, <3>2, <4>1, <4>2 DEF Ahead
    <3>3. CASE user[c] # n
      <4>1. repAccounts[r][n] = account_list[n]
        BY <1>3, <2>1, <3>1, <3>3 DEF Ahead
      <4>2. QED
        BY <2>1, <2>2, <3>1, <3>3, <4>1 DEF Ahead
    <3>4. QED
      BY <3>2, <3>3
  <2>5. CASE LoginApply(c) \/ LogoffApply(c) \/ SendApply(c)
    <3>1. /\ UNCHANGED account_list
          /\ upd[c].kind \notin {"create", "remove"}
      BY <2>5 DEF LoginApply, LogoffApply, SendApply, Acknowledged
    <3>2. QED
      BY <1>3, <2>1, <3>1 DEF Ahead
  <2>6. QED
    BY <1>6, <2>3, <2>4, <2>5 DEF Closes
<1>7. CASE DeliveryApply
  <2>1. /\ UNCHANGED <<account_list, repAccounts, repUp>>
        /\ upd[Delivery].kind = "setmsgs"
        /\ \A kind : /\ Applied(r, kind, n) => upd[Delivery].kind = kind
                     /\ ~Applied(r, kind, n)'
    BY <1>1, <1>7, DeliveryEndsARound, RoundCloses DEF replica
  <2>2. QED
    BY <1>3, <2>1 DEF Ahead
<1>8. CASE Quiet
  <2>1. /\ UNCHANGED <<account_list, repAccounts, repUp>>
        /\ \A kind : Applied(r, kind, n)' <=> Applied(r, kind, n)
    BY <1>8, QuietKeepsApplied DEF Quiet
  <2>2. QED
    BY <1>3, <2>1 DEF Ahead
<1>9. QED
  BY <1>1, <1>4, <1>5, <1>6, <1>7, <1>8, StepsAndRounds

\* Every replica that still follows the primary has its list of accounts, but
\* for the account of the round in progress.
THEOREM ReplicasKnowTheAccounts == Spec => []AccountsInSync
<1>1. Init => AccountsInSync
  BY ThreadsAreDistinct DEF Init, AccountsInSync, Applied
<1>2. UpdatesInv /\ AccountsInSync /\ [Next]_vars => AccountsInSync'
  BY NextAccountsInSync
<1>3. QED
  BY <1>1, <1>2, UpdatesInvariant, PTL DEF Spec

-----------------------------------------------------------------------------
(* Clients keep their sessions.  What could take one away is another login   *)
(* to the same account: one handler alone is between its look-up and its     *)
(* change of the table, because of the login locks for process_login and of  *)
(* account_list_lock for process_create_account.                             *)

Claims(c, n) ==
    /\ req[c].name = n
    /\ \/ pc[c] \in {"clients2", "logged2"}
       \/ Busy(c) /\ upd[c].kind = "login"

OneClaim(c) ==
    \A n \in Names :
        Claims(c, n) /\ n \notin deleted =>
            /\ logged_in[n] = None
            /\ \A d \in Clients : Claims(d, n) => d = c

LeavesItsOwnSession(c) ==
    Busy(c) /\ upd[c].kind = "logoff" =>
        user[c] \in Names /\ logged_in[user[c]] = c

QuitsIfGone(c) ==
    req[c].op = "quit" /\ pc[c] \in {"clients", "logged"} => c \in gone

\* Between its logoff and its answer a delete leaves its user without a session.
Removing(c) ==
    /\ req[c].op = "delete"
    /\ pc[c] = "account" \/ (Busy(c) /\ upd[c].kind = "remove")

KeepsSession(c) ==
    \A n \in Names :
        told[c] = n /\ c \notin gone /\ n \notin deleted =>
            logged_in[n] = c \/ Removing(c)

KeepOK(c) == /\ OneClaim(c) /\ LeavesItsOwnSession(c) /\ QuitsIfGone(c)
             /\ KeepsSession(c)

KeepInv == UpdatesInv /\ AccountsInv /\ \A c \in Clients : KeepOK(c)

LEMMA GoneGrows == TypeOK /\ [Next]_vars => gone \subseteq gone'
<1> SUFFICES ASSUME TypeOK, [Next]_vars
             PROVE  gone \subseteq gone'
  OBVIOUS
<1> USE DEF TypeOK, client
<1>1. ASSUME NEW c \in Clients, Handle(c)
      PROVE  gone \subseteq gone'
  BY <1>1
     DEF Handle, AcquireClients, Quit, CreateCheck, CreateAccount,
         CreateApply, LogInClients, LogInLogged, LoginCheck, LoginAccount,
         LoginApply, LogoffCheck, LogoffApply, DeleteAccount, DeleteApply,
         SendCheck, SendRecipient, SendQueue, SendApply, ListAccounts
<1>2. ASSUME NEW c \in Clients,
             Register(c) \/ Close(c) \/ Receive(c) \/ HangUp(c)
      PROVE  gone \subseteq gone'
  BY <1>2 DEF Register, Close, Receive, HangUp
<1>3. ASSUME NEW t \in Threads, Round(t)
      PROVE  gone \subseteq gone'
  BY <1>3 DEF Round, AcquireAck, AcquireOther, Replicate
<1>4. CASE Deliver
  BY <1>4 DEF Deliver, DeliveryStart, DeliveryNext, DeliverySleep,
     DeliveryVisit, DeliverySend, DeliveryUpdate, DeliveryApply
<1>5. ASSUME NEW r \in Replicas, NEW c \in Clients,
             RepRegister(r, c) \/ RepHangUp(r, c)
      PROVE  gone \subseteq gone'
  BY <1>5, ReplicaIsLocal DEF client
<1>6. CASE UNCHANGED vars
  BY <1>6 DEF vars
<1>7. QED
  BY <1>1, <1>2, <1>3, <1>4, <1>5, <1>6 DEF Next

\* The steps that touch the table of sessions.
LEMMA SessionsChange ==
    ASSUME NEW c \in Clients, Handle(c)
    PROVE  \/ UNCHANGED logged_in
           \/ /\ Quit(c) /\ req[c].op = "quit"
              /\ pc[c] = "logged" /\ lock["logged_in_lock"] = None
              /\ logged_in' = Logoff(logged_in, GetUsername(logged_in, c))
           \/ /\ LoginApply(c) /\ Busy(c) /\ upd[c].kind = "login"
              /\ logged_in' = [logged_in EXCEPT ![req[c].name] = c]
           \/ /\ LogoffApply(c) /\ Busy(c) /\ upd[c].kind = "logoff"
              /\ logged_in' = Logoff(logged_in, user[c])
BY ZenonT(30)
   DEF Handle, AcquireClients, Quit, CreateCheck, CreateAccount, CreateApply,
       LogInClients, LogInLogged, LoginCheck, LoginAccount, LoginApply,
       LogoffCheck, LogoffApply, DeleteAccount, DeleteApply, SendCheck,
       SendRecipient, SendQueue, SendApply, ListAccounts, primary,
       Acknowledged, Looking, Busy

\* The steps that begin a login, or carry it on.
LEMMA ClaimsChange ==
    ASSUME TypeOK, NEW c \in Clients, InStep(c), Handle(c)
    PROVE  \/ CreateApply(c)
           \/ LoginAccount(c) /\ Available(req[c].name)
           \/ \A d \in Clients, n \in Names : Claims(d, n)' => Claims(d, n)
<1> USE ThreadsAreDistinct
<1>1. \A d \in Clients \ {c}, n \in Names : Claims(d, n)' <=> Claims(d, n)
  BY HandleIsLocal DEF Claims, Busy
<1>2. SUFFICES ASSUME NEW n \in Names, ~CreateApply(c), Claims(c, n)',
                      ~(LoginAccount(c) /\ Available(req[c].name))
               PROVE  Claims(c, n)
  BY <1>1
<1> USE <1>2
    DEF TypeOK, InStep, Claims, Busy, Acknowledged, Looking, Goto, Respond,
        RespondOther, Replicating, Update, thread, batch, client
<1>3. CASE AcquireClients(c) \/ Quit(c)
  BY <1>3 DEF AcquireClients, Quit
<1>4. CASE CreateCheck(c) \/ CreateAccount(c)
  BY <1>4 DEF CreateCheck, CreateAccount
<1>5. CASE LogInClients(c) \/ LogInLogged(c)
  BY <1>5 DEF LogInClients, LogInLogged
<1>6. CASE LoginCheck(c) \/ LoginAccount(c) \/ LoginApply(c)
  BY <1>6 DEF LoginCheck, LoginAccount, LoginApply
<1>7. CASE LogoffCheck(c) \/ LogoffApply(c)
  BY <1>7 DEF LogoffCheck, LogoffApply
<1>8. CASE DeleteAccount(c) \/ DeleteApply(c)
  BY <1>8 DEF DeleteAccount, DeleteApply
<1>9. CASE SendCheck(c) \/ SendRecipient(c) \/ SendApply(c)
  BY ZenonT(30), <1>9 DEF SendCheck, SendRecipient, SendApply
<1>10. CASE SendQueue(c)
  <2>1. pc'[c] = "ack" /\ upd'[c].kind = "addmsg"
    BY <1>10 DEF SendQueue
  <2>2. QED
    BY <2>1
<1>11. CASE ListAccounts(c)
  BY <1>11 DEF ListAccounts
<1>12. QED
  BY <1>3, <1>4, <1>5, <1>6, <1>7, <1>8, <1>9, <1>10, <1>11 DEF Handle

LEMMA ClaimsPersist ==
    ASSUME \A c \in Clients : OneClaim(c), deleted \subseteq deleted',
           \A d \in Clients, n \in Names : Claims(d, n)' => Claims(d, n),
           \A n \in Names : logged_in'[n] \in {logged_in[n], None}
    PROVE  \A c \in Clients : OneClaim(c)'
BY DEF OneClaim

\* What the proofs about a handler's step start from.
KeepFacts ==
    /\ TypeOK /\ SessionsAccounted
    /\ \A t \in Threads : Owns(t)
    /\ \A c \in Clients : /\ InStep(c) /\ NameIsNew(c) /\ LogsInAnAccount(c)
                          /\ RemovesAnAccount(c) /\ UpdateSays(c)
                          /\ HandlerPlace(c) /\ KeepOK(c)

LEMMA KeepInvHasFacts == KeepInv => KeepFacts
BY DEF KeepInv, KeepFacts, UpdatesInv, LocksInv, ExistenceInv, AccountsInv,
       TypeInv, HandlersInStep

\* Two handlers are never both between a look-up of an account and its login.
LEMMA HandleKeepsClaims ==
    ASSUME KeepFacts, NEW c \in Clients, Handle(c), deleted \subseteq deleted'
    PROVE  \A d \in Clients : OneClaim(d)'
<1> USE ThreadsAreDistinct
<1>1. /\ TypeOK
      /\ \A t \in Threads : Owns(t)
      /\ \A d \in Clients : OneClaim(d) /\ LogsInAnAccount(d) /\ InStep(d)
  BY DEF KeepFacts, KeepOK
<1>2. \A d \in Clients \ {c}, n \in Names : Claims(d, n)' <=> Claims(d, n)
  BY <1>1, HandleIsLocal DEF Claims, Busy
<1>3. CASE CreateApply(c)
  <2>1. /\ UNCHANGED <<logged_in, deleted, req>>
        /\ account_list[req[c].name] = 0 /\ req[c].name \in Names
    BY <1>3 DEF CreateApply, Acknowledged, Busy, KeepFacts, NameIsNew, InStep,
                history, thread
  <2>2. SUFFICES ASSUME NEW d \in Clients, NEW n \in Names, Claims(d, n)',
                        n \notin deleted
                 PROVE  /\ logged_in[n] = None
                        /\ \A e \in Clients : Claims(e, n)' => e = d
    BY <2>1 DEF OneClaim
  <2>3. CASE n = req[c].name
    <3>1. ~Accounted(n)
      BY <2>1, <2>2, <2>3 DEF Accounted
    <3>2. logged_in[n] = None /\ \A e \in Clients : ~Claims(e, n)
      BY <1>1, <3>1 DEF KeepFacts, SessionsAccounted, LogsInAnAccount, Claims
    <3>3. QED
      BY <1>2, <2>2, <3>2
  <2>4. CASE n # req[c].name
    <3>1. \A e \in Clients : Claims(e, n)' => e # c
      BY <2>1, <2>4 DEF Claims
    <3>2. QED
      BY <1>1, <1>2, <2>2, <3>1 DEF OneClaim
  <2>5. QED
    BY <2>3, <2>4
<1>4. CASE LoginAccount(c) /\ Available(req[c].name)
  <2>1. /\ UNCHANGED <<logged_in, deleted, req>>
        /\ pc[c] = "account" /\ req[c].op = "login"
        /\ lock["account_list_lock"] = None /\ logged_in[req[c].name] = None
    BY <1>4
       DEF LoginAccount, Available, primary, history
  <2>2. lock["logged_in_lock"] = c
    BY <1>1, <2>1 DEF Owns, Has, HasSession, Locks
  <2>3. ASSUME NEW e \in Clients, NEW n \in Names, Claims(e, n), e # c
        PROVE  FALSE
    <3>1. CASE pc[e] \in {"clients2", "logged2"}
      BY <1>1, <2>1, <3>1 DEF Owns, Has, HasAccountList, Locks
    <3>2. CASE Busy(e) /\ upd[e].kind = "login"
      BY <1>1, <2>2, <2>3, <3>2 DEF Owns, Has, HasSession, Locks
    <3>3. QED
      BY <2>3, <3>1, <3>2 DEF Claims
  <2>4. \A e \in Clients, n \in Names : Claims(e, n)' => e = c /\ n = req[c].name
    BY <1>2, <2>1, <2>3 DEF Claims
  <2>5. QED
    BY <2>1, <2>4 DEF OneClaim
<1>5. CASE LoginApply(c)
  <2>1. /\ logged_in' = [logged_in EXCEPT ![req[c].name] = c]
        /\ Claims(c, req[c].name) /\ UNCHANGED deleted
        /\ \A n \in Names : ~Claims(c, n)'
    BY <1>1, <1>5
       DEF LoginApply, Acknowledged, Busy, Claims, Respond, Goto, TypeOK,
           history
  <2>2. \A d \in Clients, n \in Names : Claims(d, n)' => Claims(d, n) /\ d # c
    BY <1>2, <2>1
  <2>3. \A d \in Clients, n \in Names :
           Claims(d, n)' /\ n \notin deleted => n # req[c].name
    BY <1>1, <2>1, <2>2 DEF OneClaim
  <2>4. QED
    BY <1>1, <2>1, <2>2, <2>3 DEF OneClaim, TypeOK
<1>6. CASE /\ ~LoginApply(c)
           /\ \A d \in Clients, n \in Names : Claims(d, n)' => Claims(d, n)
  <2>1. \A n \in Names : logged_in'[n] \in {logged_in[n], None}
    BY <1>6, SessionsChange DEF Logoff
  <2>2. QED
    BY <1>1, <1>6, <2>1, ClaimsPersist
<1>7. QED
  BY <1>1, <1>3, <1>4, <1>5, <1>6, ClaimsChange

\* A handler that is logging its client off holds the table of sessions.
LEMMA HandleKeepsLogoffs ==
    ASSUME KeepFacts, NEW c \in Clients, Handle(c), NEW d \in Clients
    PROVE  LeavesItsOwnSession(d)'
<1> USE ThreadsAreDistinct
<1>1. /\ TypeOK /\ Owns(c) /\ Owns(d) /\ LeavesItsOwnSession(d)
  BY DEF KeepFacts, KeepOK
<1>2. CASE d # c
  <2>1. UNCHANGED <<pc[d], user[d], upd[d]>>
    BY <1>1, <1>2, HandleIsLocal
  <2>2. CASE Busy(d) /\ upd[d].kind = "logoff"
    <3>1. lock["logged_in_lock"] = d
      BY <1>1, <2>2 DEF Owns, Has, HasSession, Locks
    <3>2. Busy(c) /\ upd[c].kind \in {"login", "logoff"} =>
            lock["logged_in_lock"] = c
      BY <1>1 DEF Owns, Has, HasSession, Locks
    <3>3. UNCHANGED logged_in
      BY <1>2, <3>1, <3>2, SessionsChange
    <3>4. QED
      BY <1>1, <2>1, <3>3 DEF LeavesItsOwnSession, Busy
  <2>3. CASE ~(Busy(d) /\ upd[d].kind = "logoff")
    BY <2>1, <2>3 DEF LeavesItsOwnSession, Busy
  <2>4. QED
    BY <2>2, <2>3
<1>3. CASE d = c
  <2>1. CASE LogoffCheck(c)
    <3>1. UNCHANGED logged_in
      BY <2>1 DEF LogoffCheck, primary
    <3>2. \/ pc'[c] = "idle"
          \/ user'[c] = GetUsername(logged_in, c) /\ IsLoggedIn(c)
      BY <1>1, <2>1 DEF LogoffCheck, RespondOther, Goto, TypeOK
    <3>3. QED
      BY <1>3, <3>1, <3>2, GetUsernameFinds
         DEF LeavesItsOwnSession, IsLoggedIn, Busy
  <2>2. CASE ~LogoffCheck(c)
    <3>1. ~(Busy(c) /\ upd[c].kind = "logoff")'
      <4> USE DEF Busy, Goto, Respond, RespondOther, Replicating, Update,
                  TypeOK, thread
      <4>1. CASE AcquireClients(c) \/ Quit(c) \/ CreateCheck(c)
        BY <1>1, <4>1 DEF AcquireClients, Quit, CreateCheck
      <4>2. CASE CreateAccount(c) \/ CreateApply(c) \/ LogInClients(c)
        BY <1>1, <4>2 DEF CreateAccount, CreateApply, LogInClients
      <4>3. CASE LogInLogged(c) \/ LoginCheck(c) \/ LoginAccount(c)
        BY <1>1, <4>3 DEF LogInLogged, LoginCheck, LoginAccount
      <4>4. CASE LoginApply(c) \/ LogoffApply(c)
        BY <1>1, <4>4 DEF LoginApply, LogoffApply
      <4>5. CASE DeleteAccount(c) \/ DeleteApply(c)
        BY <1>1, <4>5 DEF DeleteAccount, DeleteApply
      <4>6. CASE SendCheck(c) \/ SendRecipient(c) \/ SendApply(c)
        BY <1>1, <4>6 DEF SendCheck, SendRecipient, SendApply
      <4>7. CASE SendQueue(c)
        <5>1. upd'[c].kind = "addmsg"
          BY <1>1, <4>7 DEF SendQueue
        <5>2. QED
          BY <5>1
      <4>8. CASE ListAccounts(c)
        BY <1>1, <4>8 DEF ListAccounts
      <4>9. QED
        BY <2>2, <4>1, <4>2, <4>3, <4>4, <4>5, <4>6, <4>7, <4>8 DEF Handle
    <3>2. QED
      BY <1>3, <3>1 DEF LeavesItsOwnSession
  <2>3. QED
    BY <2>1, <2>2
<1>4. QED
  BY <1>2, <1>3

\* A handler ends no session but its own.
LEMMA HandleLeavesSessions ==
    ASSUME KeepFacts, NEW c \in Clients, Handle(c), NEW d \in Clients, d # c,
           NEW n \in Names, n \notin deleted, logged_in[n] = d
    PROVE  logged_in'[n] = d
<1> USE ThreadsAreDistinct
<1>1. /\ TypeOK /\ KeepOK(c)
  BY DEF KeepFacts
<1>2. CASE /\ Quit(c)
           /\ logged_in' = Logoff(logged_in, GetUsername(logged_in, c))
  BY <1>2, GetUsernameFinds DEF GetUsername, Logoff
<1>3. CASE /\ LoginApply(c) /\ Busy(c) /\ upd[c].kind = "login"
           /\ logged_in' = [logged_in EXCEPT ![req[c].name] = c]
  <2>1. n # req[c].name
    BY <1>1, <1>3 DEF KeepOK, OneClaim, Claims
  <2>2. QED
    BY <1>1, <1>3, <2>1 DEF TypeOK
<1>4. CASE /\ Busy(c) /\ upd[c].kind = "logoff"
           /\ logged_in' = Logoff(logged_in, user[c])
  BY <1>1, <1>4 DEF KeepOK, LeavesItsOwnSession, Logoff
<1>5. QED
  BY <1>2, <1>3, <1>4, SessionsChange

\* What a handler does with its own client's session.
LEMMA HandleKeepsItsSession ==
    ASSUME KeepFacts, NEW c \in Clients, Handle(c), gone \subseteq gone',
           deleted \subseteq deleted'
    PROVE  QuitsIfGone(c)' /\ KeepsSession(c)'
<1>1. /\ TypeOK /\ InStep(c) /\ HandlerPlace(c) /\ QuitsIfGone(c)
      /\ LeavesItsOwnSession(c) /\ RemovesAnAccount(c) /\ UpdateSays(c)
      /\ \A n \in Names : told[c] = n /\ c \notin gone /\ n \notin deleted =>
                             logged_in[n] = c \/ Removing(c)
  BY DEF KeepFacts, KeepOK, KeepsSession
<1> USE ThreadsAreDistinct, <1>1
    DEF TypeOK, InStep, HandlerPlace, QuitsIfGone, KeepsSession, Removing,
        Busy, Acknowledged, Looking, Goto, Respond, RespondOther, Replicating,
        Update, primary, thread, batch, client, history
<1>2. CASE AcquireClients(c)
  BY <1>2 DEF AcquireClients
<1>3. CASE Quit(c)
  <2>1. c \in gone' /\ pc'[c] = "dead"
    BY <1>3 DEF Quit
  <2>2. QED
    BY <2>1
<1>4. CASE CreateCheck(c) \/ CreateAccount(c)
  BY <1>4 DEF CreateCheck, CreateAccount
<1>5. CASE CreateApply(c)
  BY <1>5 DEF CreateApply
<1>6. CASE LogInClients(c) \/ LogInLogged(c)
  BY <1>6 DEF LogInClients, LogInLogged
<1>7. CASE LoginCheck(c) \/ LoginAccount(c)
  BY <1>7 DEF LoginCheck, LoginAccount
<1>8. CASE LoginApply(c)
  BY <1>8 DEF LoginApply
<1>9. CASE LogoffCheck(c)
  <2>1. /\ UNCHANGED <<req, told, logged_in, gone, deleted>>
        /\ req[c].op \in {"logoff", "delete"} /\ ~Removing(c)
        /\ pc'[c] \in {"idle", "ack"}
    BY <1>9 DEF LogoffCheck
  <2>2. QED
    BY <2>1
<1>10. CASE LogoffApply(c)
  <2>1. /\ UNCHANGED <<req, gone, deleted>>
        /\ \/ req[c].op = "logoff" /\ pc'[c] = "idle" /\ told'[c] = None
           \/ req[c].op = "delete" /\ pc'[c] = "account"
    BY <1>10 DEF LogoffApply
  <2>2. QED
    BY <2>1
<1>11. CASE DeleteAccount(c)
  BY <1>11 DEF DeleteAccount
<1>12. CASE DeleteApply(c)
  <2>1. \/ pc'[c] = "idle" /\ told'[c] = None
        \/ c \in gone'
    BY <1>12 DEF DeleteApply
  <2>2. QED
    BY <2>1
<1>13. CASE SendCheck(c) \/ SendRecipient(c) \/ SendApply(c)
  BY <1>13 DEF SendCheck, SendRecipient, SendApply
<1>14. CASE SendQueue(c)
  <2>1. /\ UNCHANGED <<req, told, logged_in, gone, deleted>>
        /\ req[c].op # "delete" /\ pc'[c] = "ack"
    BY <1>14 DEF SendQueue
  <2>2. QED
    BY <2>1
<1>15. CASE ListAccounts(c)
  BY <1>15 DEF ListAccounts
<1>16. QED
  BY <1>2, <1>3, <1>4, <1>5, <1>6, <1>7, <1>8, <1>9, <1>10, <1>11, <1>12,
     <1>13, <1>14, <1>15 DEF Handle

LEMMA NextKeep == KeepInv /\ [Next]_vars => KeepInv'
<1> SUFFICES ASSUME KeepInv, [Next]_vars
             PROVE  KeepInv'
  OBVIOUS
<1> USE ThreadsAreDistinct
<1>1. UpdatesInv' /\ AccountsInv'
  BY NextUpdates, NextAccounts DEF KeepInv
<1>2. KeepFacts
  BY KeepInvHasFacts
<1>3. TypeOK /\ \A c \in Clients : KeepOK(c)
  BY <1>2 DEF KeepFacts
<1>4. gone \subseteq gone' /\ deleted \subseteq deleted'
  BY <1>3, GoneGrows, DeletedGrows
<1>5. ASSUME NEW c \in Clients, Handle(c)
      PROVE  KeepInv'
  <2>1. \A d \in Clients : OneClaim(d)' /\ LeavesItsOwnSession(d)'
    BY <1>2, <1>4, <1>5, HandleKeepsClaims, HandleKeepsLogoffs
  <2>2. QuitsIfGone(c)' /\ KeepsSession(c)'
    BY <1>2, <1>4, <1>5, HandleKeepsItsSession
  <2>3. ASSUME NEW d \in Clients, d # c
        PROVE  QuitsIfGone(d)' /\ KeepsSession(d)'
    <3>1. UNCHANGED <<pc[d], user[d], upd[d], req[d], told[d]>>
      BY <1>3, <1>5, <2>3, HandleIsLocal, HandleKeepsOtherSessions
    <3>2. \A n \in Names : n \notin deleted /\ logged_in[n] = d =>
                              logged_in'[n] = d
      BY <1>2, <1>5, <2>3, HandleLeavesSessions
    <3>3. QuitsIfGone(d) /\ KeepsSession(d)
      BY <1>3 DEF KeepOK
    <3>4. QED
      BY <1>4, <3>1, <3>2, <3>3 DEF QuitsIfGone, KeepsSession, Removing, Busy
  <2>4. QED
    BY <1>1, <2>1, <2>2, <2>3 DEF KeepInv, KeepOK
<1>6. ASSUME UNCHANGED <<logged_in, told>>,
             \A c \in Clients :
                 \/ UNCHANGED <<pc[c], user[c], upd[c], req[c]>>
                 \/ UNCHANGED <<user[c], upd[c], req[c]>>
                    /\ Busy(c) /\ Busy(c)'
                 \/ /\ pc[c] \in {"new", "idle"} /\ QuitsIfGone(c)'
                    /\ \/ pc'[c] \in {"idle", "clients"}
                       \/ pc'[c] = "account" /\ req'[c].op = "list"
      PROVE  KeepInv'
  <2>1. \A d \in Clients, n \in Names : Claims(d, n)' => Claims(d, n)
    BY <1>6 DEF Claims, Busy
  <2>2. \A d \in Clients : OneClaim(d)'
    BY <1>3, <1>4, <1>6, <2>1, ClaimsPersist DEF KeepOK
  <2>3. ASSUME NEW d \in Clients
        PROVE  LeavesItsOwnSession(d)' /\ QuitsIfGone(d)' /\ KeepsSession(d)'
    <3>1. LeavesItsOwnSession(d) /\ QuitsIfGone(d) /\ KeepsSession(d)
      BY <1>3 DEF KeepOK
    <3>2. CASE UNCHANGED <<pc[d], user[d], upd[d], req[d]>>
      BY <1>4, <1>6, <3>1, <3>2
         DEF LeavesItsOwnSession, QuitsIfGone, KeepsSession, Removing, Busy
    <3>3. CASE UNCHANGED <<user[d], upd[d], req[d]>> /\ Busy(d) /\ Busy(d)'
      BY <1>4, <1>6, <3>1, <3>3
         DEF LeavesItsOwnSession, QuitsIfGone, KeepsSession, Removing, Busy
    <3>4. CASE /\ pc[d] \in {"new", "idle"} /\ QuitsIfGone(d)'
               /\ \/ pc'[d] \in {"idle", "clients"}
                  \/ pc'[d] = "account" /\ req'[d].op = "list"
      BY <1>4, <1>6, <3>1, <3>4
         DEF LeavesItsOwnSession, KeepsSession, Removing, Busy
    <3>5. QED
      BY <1>6, <3>2, <3>3, <3>4
  <2>4. QED
    BY <1>1, <2>2, <2>3 DEF KeepInv, KeepOK
<1>7. ASSUME NEW c \in Clients,
             Register(c) \/ Close(c) \/ Receive(c) \/ HangUp(c)
      PROVE  KeepInv'
  <2>1. UNCHANGED <<logged_in, told>>
    BY <1>7 DEF Register, Close, Receive, HangUp, primary, client
  <2>2. CASE Close(c)
    BY <1>6, <2>1, <2>2 DEF Close, thread
  <2>3. CASE Register(c) \/ Receive(c) \/ HangUp(c)
    <3>1. /\ pc[c] \in {"new", "idle"}
          /\ \/ pc'[c] \in {"idle", "clients"}
             \/ pc'[c] = "account" /\ req'[c].op = "list"
      BY <1>3, <2>3 DEF Register, Receive, HangUp, Goto, TypeOK
    <3>2. QuitsIfGone(c)'
      <4>1. Register(c) => QuitsIfGone(c)'
        BY <1>3 DEF Register, Goto, QuitsIfGone, TypeOK
      <4>2. Receive(c) => QuitsIfGone(c)'
        BY <1>3, RequestsAreTyped DEF Receive, Goto, QuitsIfGone, TypeOK
      <4>3. HangUp(c) => QuitsIfGone(c)'
        BY <1>3, <1>4 DEF HangUp, Goto, QuitsIfGone, TypeOK
      <4>4. QED
        BY <2>3, <4>1, <4>2, <4>3
    <3>3. QED
      BY <1>3, <1>6, <1>7, <2>1, <3>1, <3>2, ConnectionIsLocal
  <2>4. QED
    BY <1>7, <2>2, <2>3
<1>8. ASSUME NEW t \in Threads, Round(t)
      PROVE  KeepInv'
  <2>1. UNCHANGED <<logged_in, told>>
    BY <1>8 DEF Round, AcquireAck, AcquireOther, Replicate, primary, client
  <2>2. QED
    BY <1>3, <1>6, <1>8, <2>1, RoundIsLocal
<1>9. CASE Deliver
  <2>1. UNCHANGED <<logged_in, told>>
    BY <1>9 DEF Deliver, DeliveryStart, DeliveryNext, DeliverySleep,
       DeliveryVisit, DeliverySend, DeliveryUpdate, DeliveryApply, primary,
       client
  <2>2. QED
    BY <1>3, <1>6, <1>9, <2>1, DeliverIsLocal
<1>10. ASSUME NEW r \in Replicas, NEW d \in Clients,
              RepRegister(r, d) \/ RepHangUp(r, d)
       PROVE  KeepInv'
  BY <1>6, <1>10, ReplicaIsLocal DEF thread, primary, client
<1>11. CASE UNCHANGED vars
  BY <1>6, <1>11 DEF vars, thread, primary, client
<1>12. QED
  BY <1>5, <1>7, <1>8, <1>9, <1>10, <1>11 DEF Next

LEMMA InitKeep == Init => KeepInv
BY InitUpdates, InitAccountsInv, ThreadsAreDistinct
   DEF Init, KeepInv, KeepOK, OneClaim, Claims, LeavesItsOwnSession,
       QuitsIfGone, KeepsSession, Busy

LEMMA KeepInvariant == Spec => []KeepInv
BY InitKeep, NextKeep, PTL DEF Spec

\* A client that was told it is logged in to an account is, until it leaves or
\* the account is deleted: no other client's request ends its session.
THEOREM NobodyLosesASession == Spec => []ClientsKeepTheirSession
<1>1. KeepInv => ClientsKeepTheirSession
  BY DEF KeepInv, KeepOK, KeepsSession, Removing, Busy, ClientsKeepTheirSession
<1>2. QED
  BY <1>1, KeepInvariant, PTL

-----------------------------------------------------------------------------
(* The replicas' tables of sessions.  A replica logs a client that has left  *)
(* off by itself; the primary does not tell it, nor does it ask.             *)

SameSession(r, n) ==
    \/ repLogged[r][n] = logged_in[n]
    \/ {repLogged[r][n], logged_in[n]} \subseteq gone \cup {None}

\* What a replica has for a name: the session being started or ended, as soon
\* as it has heard of it, or else the primary's.
FollowsSession(r, n) ==
    /\ \A t \in Threads :
          InRound(t) /\ r \notin pend[t] /\ upd[t].name = n =>
              /\ upd[t].kind = "login" =>
                    \/ repLogged[r][n] = upd[t].uuid
                    \/ upd[t].uuid \in gone /\ repLogged[r][n] = None
              /\ upd[t].kind = "logoff" => repLogged[r][n] = None
    /\ ~Applied(r, "login", n) /\ ~Applied(r, "logoff", n) => SameSession(r, n)

SessionsFollow == \A r \in repUp, n \in Names : FollowsSession(r, n)

LEMMA RepHangUpEndsASession ==
    ASSUME TypeOK, NEW s \in Replicas, NEW c \in Clients, RepHangUp(s, c),
           NEW r \in Replicas, NEW n \in Names
    PROVE  /\ c \in gone
           /\ \/ repLogged'[r][n] = repLogged[r][n]
              \/ repLogged[r][n] = c /\ repLogged'[r][n] = None
<1> USE ThreadsAreDistinct DEF TypeOK
<1>1. CASE UNCHANGED repLogged
  BY <1>1 DEF RepHangUp
<1>2. CASE repLogged' = [repLogged EXCEPT ![s] =
                           Logoff(@, GetUsername(@, c))]
  <2>1. \A m \in Names : m = GetUsername(repLogged[s], c) =>
                           repLogged[s][m] = c
    BY GetUsernameFinds DEF GetUsername
  <2>2. Logoff(repLogged[s], GetUsername(repLogged[s], c))[n] =
           IF n = GetUsername(repLogged[s], c) THEN None ELSE repLogged[s][n]
    BY DEF Logoff
  <2>3. QED
    BY <1>2, <2>1, <2>2 DEF RepHangUp
<1>3. QED
  BY <1>1, <1>2 DEF RepHangUp

LEMMA NextSessionsFollow ==
    ASSUME KeepInv, SessionsFollow, [Next]_vars
    PROVE  SessionsFollow'
<1> USE ThreadsAreDistinct
<1>1. /\ LocksInv /\ TypeOK /\ OneRoundAtATime /\ DeliveryRuns
      /\ \A t \in Threads : Owns(t)
      /\ \A c \in Clients : UpdateSays(c) /\ QuitsIfGone(c) /\ KeepOK(c)
                            /\ InStep(c)
  BY KeepInvHasFacts
     DEF KeepInv, KeepFacts, KeepOK, UpdatesInv, LocksInv, Owns, Has, Locks,
         OneRoundAtATime
<1>2. gone \subseteq gone'
  BY <1>1, GoneGrows
<1>3. SUFFICES ASSUME NEW r \in repUp', NEW n \in Names
               PROVE  FollowsSession(r, n)'
  BY DEF SessionsFollow
<1>4. repUp' \subseteq Replicas
  <2>1. TypeOK'
    BY NextType DEF KeepInv, AccountsInv
  <2>2. QED
    BY <2>1 DEF TypeOK
<1>5. r \in repUp => FollowsSession(r, n)
  BY DEF SessionsFollow
<1>6. ASSUME NEW t \in Threads, AcquireOther(t)
      PROVE  FollowsSession(r, n)'
  <2>1. UNCHANGED <<logged_in, repLogged, repUp, gone>>
    BY <1>6 DEF AcquireOther, primary, replica, client
  <2>2. \A kind : ~Applied(r, kind, n) /\ ~Applied(r, kind, n)'
    BY <1>1, <1>6, <2>1, RoundOpens
  <2>3. SameSession(r, n)'
    BY <1>5, <2>1, <2>2 DEF FollowsSession, SameSession
  <2>4. QED
    BY <2>2, <2>3 DEF FollowsSession, Applied, InRound
<1>7. ASSUME NEW t \in Threads, NEW s \in Replicas, Replicate(t, s)
      PROVE  FollowsSession(r, n)'
  <2>1. /\ UNCHANGED <<logged_in, pc, upd, gone>>
        /\ InRound(t) /\ s \in pend[t]
        /\ pend' = [pend EXCEPT ![t] = @ \ {s}]
        /\ r \in repUp
    BY <1>1, <1>7
       DEF Replicate, InRound, primary, replica, thread, client, TypeOK,
           ProcessUpdateAccounts, ProcessUpdateLogin, ProcessUpdateMessages
  <2>2. /\ \A u \in Threads : InRound(u) => u = t
        /\ \A kind : /\ Applied(r, kind, n) <=> /\ r \notin pend[t]
                                                /\ upd[t].kind = kind
                                                /\ upd[t].name = n
                     /\ Applied(r, kind, n)' <=> /\ r \notin pend'[t]
                                                 /\ upd[t].kind = kind
                                                 /\ upd[t].name = n
    BY <1>1, <2>1, AppliedInRound
       DEF Applied, InRound, OneRoundAtATime
  <2>3. CASE r # s
    <3>1. repLogged'[r] = repLogged[r]
      BY <1>1, <1>4, <1>7, <2>3
         DEF Replicate, ProcessUpdateAccounts, ProcessUpdateLogin,
             ProcessUpdateMessages, replica, TypeOK
    <3>2. r \in pend'[t] <=> r \in pend[t]
      BY <1>1, <2>1, <2>3 DEF TypeOK
    <3>3. QED
      BY <1>5, <2>1, <2>2, <3>1, <3>2
         DEF FollowsSession, SameSession, InRound
  <2>4. CASE r = s
    <3>1. r \in pend[t] /\ r \notin pend'[t]
      BY <1>1, <2>1, <2>4 DEF TypeOK
    <3>2. SameSession(r, n)
      BY <1>5, <2>1, <2>2, <3>1 DEF FollowsSession
    <3>3. CASE ProcessUpdateLogin(r, upd[t])
      <4>1. /\ upd[t].kind \in {"login", "logoff"}
            /\ repLogged' = [repLogged EXCEPT ![r] =
                  IF upd[t].kind = "login"
                  THEN [@ EXCEPT ![upd[t].name] = upd[t].uuid]
                  ELSE Logoff(@, upd[t].name)]
        BY <3>3 DEF ProcessUpdateLogin
      <4>2. /\ repLogged \in [Replicas -> [Names -> Clients \cup {None}]]
            /\ r \in Replicas
        BY <1>1, <1>4 DEF TypeOK
      <4>3. /\ upd[t].name # n => repLogged'[r][n] = repLogged[r][n]
            /\ upd[t].name = n /\ upd[t].kind = "login" =>
                  repLogged'[r][n] = upd[t].uuid
            /\ upd[t].name = n /\ upd[t].kind = "logoff" =>
                  repLogged'[r][n] = None
        BY <4>1, <4>2 DEF Logoff
      <4>4. CASE upd[t].name # n
        BY <2>1, <2>2, <3>2, <4>3, <4>4
           DEF FollowsSession, SameSession, InRound
      <4>5. CASE upd[t].name = n
        BY <2>1, <2>2, <3>1, <4>1, <4>3, <4>5 DEF FollowsSession, InRound
      <4>6. QED
        BY <4>4, <4>5
    <3>4. CASE \/ ProcessUpdateAccounts(r, upd[t])
               \/ ProcessUpdateMessages(r, upd[t])
      <4>1. /\ UNCHANGED repLogged
            /\ upd[t].kind \notin {"login", "logoff"}
        BY <3>4 DEF ProcessUpdateAccounts, ProcessUpdateMessages
      <4>2. QED
        BY <2>1, <2>2, <3>2, <4>1 DEF FollowsSession, SameSession, InRound
    <3>5. QED
      BY <1>7, <2>1, <2>4, <3>3, <3>4 DEF Replicate
  <2>5. QED
    BY <2>3, <2>4
<1>8. ASSUME NEW t \in Threads, InRound(t), pend[t] = {}, ~InRound(t)',
             \A s \in Threads \ {t} : UNCHANGED pc[s],
             UNCHANGED <<repLogged, repUp>>,
             \/ /\ upd[t].kind = "login" /\ upd[t].name \in Names
                /\ logged_in' = [logged_in EXCEPT ![upd[t].name] = upd[t].uuid]
             \/ /\ upd[t].kind = "logoff"
                /\ logged_in' = Logoff(logged_in, upd[t].name)
             \/ /\ upd[t].kind \notin {"login", "logoff"}
                /\ UNCHANGED logged_in
      PROVE  FollowsSession(r, n)'
  <2>1. /\ \A s \in Threads : ~InRound(s)'
        /\ \A kind : /\ Applied(r, kind, n) <=> /\ upd[t].kind = kind
                                                /\ upd[t].name = n
                     /\ ~Applied(r, kind, n)'
    BY <1>1, <1>8, RoundCloses DEF OneRoundAtATime, InRound
  <2>2. /\ logged_in \in [Names -> Clients \cup {None}] /\ r \notin pend[t]
    BY <1>1, <1>8 DEF TypeOK
  <2>3. SameSession(r, n)'
    <3>1. CASE upd[t].kind = "login" /\ upd[t].name = n
      BY <1>2, <1>5, <1>8, <2>2, <3>1 DEF FollowsSession, SameSession
    <3>2. CASE upd[t].kind = "logoff" /\ upd[t].name = n
      BY <1>2, <1>5, <1>8, <2>2, <3>2 DEF FollowsSession, SameSession, Logoff
    <3>3. CASE ~(upd[t].kind \in {"login", "logoff"} /\ upd[t].name = n)
      <4>1. logged_in'[n] = logged_in[n] /\ repLogged'[r][n] = repLogged[r][n]
        BY <1>8, <2>2, <3>3 DEF Logoff
      <4>2. SameSession(r, n)
        BY <1>5, <1>8, <2>1, <3>3 DEF FollowsSession
      <4>3. QED
        BY <1>2, <4>1, <4>2 DEF SameSession
    <3>4. QED
      BY <3>1, <3>2, <3>3
  <2>4. QED
    BY <2>1, <2>3 DEF FollowsSession
<1>9. ASSUME NEW c \in Clients, Closes(c)
      PROVE  FollowsSession(r, n)'
  <2>1. /\ InRound(c) /\ pend[c] = {} /\ ~InRound(c)'
        /\ \A s \in Threads \ {c} : UNCHANGED pc[s]
        /\ UNCHANGED <<repLogged, repUp>>
    BY <1>1, <1>9, ClosingEndsARound DEF replica
  <2>2. UpdateSays(c) /\ InStep(c) /\ Busy(c)
    BY <1>1, <2>1 DEF InRound, Busy
  <2>3. CASE LoginApply(c)
    BY <1>8, <2>1, <2>2, <2>3
       DEF LoginApply, Acknowledged, UpdateSays, InStep
  <2>4. CASE LogoffApply(c)
    BY <1>8, <2>1, <2>2, <2>4 DEF LogoffApply, Acknowledged, UpdateSays
  <2>5. CASE CreateApply(c) \/ DeleteApply(c) \/ SendApply(c)
    <3>1. UNCHANGED logged_in /\ upd[c].kind \notin {"login", "logoff"}
      BY <2>5 DEF CreateApply, DeleteApply, SendApply, Acknowledged
    <3>2. QED
      BY <1>8, <2>1, <3>1
  <2>6. QED
    BY <1>9, <2>3, <2>4, <2>5 DEF Closes
<1>10. CASE DeliveryApply
  BY <1>1, <1>8, <1>10, DeliveryEndsARound DEF replica
<1>11. ASSUME Quiet,
              \/ repLogged'[r][n] = repLogged[r][n]
              \/ repLogged[r][n] \in gone /\ repLogged'[r][n] = None,
              \/ logged_in'[n] = logged_in[n]
              \/ logged_in[n] \in gone /\ logged_in'[n] = None
       PROVE  FollowsSession(r, n)'
  <2>1. r \in repUp /\ FollowsSession(r, n)
    BY <1>5, <1>11 DEF Quiet
  <2>2. \A kind : Applied(r, kind, n)' <=> Applied(r, kind, n)
    BY <1>11, QuietKeepsApplied DEF Quiet
  <2>3. SameSession(r, n) => SameSession(r, n)'
    BY <1>2, <1>11 DEF SameSession
  <2>4. ASSUME NEW t \in Threads, InRound(t)', r \notin pend'[t],
               upd'[t].name = n
        PROVE  /\ upd'[t].kind = "login" =>
                     \/ repLogged'[r][n] = upd'[t].uuid
                     \/ upd'[t].uuid \in gone' /\ repLogged'[r][n] = None
               /\ upd'[t].kind = "logoff" => repLogged'[r][n] = None
    <3>1. InRound(t) /\ UNCHANGED <<upd[t], pend[t]>>
      BY <1>11, <2>4 DEF Quiet, RoundsUnchanged
    <3>2. QED
      BY <1>2, <1>11, <2>1, <2>4, <3>1 DEF FollowsSession
  <2>5. QED
    BY <2>1, <2>2, <2>3, <2>4 DEF FollowsSession
<1>12. ASSUME Quiet, UNCHANGED repLogged, NEW c \in Clients, Quit(c)
       PROVE  FollowsSession(r, n)'
  <2>1. c \in gone
    BY <1>1, <1>12 DEF QuitsIfGone, Quit, Looking
  <2>2. logged_in'[n] = logged_in[n] \/ (logged_in[n] = c /\ logged_in'[n] = None)
    <3>1. \A m \in Names : m = GetUsername(logged_in, c) => logged_in[m] = c
      BY GetUsernameFinds DEF GetUsername
    <3>2. QED
      BY <1>12, <3>1 DEF Quit, Logoff
  <2>3. QED
    BY <1>11, <1>12, <2>1, <2>2
<1>13. ASSUME Quiet, NEW s \in Replicas, NEW c \in Clients, RepHangUp(s, c)
       PROVE  FollowsSession(r, n)'
  <2>1. UNCHANGED logged_in
    BY <1>13 DEF RepHangUp, primary
  <2>2. QED
    BY <1>1, <1>4, <1>11, <1>13, <2>1, RepHangUpEndsASession
<1>14. CASE Quiet /\ UNCHANGED <<logged_in, repLogged>>
  BY <1>11, <1>14
<1>15. QED
  BY <1>1, <1>6, <1>7, <1>9, <1>10, <1>12, <1>13, <1>14, StepsAndRounds

\* A replica's table of sessions is the primary's, but for the session of the
\* round in progress and for clients that have left.
THEOREM ReplicasKnowTheSessions == Spec => []SessionsInSync
<1>1. Init => SessionsFollow
  BY ThreadsAreDistinct
     DEF Init, SessionsFollow, FollowsSession, SameSession, InRound
<1>2. KeepInv /\ SessionsFollow /\ [Next]_vars => SessionsFollow'
  BY NextSessionsFollow
<1>3. SessionsFollow => SessionsInSync
  BY DEF SessionsFollow, FollowsSession, SameSession, SessionsInSync, Applied
<1>4. QED
  BY <1>1, <1>2, <1>3, KeepInvariant, PTL DEF Spec

=============================================================================
