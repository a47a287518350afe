-------------------------- MODULE ChatServerProofs --------------------------
(***************************************************************************)
(* Types, the list of accounts, the table of sessions and the locks of     *)
(* ChatServer, for any clients, names, texts and replicas, and any number  *)
(* of requests.                                                            *)
(***************************************************************************)
EXTENDS ChatServer, TLAPS

LEMMA ThreadsAreDistinct ==
    /\ Delivery \in Threads /\ Clients \subseteq Threads
    /\ None \notin Threads /\ None \notin Names /\ None \notin Clients
    /\ Delivery \notin Clients
    /\ \A t \in Threads : t \in Clients \/ t = Delivery
BY Assumptions DEF Threads

\* TypeOK alone is not inductive: a name is used as an index where the code
\* path that leads there guarantees that it is one.  The delivery loop looks up
\* recipients it has taken from the dict, requests that name an account have an
\* argument, and what a handler replicates belongs to its request.
VisitsAName == pc[Delivery] = "logged" => user[Delivery] \in Names

Busy(t) == pc[t] \in {"ack", "other", "round"}

InStep(c) ==
    /\ req[c].op \in {"create", "login", "send"} => req[c].name \in Names
    /\ pc[c] = "undelivered" => req[c].op = "send"
    /\ pc[c] \in {"clients2", "logged2"} => req[c].op = "create"
    /\ Busy(c) => \/ req[c].op = "create" /\ upd[c].kind \in {"create", "login"}
                  \/ req[c].op = "delete" /\ upd[c].kind \in {"logoff", "remove"}
                  \/ req[c].op = "login" /\ upd[c].kind = "login"
                  \/ req[c].op = "logoff" /\ upd[c].kind = "logoff"
                  \/ req[c].op = "send" /\ upd[c].kind = "addmsg"

HandlersInStep == \A c \in Clients : InStep(c)

TypeInv == TypeOK /\ VisitsAName /\ HandlersInStep

LEMMA UpdateIsTyped ==
    ASSUME NEW kind \in {"none", "create", "remove", "login", "logoff",
                         "addmsg", "setmsgs"},
           NEW name \in Names \cup {None}, NEW uuid \in Clients \cup {None},
           NEW msgs \in Seq(Message)
    PROVE  Update(kind, name, uuid, msgs) \in UpdateType
BY DEF Update, UpdateType

\* The updates a handler thread and the delivery thread send.
LEMMA UpdatesAreTyped ==
    ASSUME TypeOK, NEW c \in Clients, NEW name \in Names \cup {None}
    PROVE  /\ Update("create", req[c].name, None, <<>>) \in UpdateType
           /\ Update("login", req[c].name, c, <<>>) \in UpdateType
           /\ Update("logoff", name, c, <<>>) \in UpdateType
           /\ Update("remove", user[c], None, <<>>) \in UpdateType
           /\ Update("addmsg", req[c].name, None,
                     <<[from |-> user[c], text |-> req[c].text]>>)
                \in UpdateType
<1>1. /\ req[c].name \in Names \cup {None} /\ req[c].text \in Texts
      /\ user[c] \in Names \cup {None}
  BY ThreadsAreDistinct DEF TypeOK
<1>2. <<[from |-> user[c], text |-> req[c].text]>> \in Seq(Message)
  BY <1>1 DEF Message
<1>3. <<>> \in Seq(Message)
  OBVIOUS
<1>4. QED
  BY <1>1, <1>2, <1>3, UpdateIsTyped

LEMMA DeliveryUpdateIsTyped ==
    TypeOK => Update("setmsgs", user[Delivery], None, refused) \in UpdateType
BY ThreadsAreDistinct, UpdateIsTyped DEF TypeOK

LEMMA MessagesAreTyped ==
    ASSUME TypeOK, NEW t \in Threads
    PROVE  upd[t].msgs \in Seq(Message)
BY DEF TypeOK, UpdateType

LEMMA GetUsernameIsTyped ==
    ASSUME NEW table, NEW c
    PROVE  GetUsername(table, c) \in Names \cup {None}
BY DEF GetUsername

LEMMA LogoffIsTyped ==
    ASSUME NEW table \in [Names -> Clients \cup {None}], NEW name
    PROVE  Logoff(table, name) \in [Names -> Clients \cup {None}]
BY DEF Logoff

LEMMA RequestsAreTyped ==
    \A q \in Requests :
        q \in [op : AllOps \ {"quit"}, name : Names \cup {None}, text : Texts]
BY Assumptions DEF Requests, AllOps

LEMMA RequestsAreNamed ==
    \A q \in Requests : q.op \in {"create", "login", "send"} => q.name \in Names
BY DEF Requests

LEMMA PhantomIsTyped == Phantom \in Message
BY Assumptions DEF Phantom, Message

LEMMA NoUpdateIsTyped == NoUpdate \in UpdateType
BY DEF NoUpdate, Update, UpdateType

LEMMA InitType == Init => TypeOK
BY Assumptions, ThreadsAreDistinct, NoUpdateIsTyped
   DEF Init, TypeOK, QuitRequest, AllOps, Labels

LEMMA GotoIsTyped ==
    ASSUME TypeOK, NEW t, NEW label \in Labels, Goto(t, label)
    PROVE  pc' \in [Threads -> Labels]
BY DEF TypeOK, Goto

LEMMA AcquireIsTyped ==
    ASSUME TypeOK, NEW t \in Threads, NEW l, Acquire(t, l)
    PROVE  lock' \in [Locks -> Threads \cup {None}]
BY DEF TypeOK, Acquire

LEMMA ReleaseIsTyped ==
    ASSUME TypeOK, NEW held, Release(held)
    PROVE  lock' \in [Locks -> Threads \cup {None}]
BY DEF TypeOK, Release

LEMMA ReplicatingIsTyped ==
    ASSUME TypeOK, NEW t, NEW u \in UpdateType, Replicating(t, u)
    PROVE  /\ pc' \in [Threads -> Labels]
           /\ upd' \in [Threads -> UpdateType]
BY DEF TypeOK, Replicating, Goto, Labels

LEMMA RespondIsTyped ==
    ASSUME TypeOK, NEW c, NEW name \in Names \cup {None}, Respond(c, name)
    PROVE  /\ pc' \in [Threads -> Labels]
           /\ told' \in [Clients -> Names \cup {None}]
BY DEF TypeOK, Respond, Goto, Labels

LEMMA RespondOtherIsTyped ==
    ASSUME TypeOK, NEW c, RespondOther(c)
    PROVE  pc' \in [Threads -> Labels] /\ told' = told
BY DEF TypeOK, RespondOther, Goto, Labels

LEMMA CountIsTyped ==
    ASSUME NEW f \in [Names -> Nat], NEW n
    PROVE  /\ [f EXCEPT ![n] = @ + 1] \in [Names -> Nat]
           /\ f[n] > 0 => [f EXCEPT ![n] = @ - 1] \in [Names -> Nat]
<1>1. CASE n \in Names
  BY <1>1
<1>2. CASE n \notin Names
  BY <1>2
<1>3. QED
  BY <1>1, <1>2

LEMMA SequenceIsTyped ==
    ASSUME NEW f \in [Names -> Seq(Message)], NEW n, NEW msgs \in Seq(Message)
    PROVE  /\ [f EXCEPT ![n] = @ \o msgs] \in [Names -> Seq(Message)]
           /\ [f EXCEPT ![n] = msgs] \in [Names -> Seq(Message)]
<1>1. CASE n \in Names
  BY <1>1
<1>2. CASE n \notin Names
  BY <1>2
<1>3. QED
  BY <1>1, <1>2

LEMMA AppendIsTyped ==
    ASSUME NEW f \in [Names -> Seq(Message)], NEW n, NEW m \in Message
    PROVE  [f EXCEPT ![n] = Append(@, m)] \in [Names -> Seq(Message)]
<1>1. CASE n \in Names
  BY <1>1
<1>2. CASE n \notin Names
  BY <1>2
<1>3. QED
  BY <1>1, <1>2

\* What a replica's handler leaves behind.
LEMMA ReplicaAccountsAreTyped ==
    ASSUME TypeOK, NEW r \in Replicas, NEW u, ProcessUpdateAccounts(r, u)
    PROVE  /\ repAccounts' \in [Replicas -> [Names -> Nat]]
           /\ repUp' \subseteq Replicas
           /\ repLeaked' \in [Replicas -> SUBSET Locks]
           /\ UNCHANGED <<repLogged, repMsgs, repConn>>
<1>1. repAccounts \in [Replicas -> [Names -> Nat]]
      /\ repAccounts[r] \in [Names -> Nat]
  BY DEF TypeOK
<1>2. /\ [repAccounts[r] EXCEPT ![u.name] = @ + 1] \in [Names -> Nat]
      /\ repAccounts[r][u.name] > 0 =>
           [repAccounts[r] EXCEPT ![u.name] = @ - 1] \in [Names -> Nat]
  BY <1>1, CountIsTyped
<1>3. repAccounts' \in [Replicas -> [Names -> Nat]]
  BY <1>1, <1>2 DEF ProcessUpdateAccounts
<1>4. repUp' \subseteq Replicas
  <2>1. repUp \subseteq Replicas /\ (repUp' = repUp \/ repUp' = repUp \ {r})
    BY DEF TypeOK, ProcessUpdateAccounts
  <2>2. QED
    BY ONLY <2>1
<1>5. repLeaked' \in [Replicas -> SUBSET Locks]
  <2>1. /\ repLeaked \in [Replicas -> SUBSET Locks]
        /\ \/ repLeaked' = repLeaked
           \/ repLeaked' = [repLeaked EXCEPT ![r] =
                               @ \cup {"account_list_lock"}]
    BY DEF TypeOK, ProcessUpdateAccounts
  <2>2. QED
    BY ONLY <2>1 DEF Locks
<1>6. QED
  BY <1>3, <1>4, <1>5 DEF ProcessUpdateAccounts

LEMMA ReplicaSessionsAreTyped ==
    ASSUME TypeOK, NEW r \in Replicas, NEW u \in UpdateType,
           ProcessUpdateLogin(r, u)
    PROVE  /\ repLogged' \in [Replicas -> [Names -> Clients \cup {None}]]
           /\ UNCHANGED <<repAccounts, repMsgs, repUp, repConn, repLeaked>>
<1>1. /\ repLogged \in [Replicas -> [Names -> Clients \cup {None}]]
      /\ repLogged[r] \in [Names -> Clients \cup {None}]
  BY DEF TypeOK
<1>2. Logoff(repLogged[r], u.name) \in [Names -> Clients \cup {None}]
  BY <1>1, LogoffIsTyped
<1>3. [repLogged[r] EXCEPT ![u.name] = u.uuid] \in [Names -> Clients \cup {None}]
  BY <1>1 DEF UpdateType
<1>4. QED
  BY <1>1, <1>2, <1>3 DEF ProcessUpdateLogin

LEMMA ReplicaMessagesAreTyped ==
    ASSUME TypeOK, NEW r \in Replicas, NEW u \in UpdateType,
           ProcessUpdateMessages(r, u)
    PROVE  /\ repMsgs' \in [Replicas -> [Names -> Seq(Message)]]
           /\ repUp' \subseteq Replicas
           /\ UNCHANGED <<repAccounts, repLogged, repConn, repLeaked>>
<1>1. /\ repMsgs \in [Replicas -> [Names -> Seq(Message)]]
      /\ repMsgs[r] \in [Names -> Seq(Message)]
      /\ u.msgs \in Seq(Message)
  BY DEF TypeOK, UpdateType
<1>2. <<Phantom>> \in Seq(Message)
  BY PhantomIsTyped
<1>3. /\ [repMsgs[r] EXCEPT ![u.name] = @ \o u.msgs] \in [Names -> Seq(Message)]
      /\ [repMsgs[r] EXCEPT ![u.name] = IF u.msgs = <<>> THEN <<Phantom>>
                                        ELSE u.msgs] \in [Names -> Seq(Message)]
  BY <1>1, <1>2, SequenceIsTyped
<1>4. repMsgs' \in [Replicas -> [Names -> Seq(Message)]]
  BY <1>1, <1>3 DEF ProcessUpdateMessages
<1>5. QED
  BY <1>4 DEF ProcessUpdateMessages, TypeOK

\* Every variable keeps its type.
LEMMA NextType == TypeInv /\ [Next]_vars => TypeOK'
<1> SUFFICES ASSUME TypeOK, VisitsAName, HandlersInStep, [Next]_vars
             PROVE  TypeOK'
  BY DEF TypeInv
<1> USE ThreadsAreDistinct
    DEF TypeOK, primary, replica, thread, batch, client, history
<1>1. ASSUME NEW c \in Clients, Register(c)
      PROVE  TypeOK'
  BY <1>1, GotoIsTyped DEF Register, Labels
<1>2. ASSUME NEW c \in Clients, Close(c)
      PROVE  TypeOK'
  BY <1>2 DEF Close
<1>3. ASSUME NEW c \in Clients, Receive(c)
      PROVE  TypeOK'
  <2>1. PICK q \in Requests : /\ req' = [req EXCEPT ![c] = q]
                              /\ Goto(c, IF q.op = "list" THEN "account"
                                         ELSE "clients")
    BY <1>3 DEF Receive
  <2>2. q \in [op : AllOps, name : Names \cup {None}, text : Texts]
    BY RequestsAreTyped
  <2>3. req' \in [Clients ->
                    [op : AllOps, name : Names \cup {None}, text : Texts]]
    BY <2>1, <2>2
  <2>4. pc' \in [Threads -> Labels]
    BY <2>1, GotoIsTyped DEF Labels
  <2>5. requests' \in 0 .. MaxRequests
    BY <1>3, Assumptions DEF Receive
  <2>6. QED
    BY <1>3, <2>3, <2>4, <2>5 DEF Receive
<1>4. ASSUME NEW c \in Clients, HangUp(c)
      PROVE  TypeOK'
  BY <1>4, GotoIsTyped, Assumptions DEF HangUp, Labels, QuitRequest, AllOps
<1>5. ASSUME NEW c \in Clients, AcquireClients(c)
      PROVE  TypeOK'
  BY <1>5, AcquireIsTyped, GotoIsTyped DEF AcquireClients, Labels
<1>6. ASSUME NEW c \in Clients, Quit(c)
      PROVE  TypeOK'
  <2>1. lock' \in [Locks -> Threads \cup {None}]
    BY <1>6, ReleaseIsTyped, AcquireIsTyped DEF Quit
  <2>2. pc' \in [Threads -> Labels]
    BY <1>6, GotoIsTyped DEF Quit, Labels
  <2>3. Logoff(logged_in, GetUsername(logged_in, c))
           \in [Names -> Clients \cup {None}]
    BY LogoffIsTyped
  <2>4. clients \ {c} \subseteq Clients
    OBVIOUS
  <2>5. QED
    BY <1>6, <2>1, <2>2, <2>3, <2>4 DEF Quit
<1>7. ASSUME NEW c \in Clients, CreateCheck(c)
      PROVE  TypeOK'
  BY <1>7, ReleaseIsTyped, GotoIsTyped, RespondOtherIsTyped
     DEF CreateCheck, Labels
<1>8. ASSUME NEW c \in Clients, CreateAccount(c)
      PROVE  TypeOK'
  BY <1>8, AcquireIsTyped, UpdatesAreTyped, ReplicatingIsTyped,
     RespondOtherIsTyped
     DEF CreateAccount
<1>9. ASSUME NEW c \in Clients, CreateApply(c)
      PROVE  TypeOK'
  BY <1>9, ReleaseIsTyped, GotoIsTyped, CountIsTyped DEF CreateApply, Labels
<1>10. ASSUME NEW c \in Clients, LogInClients(c)
       PROVE  TypeOK'
  BY <1>10, AcquireIsTyped, GotoIsTyped DEF LogInClients, Labels
<1>11. ASSUME NEW c \in Clients, LogInLogged(c)
       PROVE  TypeOK'
  BY <1>11, AcquireIsTyped, UpdatesAreTyped, ReplicatingIsTyped
     DEF LogInLogged
<1>12. ASSUME NEW c \in Clients, LoginCheck(c)
       PROVE  TypeOK'
  BY <1>12, ReleaseIsTyped, AcquireIsTyped, GotoIsTyped,
     RespondOtherIsTyped
     DEF LoginCheck, Labels
<1>13. ASSUME NEW c \in Clients, LoginAccount(c)
       PROVE  TypeOK'
  BY <1>13, ReleaseIsTyped, UpdatesAreTyped, ReplicatingIsTyped,
     RespondOtherIsTyped
     DEF LoginAccount
<1>14. ASSUME NEW c \in Clients, LoginApply(c)
       PROVE  TypeOK'
  BY <1>14, ReleaseIsTyped, RespondIsTyped DEF LoginApply
<1>15. ASSUME NEW c \in Clients, LogoffCheck(c)
       PROVE  TypeOK'
  <2>1. lock' \in [Locks -> Threads \cup {None}]
    BY <1>15, ReleaseIsTyped, AcquireIsTyped DEF LogoffCheck
  <2>2. user' \in [Threads -> Names \cup {None}]
    <3>1. GetUsername(logged_in, c) \in Names \cup {None}
      BY GetUsernameIsTyped
    <3>2. QED
      BY <1>15, <3>1 DEF LogoffCheck
  <2>3. /\ pc' \in [Threads -> Labels]
        /\ upd' \in [Threads -> UpdateType]
        /\ told' = told
    <3>1. CASE RespondOther(c) /\ UNCHANGED upd
      BY <3>1, RespondOtherIsTyped
    <3>2. CASE /\ Replicating(c, Update("logoff", user'[c], c, <<>>))
               /\ UNCHANGED told
      <4>1. Update("logoff", user'[c], c, <<>>) \in UpdateType
        BY <2>2, UpdatesAreTyped
      <4>2. QED
        BY <3>2, <4>1, ReplicatingIsTyped
    <3>3. QED
      BY <1>15, <3>1, <3>2 DEF LogoffCheck
  <2>4. QED
    BY <1>15, <2>1, <2>2, <2>3 DEF LogoffCheck
<1>16. ASSUME NEW c \in Clients, LogoffApply(c)
       PROVE  TypeOK'
  BY <1>16, ReleaseIsTyped, RespondIsTyped, GotoIsTyped, LogoffIsTyped
     DEF LogoffApply, Labels
<1>17. ASSUME NEW c \in Clients, DeleteAccount(c)
       PROVE  TypeOK'
  BY <1>17, AcquireIsTyped, UpdatesAreTyped, ReplicatingIsTyped
     DEF DeleteAccount
<1>18. ASSUME NEW c \in Clients, DeleteApply(c)
       PROVE  TypeOK'
  <2>1. lock' \in [Locks -> Threads \cup {None}]
    BY <1>18, ReleaseIsTyped DEF DeleteApply
  <2>2. /\ pc' \in [Threads -> Labels]
        /\ told' \in [Clients -> Names \cup {None}]
    BY <1>18, RespondIsTyped, GotoIsTyped DEF DeleteApply, Labels
  <2>3. account_list' \in [Names -> Nat]
    <3>1. account_list[user[c]] > 0 =>
            [account_list EXCEPT ![user[c]] = @ - 1] \in [Names -> Nat]
      BY CountIsTyped
    <3>2. QED
      BY <1>18, <3>1 DEF DeleteApply
  <2>4. QuitRequest \in [op : AllOps, name : Names \cup {None}, text : Texts]
    BY Assumptions DEF QuitRequest, AllOps
  <2>5. req' \in [Clients ->
                    [op : AllOps, name : Names \cup {None}, text : Texts]]
    <3>1. req' = req \/ req' = [req EXCEPT ![c] = QuitRequest]
      BY <1>18 DEF DeleteApply
    <3>2. req \in [Clients ->
                   [op : AllOps, name : Names \cup {None}, text : Texts]]
      OBVIOUS
    <3>3. QED
      BY ONLY <2>4, <3>1, <3>2
  <2>6. gone' = gone \/ gone' = gone \cup {c}
    BY <1>18 DEF DeleteApply
  <2>7. deleted' \in SUBSET Names
    BY <1>18 DEF DeleteApply
  <2>8. QED
    BY <1>18, <2>1, <2>2, <2>3, <2>5, <2>6, <2>7 DEF DeleteApply
<1>19. ASSUME NEW c \in Clients, ListAccounts(c)
       PROVE  TypeOK'
  BY <1>19, RespondOtherIsTyped DEF ListAccounts
<1>20. ASSUME NEW c \in Clients, SendCheck(c)
       PROVE  TypeOK'
  <2>1. lock' \in [Locks -> Threads \cup {None}]
    BY <1>20, ReleaseIsTyped DEF SendCheck
  <2>2. user' \in [Threads -> Names \cup {None}]
    <3>1. GetUsername(logged_in, c) \in Names \cup {None}
      BY GetUsernameIsTyped
    <3>2. QED
      BY <1>20, <3>1 DEF SendCheck
  <2>3. pc' \in [Threads -> Labels] /\ told' = told
    BY <1>20, GotoIsTyped, RespondOtherIsTyped DEF SendCheck, Labels
  <2>4. QED
    BY <1>20, <2>1, <2>2, <2>3 DEF SendCheck
<1>21. ASSUME NEW c \in Clients, SendRecipient(c)
       PROVE  TypeOK'
  BY <1>21, AcquireIsTyped, GotoIsTyped, RespondOtherIsTyped
     DEF SendRecipient, Labels
<1>22. ASSUME NEW c \in Clients, SendQueue(c)
       PROVE  TypeOK'
  BY <1>22, AcquireIsTyped, UpdatesAreTyped, ReplicatingIsTyped DEF SendQueue
<1>23. ASSUME NEW c \in Clients, SendApply(c)
       PROVE  TypeOK'
  <2>1. lock' \in [Locks -> Threads \cup {None}]
    BY <1>23, ReleaseIsTyped DEF SendApply
  <2>2. pc' \in [Threads -> Labels] /\ told' = told
    BY <1>23, RespondOtherIsTyped DEF SendApply
  <2>3. upd[c].msgs \in Seq(Message)
    BY MessagesAreTyped
  <2>4. /\ undelivered' \in [Names -> Seq(Message)]
        /\ accepted' \in [Names -> Seq(Message)]
    BY <1>23, <2>3, SequenceIsTyped DEF SendApply
  <2>5. recipients' \subseteq Names
    BY ZenonT(30), <1>23
       DEF SendApply, Acknowledged, HandlersInStep, InStep, Busy
  <2>6. QED
    BY <1>23, <2>1, <2>2, <2>4, <2>5 DEF SendApply
<1>24. ASSUME NEW t \in Threads, AcquireAck(t)
       PROVE  TypeOK'
  BY <1>24, AcquireIsTyped, GotoIsTyped DEF AcquireAck, Labels
<1>25. ASSUME NEW t \in Threads, AcquireOther(t)
       PROVE  TypeOK'
  BY <1>25, AcquireIsTyped, GotoIsTyped DEF AcquireOther, Labels
<1>26. ASSUME NEW t \in Threads, NEW r \in Replicas, Replicate(t, r)
       PROVE  TypeOK'
  <2>1. upd[t] \in UpdateType /\ upd[t].msgs \in Seq(Message)
    BY MessagesAreTyped
  <2>2. CASE ProcessUpdateAccounts(r, upd[t])
    BY <1>26, <2>2, ReplicaAccountsAreTyped DEF Replicate
  <2>3. CASE ProcessUpdateLogin(r, upd[t])
    BY <1>26, <2>1, <2>3, ReplicaSessionsAreTyped DEF Replicate
  <2>4. CASE ProcessUpdateMessages(r, upd[t])
    BY <1>26, <2>1, <2>4, ReplicaMessagesAreTyped DEF Replicate
  <2>5. CASE UNCHANGED replica
    BY <1>26, <2>5 DEF Replicate
  <2>6. QED
    BY <1>26, <2>2, <2>3, <2>4, <2>5 DEF Replicate
<1>27. CASE DeliveryStart
  BY <1>27, AcquireIsTyped, GotoIsTyped DEF DeliveryStart, Labels
<1>28. CASE DeliveryNext
  BY <1>28, AcquireIsTyped, GotoIsTyped DEF DeliveryNext, Labels
<1>29. CASE DeliverySleep
  BY <1>29, ReleaseIsTyped, GotoIsTyped DEF DeliverySleep, Labels
<1>30. CASE DeliveryVisit
  <2>1. lock' \in [Locks -> Threads \cup {None}]
    BY <1>30, AcquireIsTyped, ReleaseIsTyped DEF DeliveryVisit
  <2>2. pc' \in [Threads -> Labels]
    BY <1>30, GotoIsTyped DEF DeliveryVisit, Labels
  <2>3. unsent' \in Seq(Message) /\ refused' \in Seq(Message)
    <3>1. user[Delivery] \in Names => undelivered[user[Delivery]] \in Seq(Message)
      OBVIOUS
    <3>2. user[Delivery] \in Names
      BY <1>30 DEF DeliveryVisit, VisitsAName
    <3>3. \/ UNCHANGED <<unsent, refused>>
          \/ unsent' = undelivered[user[Delivery]] /\ refused' = <<>>
      BY <1>30 DEF DeliveryVisit
    <3>4. /\ unsent \in Seq(Message) /\ refused \in Seq(Message)
          /\ <<>> \in Seq(Message)
      OBVIOUS
    <3>5. QED
      BY ONLY <3>1, <3>2, <3>3, <3>4
  <2>4. QED
    BY <1>30, <2>1, <2>2, <2>3 DEF DeliveryVisit
<1>31. CASE DeliverySend
  <2>1. Head(unsent) \in Message /\ Tail(unsent) \in Seq(Message)
    BY <1>31 DEF DeliverySend
  <2>2. Append(refused, Head(unsent)) \in Seq(Message)
    BY <2>1
  <2>3. [delivered EXCEPT ![user[Delivery]] = Append(@, Head(unsent))]
           \in [Names -> Seq(Message)]
    BY <2>1, AppendIsTyped
  <2>4. /\ unsent' \in Seq(Message) /\ refused' \in Seq(Message)
        /\ delivered' \in [Names -> Seq(Message)]
    BY <1>31, <2>1, <2>2, <2>3 DEF DeliverySend
  <2>5. QED
    BY <1>31, <2>4 DEF DeliverySend
<1>32. CASE DeliveryUpdate
  BY <1>32, DeliveryUpdateIsTyped, ReplicatingIsTyped DEF DeliveryUpdate
<1>33. CASE DeliveryApply
  BY <1>33, ReleaseIsTyped, GotoIsTyped, MessagesAreTyped, SequenceIsTyped
     DEF DeliveryApply, Labels
<1>34. ASSUME NEW r \in Replicas, NEW c \in Clients, RepRegister(r, c)
       PROVE  TypeOK'
  BY <1>34 DEF RepRegister
<1>35. ASSUME NEW r \in Replicas, NEW c \in Clients, RepHangUp(r, c)
       PROVE  TypeOK'
  <2>1. repConn' \in [Replicas -> [Clients -> {"new", "registered", "closed"}]]
    BY <1>35 DEF RepHangUp
  <2>2. /\ repLogged \in [Replicas -> [Names -> Clients \cup {None}]]
        /\ repLogged[r] \in [Names -> Clients \cup {None}]
    OBVIOUS
  <2>3. Logoff(repLogged[r], GetUsername(repLogged[r], c))
           \in [Names -> Clients \cup {None}]
    BY <2>2, LogoffIsTyped
  <2>4. repLogged' \in [Replicas -> [Names -> Clients \cup {None}]]
    BY <1>35, <2>2, <2>3 DEF RepHangUp
  <2>5. repLeaked' \in [Replicas -> SUBSET Locks]
    <3>1. /\ repLeaked \in [Replicas -> SUBSET Locks]
          /\ \/ repLeaked' = repLeaked
             \/ repLeaked' = [repLeaked EXCEPT ![r] =
                                @ \cup {"clients_lock", "logged_in_lock"}]
      BY <1>35 DEF RepHangUp
    <3>2. QED
      BY ONLY <3>1 DEF Locks
  <2>6. QED
    BY <1>35, <2>1, <2>4, <2>5 DEF RepHangUp
<1>36. CASE UNCHANGED vars
  BY <1>36 DEF vars
<1>37. QED
  BY <1>1, <1>2, <1>3, <1>4, <1>5, <1>6, <1>7, <1>8, <1>9, <1>10, <1>11,
     <1>12, <1>13, <1>14, <1>15, <1>16, <1>17, <1>18, <1>19, <1>20, <1>21,
     <1>22, <1>23, <1>24, <1>25, <1>26, <1>27, <1>28, <1>29, <1>30, <1>31,
     <1>32, <1>33, <1>34, <1>35, <1>36
     DEF Next, Handle, Round, Deliver

\* A step of one thread leaves the variables of all others alone.
LEMMA HandleIsLocal ==
    ASSUME TypeOK, NEW c \in Clients, Handle(c), NEW t \in Threads, t # c
    PROVE  /\ UNCHANGED <<pc[t], user[t], upd[t]>>
           /\ t \in Clients => UNCHANGED req[t]
<1> USE ThreadsAreDistinct
    DEF TypeOK, thread, batch, client, Goto, Respond, RespondOther,
        Replicating
<1>1. CASE AcquireClients(c) \/ Quit(c)
  BY <1>1 DEF AcquireClients, Quit
<1>2. CASE CreateCheck(c) \/ CreateAccount(c) \/ CreateApply(c)
  BY <1>2 DEF CreateCheck, CreateAccount, CreateApply
<1>3. CASE LogInClients(c) \/ LogInLogged(c)
  BY <1>3 DEF LogInClients, LogInLogged
<1>4. CASE LoginCheck(c) \/ LoginAccount(c) \/ LoginApply(c)
  BY <1>4 DEF LoginCheck, LoginAccount, LoginApply
<1>5. CASE LogoffCheck(c) \/ LogoffApply(c)
  BY <1>5 DEF LogoffCheck, LogoffApply
<1>6. CASE DeleteAccount(c) \/ DeleteApply(c)
  BY <1>6 DEF DeleteAccount, DeleteApply
<1>7. CASE SendCheck(c) \/ SendRecipient(c) \/ SendQueue(c) \/ SendApply(c)
  BY ZenonT(30), <1>7 DEF SendCheck, SendRecipient, SendQueue, SendApply
<1>8. CASE ListAccounts(c)
  BY <1>8 DEF ListAccounts
<1>9. QED
  BY <1>1, <1>2, <1>3, <1>4, <1>5, <1>6, <1>7, <1>8 DEF Handle

LEMMA ConnectionIsLocal ==
    ASSUME TypeOK, NEW c \in Clients,
           Register(c) \/ Close(c) \/ Receive(c) \/ HangUp(c),
           NEW t \in Threads, t # c
    PROVE  /\ UNCHANGED <<pc[t], user[t], upd[t]>>
           /\ t \in Clients => UNCHANGED req[t]
BY ThreadsAreDistinct
   DEF TypeOK, thread, batch, client, Goto, Register, Close, Receive, HangUp

LEMMA RoundIsLocal ==
    ASSUME TypeOK, NEW s \in Threads, Round(s), NEW t \in Threads
    PROVE  /\ UNCHANGED <<user[t], upd[t], req>>
           /\ t # s => UNCHANGED pc[t]
           /\ t = s => Busy(t) /\ Busy(t)'
BY DEF TypeOK, thread, batch, client, Goto, Busy, Round, AcquireAck,
   AcquireOther, Replicate

LEMMA DeliverIsLocal ==
    ASSUME TypeOK, Deliver, NEW c \in Clients
    PROVE  UNCHANGED <<pc[c], user[c], upd[c], req[c]>>
BY ThreadsAreDistinct
   DEF TypeOK, thread, batch, client, Goto, Replicating, Deliver,
       DeliveryStart, DeliveryNext, DeliverySleep, DeliveryVisit,
       DeliverySend, DeliveryUpdate, DeliveryApply

LEMMA ReplicaIsLocal ==
    ASSUME NEW r \in Replicas, NEW c \in Clients,
           RepRegister(r, c) \/ RepHangUp(r, c)
    PROVE  UNCHANGED <<lock, pc, primary, thread, client, history>>
BY DEF RepRegister, RepHangUp

LEMMA NextVisits == TypeInv /\ [Next]_vars => VisitsAName'
<1> SUFFICES ASSUME TypeOK, VisitsAName, [Next]_vars
             PROVE  VisitsAName'
  BY DEF TypeInv
<1> USE ThreadsAreDistinct DEF VisitsAName
<1>1. ASSUME NEW c \in Clients,
             Register(c) \/ Close(c) \/ Receive(c) \/ HangUp(c)
      PROVE  VisitsAName'
  BY <1>1, ConnectionIsLocal
<1>2. ASSUME NEW c \in Clients, Handle(c)
      PROVE  VisitsAName'
  BY <1>2, HandleIsLocal
<1>3. ASSUME NEW t \in Threads, Round(t)
      PROVE  VisitsAName'
  BY <1>3, RoundIsLocal DEF Busy
<1>4. CASE DeliveryNext
  BY <1>4 DEF DeliveryNext, TypeOK
<1>5. CASE \/ DeliveryStart \/ DeliverySleep \/ DeliveryVisit
           \/ DeliverySend \/ DeliveryUpdate \/ DeliveryApply
  BY <1>5 DEF DeliveryStart, DeliverySleep, DeliveryVisit, DeliverySend,
     DeliveryUpdate, DeliveryApply, Replicating, Goto, TypeOK
<1>6. ASSUME NEW r \in Replicas, NEW c \in Clients,
             RepRegister(r, c) \/ RepHangUp(r, c)
      PROVE  VisitsAName'
  BY <1>6, ReplicaIsLocal DEF thread
<1>7. CASE UNCHANGED vars
  BY <1>7 DEF vars, thread
<1>8. QED
  BY <1>1, <1>2, <1>3, <1>4, <1>5, <1>6, <1>7 DEF Next, Deliver

\* A handler's own steps keep it in step with its request.
LEMMA HandleStaysInStep ==
    ASSUME TypeOK, NEW c \in Clients, InStep(c), Handle(c)
    PROVE  InStep(c)'
<1> USE ThreadsAreDistinct
    DEF TypeOK, InStep, Busy, thread, batch, client, Goto, Respond,
        RespondOther, Replicating, Update, Looking, Acknowledged
<1>1. CASE AcquireClients(c) \/ Quit(c)
  BY <1>1 DEF AcquireClients, Quit
<1>2. CASE CreateCheck(c) \/ CreateApply(c)
  BY <1>2 DEF CreateCheck, CreateApply
<1>3. CASE CreateAccount(c)
  BY <1>3 DEF CreateAccount
<1>4. CASE LogInClients(c) \/ LogInLogged(c)
  BY <1>4 DEF LogInClients, LogInLogged
<1>5. CASE LoginCheck(c) \/ LoginApply(c)
  BY <1>5 DEF LoginCheck, LoginApply
<1>6. CASE LoginAccount(c)
  BY <1>6 DEF LoginAccount
<1>7. CASE LogoffCheck(c)
  BY <1>7 DEF LogoffCheck
<1>8. CASE LogoffApply(c)
  BY <1>8 DEF LogoffApply
<1>9. CASE DeleteAccount(c)
  BY <1>9 DEF DeleteAccount
<1>10. CASE DeleteApply(c)
  <2>1. /\ pc[c]' \in {"idle", "clients"}
        /\ req' = req \/ req' = [req EXCEPT ![c] = QuitRequest]
    BY <1>10 DEF DeleteApply
  <2>2. QED
    BY <2>1 DEF QuitRequest
<1>11. CASE SendCheck(c) \/ SendRecipient(c) \/ SendApply(c)
  BY ZenonT(30), <1>11 DEF SendCheck, SendRecipient, SendApply
<1>12. CASE SendQueue(c)
  BY <1>12 DEF SendQueue
<1>13. CASE ListAccounts(c)
  BY <1>13 DEF ListAccounts
<1>14. QED
  BY <1>1, <1>2, <1>3, <1>4, <1>5, <1>6, <1>7, <1>8, <1>9, <1>10, <1>11,
     <1>12, <1>13 DEF Handle

LEMMA NextInStep == TypeInv /\ [Next]_vars => HandlersInStep'
<1> SUFFICES ASSUME TypeOK, HandlersInStep, [Next]_vars, NEW c \in Clients
             PROVE  InStep(c)'
  BY DEF TypeInv, HandlersInStep
<1> USE ThreadsAreDistinct
<1>1. InStep(c)
  BY DEF HandlersInStep
<1>2. ASSUME NEW d \in Clients, d # c,
             Handle(d) \/ Register(d) \/ Close(d) \/ Receive(d) \/ HangUp(d)
      PROVE  InStep(c)'
  BY <1>1, <1>2, HandleIsLocal, ConnectionIsLocal DEF InStep, Busy
<1>3. CASE Handle(c)
  BY <1>1, <1>3, HandleStaysInStep
<1>4. CASE Register(c) \/ Close(c)
  BY <1>1, <1>4 DEF Register, Close, Goto, InStep, Busy, thread, TypeOK
<1>5. CASE Receive(c)
  BY <1>1, <1>5, RequestsAreNamed
     DEF Receive, Goto, InStep, Busy, thread, TypeOK
<1>6. CASE HangUp(c)
  BY <1>1, <1>6 DEF HangUp, QuitRequest, Goto, InStep, Busy, thread, TypeOK
<1>7. ASSUME NEW t \in Threads, Round(t)
      PROVE  InStep(c)'
  BY <1>1, <1>7, RoundIsLocal DEF InStep, Busy
<1>8. CASE Deliver
  BY <1>1, <1>8, DeliverIsLocal DEF InStep, Busy
<1>9. ASSUME NEW r \in Replicas, NEW d \in Clients,
             RepRegister(r, d) \/ RepHangUp(r, d)
      PROVE  InStep(c)'
  BY <1>1, <1>9, ReplicaIsLocal DEF InStep, Busy, thread
<1>10. CASE UNCHANGED vars
  BY <1>1, <1>10 DEF InStep, Busy, vars, thread
<1>11. QED
  BY <1>2, <1>3, <1>4, <1>5, <1>6, <1>7, <1>8, <1>9, <1>10 DEF Next

LEMMA InitTypeInv == Init => TypeInv
BY InitType, ThreadsAreDistinct
   DEF Init, TypeInv, VisitsAName, HandlersInStep, InStep, Busy, QuitRequest

LEMMA NextTypeInv == TypeInv /\ [Next]_vars => TypeInv'
BY NextType, NextVisits, NextInStep DEF TypeInv

LEMMA TypeInvariant == Spec => []TypeInv
BY InitTypeInv, NextTypeInv, PTL DEF Spec

\* The tables and the threads' variables always hold values of their types.
THEOREM TypeCorrect == Spec => []TypeOK
<1>1. TypeInv => TypeOK
  BY DEF TypeInv
<1>2. QED
  BY <1>1, TypeInvariant, PTL

-----------------------------------------------------------------------------
(* The list of accounts.  A handler that has found a name missing, or wants  *)
(* to take one out, has account_list_lock until the list has been changed:   *)
(* whatever the replicas and the other handlers do meanwhile, a name that is *)
(* new stays new.                                                            *)

HasAccountList(c) ==
    \/ pc[c] \in {"undelivered", "clients2", "logged2"}
    \/ /\ Busy(c)
       /\ upd[c].kind \in {"create", "remove", "addmsg"} \/ req[c].op = "create"

AccountListIsHeld(c) == HasAccountList(c) => lock["account_list_lock"] = c

NameIsNew(c) == Busy(c) /\ upd[c].kind = "create" => account_list[req[c].name] = 0

AccountsInv ==
    /\ TypeInv
    /\ \A c \in Clients : AccountListIsHeld(c) /\ NameIsNew(c)
    /\ NoDuplicateAccounts

\* Nobody but the holder changes the list, or gives the lock back.
LEMMA AccountListIsGuarded ==
    ASSUME TypeOK, NEW c \in Clients, NEW d \in Clients, c # d,
           InStep(d), AccountListIsHeld(d), Handle(d),
           lock["account_list_lock"] = c
    PROVE  lock'["account_list_lock"] = c /\ UNCHANGED account_list
<1> USE ThreadsAreDistinct
    DEF TypeOK, InStep, AccountListIsHeld, HasAccountList, Busy, Acquire,
        Release, Acknowledged, RoundLocks, LoginLocks, Locks, primary
<1>1. CASE AcquireClients(d) \/ Quit(d)
  BY <1>1 DEF AcquireClients, Quit
<1>2. CASE CreateCheck(d) \/ CreateAccount(d) \/ CreateApply(d)
  BY <1>2 DEF CreateCheck, CreateAccount, CreateApply
<1>3. CASE LogInClients(d) \/ LogInLogged(d)
  BY <1>3 DEF LogInClients, LogInLogged
<1>4. CASE LoginCheck(d) \/ LoginAccount(d) \/ LoginApply(d)
  BY <1>4 DEF LoginCheck, LoginAccount, LoginApply
<1>5. CASE LogoffCheck(d) \/ LogoffApply(d)
  BY <1>5 DEF LogoffCheck, LogoffApply
<1>6. CASE DeleteAccount(d) \/ DeleteApply(d)
  BY <1>6 DEF DeleteAccount, DeleteApply
<1>7. CASE SendCheck(d) \/ SendRecipient(d) \/ SendQueue(d)
  BY <1>7 DEF SendCheck, SendRecipient, SendQueue
<1>8. CASE SendApply(d)
  BY <1>8 DEF SendApply
<1>9. CASE ListAccounts(d)
  BY <1>9 DEF ListAccounts
<1>10. QED
  BY <1>1, <1>2, <1>3, <1>4, <1>5, <1>6, <1>7, <1>8, <1>9 DEF Handle

\* What c itself does with the lock and the list.
LEMMA HandleHoldsAccountList ==
    ASSUME TypeOK, NEW c \in Clients, InStep(c), AccountListIsHeld(c),
           NameIsNew(c), Handle(c)
    PROVE  AccountListIsHeld(c)' /\ NameIsNew(c)'
<1> USE ThreadsAreDistinct
    DEF TypeOK, InStep, AccountListIsHeld, HasAccountList, NameIsNew, Busy,
        Acquire, Release, Acknowledged, Looking, RoundLocks, LoginLocks, Locks,
        Goto, Respond, RespondOther, Replicating, Update, primary, thread,
        batch, client
<1>1. CASE AcquireClients(c) \/ Quit(c)
  BY <1>1 DEF AcquireClients, Quit
<1>2. CASE CreateCheck(c)
  BY <1>2 DEF CreateCheck
<1>3. CASE CreateAccount(c)
  BY <1>3 DEF CreateAccount
<1>4. CASE CreateApply(c)
  BY <1>4 DEF CreateApply
<1>5. CASE LogInClients(c) \/ LogInLogged(c)
  BY <1>5 DEF LogInClients, LogInLogged
<1>6. CASE LoginCheck(c) \/ LoginApply(c)
  BY <1>6 DEF LoginCheck, LoginApply
<1>7. CASE LoginAccount(c)
  BY <1>7 DEF LoginAccount
<1>8. CASE LogoffCheck(c)
  BY <1>8 DEF LogoffCheck
<1>9. CASE LogoffApply(c)
  BY <1>9 DEF LogoffApply
<1>10. CASE DeleteAccount(c)
  BY <1>10 DEF DeleteAccount
<1>11. CASE DeleteApply(c)
  BY <1>11 DEF DeleteApply
<1>12. CASE SendCheck(c) \/ SendRecipient(c)
  BY <1>12 DEF SendCheck, SendRecipient
<1>13. CASE SendQueue(c)
  BY <1>13 DEF SendQueue
<1>14. CASE SendApply(c)
  BY <1>14 DEF SendApply
<1>15. CASE ListAccounts(c)
  BY <1>15 DEF ListAccounts
<1>16. QED
  BY <1>1, <1>2, <1>3, <1>4, <1>5, <1>6, <1>7, <1>8, <1>9, <1>10, <1>11,
     <1>12, <1>13, <1>14, <1>15 DEF Handle

\* Only the two Apply steps write the list, and an account is appended only
\* where it was missing.
LEMMA HandleAddsNewNames ==
    ASSUME TypeOK, NEW c \in Clients, NameIsNew(c), NoDuplicateAccounts,
           Handle(c)
    PROVE  NoDuplicateAccounts'
<1> USE DEF TypeOK, NameIsNew, NoDuplicateAccounts, primary
<1>1. CASE CreateApply(c)
  BY <1>1 DEF CreateApply, Acknowledged, Busy
<1>2. CASE DeleteApply(c)
  <2>1. account_list \in [Names -> Nat]
    OBVIOUS
  <2>2. \/ account_list' = account_list
        \/ account_list' = [account_list EXCEPT ![user[c]] = @ - 1]
    BY <1>2 DEF DeleteApply
  <2>3. QED
    BY ONLY <2>1, <2>2, NoDuplicateAccounts DEF NoDuplicateAccounts
<1>3. CASE UNCHANGED account_list
  BY <1>3
<1>4. QED
  BY <1>1, <1>2, <1>3
     DEF Handle, AcquireClients, Quit, CreateCheck, CreateAccount,
         LogInClients, LogInLogged, LoginCheck, LoginAccount, LoginApply,
         LogoffCheck, LogoffApply, DeleteAccount, SendCheck, SendRecipient,
         SendQueue, SendApply, ListAccounts

\* Nothing but a request touches the lock or the list.
LEMMA OthersLeaveAccountList ==
    ASSUME TypeOK,
           \/ \E d \in Clients :
                 Register(d) \/ Close(d) \/ Receive(d) \/ HangUp(d)
           \/ \E t \in Threads : Round(t)
           \/ Deliver
           \/ \E r \in Replicas, d \in Clients :
                 RepRegister(r, d) \/ RepHangUp(r, d)
           \/ UNCHANGED vars
    PROVE  UNCHANGED <<lock["account_list_lock"], account_list>>
<1> USE DEF TypeOK, Acquire, Release, RoundLocks, LoginLocks, Locks, primary
<1>1. CASE \E d \in Clients :
              Register(d) \/ Close(d) \/ Receive(d) \/ HangUp(d)
  BY <1>1 DEF Register, Close, Receive, HangUp
<1>2. CASE \E t \in Threads : Round(t)
  BY <1>2 DEF Round, AcquireAck, AcquireOther, Replicate
<1>3. CASE Deliver
  BY <1>3 DEF Deliver, DeliveryStart, DeliveryNext, DeliverySleep,
     DeliveryVisit, DeliverySend, DeliveryUpdate, DeliveryApply, Replicating
<1>4. CASE \E r \in Replicas, d \in Clients :
              RepRegister(r, d) \/ RepHangUp(r, d)
  BY <1>4, ReplicaIsLocal
<1>5. CASE UNCHANGED vars
  BY <1>5 DEF vars
<1>6. QED
  BY <1>1, <1>2, <1>3, <1>4, <1>5

LEMMA NextAccounts == AccountsInv /\ [Next]_vars => AccountsInv'
<1> SUFFICES ASSUME AccountsInv, [Next]_vars
             PROVE  AccountsInv'
  OBVIOUS
<1> USE ThreadsAreDistinct
<1>1. TypeInv'
  BY NextTypeInv DEF AccountsInv
<1>2. /\ TypeOK /\ NoDuplicateAccounts
      /\ \A c \in Clients : InStep(c) /\ AccountListIsHeld(c) /\ NameIsNew(c)
  BY DEF AccountsInv, TypeInv, HandlersInStep
<1>3. ASSUME NEW c \in Clients, Handle(c)
      PROVE  AccountsInv'
  <2>1. NoDuplicateAccounts'
    BY <1>2, <1>3, HandleAddsNewNames
  <2>2. AccountListIsHeld(c)' /\ NameIsNew(c)'
    BY <1>2, <1>3, HandleHoldsAccountList
  <2>3. ASSUME NEW d \in Clients, d # c
        PROVE  AccountListIsHeld(d)' /\ NameIsNew(d)'
    <3>1. UNCHANGED <<pc[d], upd[d], req[d]>>
      BY <1>2, <1>3, <2>3, HandleIsLocal
    <3>2. CASE HasAccountList(d)
      <4>1. lock'["account_list_lock"] = d /\ UNCHANGED account_list
        BY <1>2, <1>3, <2>3, <3>2, AccountListIsGuarded DEF AccountListIsHeld
      <4>2. QED
        BY <1>2, <3>1, <4>1
           DEF AccountListIsHeld, HasAccountList, NameIsNew, Busy
    <3>3. CASE ~HasAccountList(d)
      BY <3>1, <3>3 DEF AccountListIsHeld, HasAccountList, NameIsNew, Busy
    <3>4. QED
      BY <3>2, <3>3
  <2>4. QED
    BY <1>1, <2>1, <2>2, <2>3 DEF AccountsInv
<1>4. ASSUME UNCHANGED <<lock["account_list_lock"], account_list>>,
             \A c \in Clients : \/ UNCHANGED <<pc[c], upd[c], req[c]>>
                                \/ UNCHANGED <<upd[c], req[c]>>
                                   /\ Busy(c) /\ Busy(c)'
                                \/ ~HasAccountList(c)'
      PROVE  AccountsInv'
  BY <1>1, <1>2, <1>4
     DEF AccountsInv, AccountListIsHeld, HasAccountList, NameIsNew, Busy,
         NoDuplicateAccounts
<1>5. ASSUME NEW c \in Clients,
             Register(c) \/ Close(c) \/ Receive(c) \/ HangUp(c)
      PROVE  AccountsInv'
  <2>1. \/ UNCHANGED <<pc[c], upd[c], req[c]>>
        \/ ~HasAccountList(c)'
    BY <1>2, <1>5
       DEF Register, Close, Receive, HangUp, Goto, HasAccountList, Busy,
           TypeOK, thread
  <2>2. QED
    BY <1>2, <1>4, <1>5, <2>1, ConnectionIsLocal, OthersLeaveAccountList
<1>6. ASSUME NEW t \in Threads, Round(t)
      PROVE  AccountsInv'
  <2>1. \A c \in Clients : \/ UNCHANGED <<pc[c], upd[c], req[c]>>
                           \/ UNCHANGED <<upd[c], req[c]>>
                              /\ Busy(c) /\ Busy(c)'
    BY <1>2, <1>6, RoundIsLocal
  <2>2. QED
    BY <1>2, <1>4, <1>6, <2>1, OthersLeaveAccountList
<1>7. CASE Deliver
  BY <1>2, <1>4, <1>7, DeliverIsLocal, OthersLeaveAccountList
<1>8. ASSUME NEW r \in Replicas, NEW d \in Clients,
             RepRegister(r, d) \/ RepHangUp(r, d)
      PROVE  AccountsInv'
  BY <1>2, <1>4, <1>8, ReplicaIsLocal, OthersLeaveAccountList DEF thread
<1>9. CASE UNCHANGED vars
  BY <1>2, <1>4, <1>9, OthersLeaveAccountList DEF vars, thread
<1>10. QED
  BY <1>3, <1>5, <1>6, <1>7, <1>8, <1>9 DEF Next

LEMMA InitAccountsInv == Init => AccountsInv
BY InitTypeInv, ThreadsAreDistinct
   DEF Init, AccountsInv, AccountListIsHeld, HasAccountList, NameIsNew, Busy,
       NoDuplicateAccounts

\* No interleaving of creates and deletes puts a name into the list twice.
THEOREM NamesAreUnique == Spec => []NoDuplicateAccounts
<1>1. AccountsInv => NoDuplicateAccounts
  BY DEF AccountsInv
<1>2. QED
  BY <1>1, InitAccountsInv, NextAccounts, PTL DEF Spec

-----------------------------------------------------------------------------
(* The table of sessions.  Only c's own handler logs c in; every other       *)
(* thread can at most end c's session.  So what the handler has found out    *)
(* under the login locks remains true after it has given them back.          *)

\* The connection is in self.clients from its first message to its clean-up.
Registered(c) ==
    \/ pc[c] \in {"new", "dead"}
    \/ req[c].op = "quit" /\ pc[c] \in {"clients", "logged"}
    \/ c \in clients

\* A handler that is about to log c in has found it logged in nowhere, and one
\* that removes an account has logged c off.
SignedOut(c) ==
    \/ /\ req[c].op \in {"create", "login"}
       /\ pc[c] \in {"account", "clients2", "logged2"} \/ Busy(c)
    \/ /\ req[c].op = "delete"
       /\ \/ pc[c] = "account"
          \/ Busy(c) /\ upd[c].kind = "remove"
    => ~IsLoggedIn(c)

\* A handler that logs c off has looked its only account up.
LeavesItsAccount(c) ==
    Busy(c) /\ upd[c].kind = "logoff" =>
        \A n \in Names : logged_in[n] = c => n = user[c]

\* A session of c is the account c was told.
Known(c) == \A n \in Names : logged_in[n] = c => told[c] = n

SessionOK(c) == /\ Registered(c) /\ SignedOut(c) /\ LeavesItsAccount(c)
                /\ Known(c)

SessionsInv ==
    /\ TypeInv
    /\ SessionsAreRegistered
    /\ \A c \in Clients : SessionOK(c)

\* Logging a name off takes nothing but its own session away.
LEMMA LogoffEndsOneSession ==
    ASSUME NEW table, NEW name, NEW c \in Clients, NEW n \in Names
    PROVE  Logoff(table, name)[n] = c <=> table[n] = c /\ n # name
BY ThreadsAreDistinct DEF Logoff

\* get_username finds the account of a client that has one.
LEMMA GetUsernameFinds ==
    ASSUME NEW table, NEW c, \E n \in Names : table[n] = c
    PROVE  GetUsername(table, c) \in Names /\ table[GetUsername(table, c)] = c
BY DEF GetUsername

\* What a handler does to another client's session, and to its own.
LEMMA HandleKeepsOtherSessions ==
    ASSUME TypeOK, NEW d \in Clients, Handle(d), NEW c \in Clients, c # d
    PROVE  /\ c \in clients => c \in clients'
           /\ told'[c] = told[c]
           /\ \A n \in Names : logged_in'[n] = c => logged_in[n] = c
<1> USE ThreadsAreDistinct
    DEF TypeOK, primary, client, Respond, RespondOther
<1>1. CASE Quit(d)
  BY <1>1, LogoffEndsOneSession DEF Quit
<1>2. CASE LoginApply(d)
  BY <1>2 DEF LoginApply
<1>3. CASE LogoffApply(d)
  BY <1>3, LogoffEndsOneSession DEF LogoffApply
<1>4. CASE /\ UNCHANGED <<logged_in, clients>>
           /\ UNCHANGED told \/ told' = [told EXCEPT ![d] = None]
  BY <1>4
<1>5. QED
  BY <1>1, <1>2, <1>3, <1>4
     DEF Handle, AcquireClients, CreateCheck, CreateAccount, CreateApply,
         LogInClients, LogInLogged, LoginCheck, LoginAccount, LogoffCheck,
         DeleteAccount, DeleteApply, SendCheck, SendRecipient, SendQueue,
         SendApply, ListAccounts

LEMMA HandleKeepsRegistered ==
    ASSUME TypeOK, NEW c \in Clients, InStep(c), Registered(c), Handle(c)
    PROVE  Registered(c)'
<1> USE ThreadsAreDistinct
    DEF TypeOK, Registered, Busy, Acknowledged, Looking, Goto, Respond,
        RespondOther, Replicating, primary, thread, batch, client, InStep
<1>1. CASE AcquireClients(c) \/ Quit(c)
  BY <1>1 DEF AcquireClients, Quit
<1>2. CASE CreateCheck(c) \/ CreateAccount(c) \/ CreateApply(c)
  BY <1>2 DEF CreateCheck, CreateAccount, CreateApply
<1>3. CASE LogInClients(c) \/ LogInLogged(c)
  BY <1>3 DEF LogInClients, LogInLogged
<1>4. CASE LoginCheck(c) \/ LoginAccount(c) \/ LoginApply(c)
  BY <1>4 DEF LoginCheck, LoginAccount, LoginApply
<1>5. CASE LogoffCheck(c) \/ LogoffApply(c)
  BY <1>5 DEF LogoffCheck, LogoffApply
<1>6. CASE DeleteAccount(c) \/ DeleteApply(c)
  BY <1>6 DEF DeleteAccount, DeleteApply, QuitRequest
<1>7. CASE SendCheck(c) \/ SendRecipient(c) \/ SendQueue(c) \/ SendApply(c)
  BY <1>7 DEF SendCheck, SendRecipient, SendQueue, SendApply
<1>8. CASE ListAccounts(c)
  BY <1>8 DEF ListAccounts
<1>9. QED
  BY <1>1, <1>2, <1>3, <1>4, <1>5, <1>6, <1>7, <1>8 DEF Handle

LEMMA HandleKeepsOwnSession ==
    ASSUME TypeOK, NEW c \in Clients, InStep(c), SessionOK(c), Handle(c)
    PROVE  SignedOut(c)' /\ LeavesItsAccount(c)' /\ Known(c)'
<1> USE ThreadsAreDistinct
    DEF TypeOK, SessionOK, SignedOut, LeavesItsAccount, Known, IsLoggedIn,
        Busy, Acknowledged, Looking, Goto, Respond, RespondOther, Replicating,
        Update, primary, thread, batch, client, InStep
<1>1. CASE AcquireClients(c)
  BY <1>1 DEF AcquireClients
<1>2. CASE Quit(c)
  BY <1>2, LogoffEndsOneSession DEF Quit
<1>3. CASE CreateCheck(c)
  BY <1>3 DEF CreateCheck
<1>4. CASE CreateAccount(c)
  BY <1>4 DEF CreateAccount
<1>5. CASE CreateApply(c)
  BY <1>5 DEF CreateApply
<1>6. CASE LogInClients(c) \/ LogInLogged(c)
  BY <1>6 DEF LogInClients, LogInLogged
<1>7. CASE LoginCheck(c)
  BY <1>7 DEF LoginCheck
<1>8. CASE LoginAccount(c)
  BY <1>8 DEF LoginAccount
<1>9. CASE LoginApply(c)
  BY <1>9 DEF LoginApply
<1>10. CASE LogoffCheck(c)
  <2>1. UNCHANGED <<req, logged_in, told>>
    BY <1>10 DEF LogoffCheck
  <2>2. pc'[c] = "idle" \/ (pc'[c] = "ack" /\ upd'[c].kind = "logoff")
    BY <1>10 DEF LogoffCheck
  <2>3. pc'[c] = "ack" => user'[c] = GetUsername(logged_in, c) /\ IsLoggedIn(c)
    BY <1>10 DEF LogoffCheck
  <2>4. IsLoggedIn(c) => logged_in[GetUsername(logged_in, c)] = c
                         /\ GetUsername(logged_in, c) \in Names
    BY GetUsernameFinds
  <2>5. \A n \in Names : logged_in[n] = c => told[c] = n
    OBVIOUS
  <2>6. req'[c].op \in {"logoff", "delete"}
    BY <1>10 DEF LogoffCheck
  <2>7. SignedOut(c)' /\ Known(c)'
    BY <2>1, <2>2, <2>5, <2>6
  <2>8. LeavesItsAccount(c)'
    BY <2>1, <2>2, <2>3, <2>4, <2>5
  <2>9. QED
    BY <2>7, <2>8
<1>11. CASE LogoffApply(c)
  <2>1. /\ \A n \in Names : logged_in[n] = c => n = user[c]
        /\ UNCHANGED <<req, user, upd>>
        /\ \/ pc'[c] = "idle"
           \/ pc'[c] = "account" /\ req[c].op = "delete"
        /\ logged_in' = Logoff(logged_in, user[c])
    BY <1>11 DEF LogoffApply
  <2>2. \A n \in Names : logged_in'[n] # c
    BY <2>1, LogoffEndsOneSession
  <2>3. QED
    BY <2>1, <2>2
<1>12. CASE DeleteAccount(c)
  BY <1>12 DEF DeleteAccount
<1>13. CASE DeleteApply(c)
  <2>1. /\ req[c].op = "delete" /\ Busy(c) /\ upd[c].kind = "remove"
        /\ UNCHANGED logged_in
        /\ pc'[c] \in {"idle", "clients"}
    BY <1>13 DEF DeleteApply
  <2>2. \A n \in Names : logged_in'[n] # c
    BY <2>1
  <2>3. QED
    BY <2>1, <2>2
<1>14. CASE SendCheck(c) \/ SendRecipient(c)
  BY <1>14 DEF SendCheck, SendRecipient
<1>15. CASE SendQueue(c)
  <2>1. /\ req[c].op = "send" /\ UNCHANGED <<req, logged_in, told>>
        /\ pc'[c] = "ack" /\ upd'[c].kind = "addmsg"
    BY <1>15 DEF SendQueue
  <2>2. QED
    BY <2>1
<1>16. CASE SendApply(c)
  BY <1>16 DEF SendApply
<1>17. CASE ListAccounts(c)
  BY <1>17 DEF ListAccounts
<1>18. QED
  BY <1>1, <1>2, <1>3, <1>4, <1>5, <1>6, <1>7, <1>8, <1>9, <1>10, <1>11,
     <1>12, <1>13, <1>14, <1>15, <1>16, <1>17 DEF Handle

\* A connection leaves self.clients together with its session.
LEMMA HandleKeepsSessionsRegistered ==
    ASSUME TypeOK, SessionsAreRegistered, NEW c \in Clients, InStep(c),
           SessionOK(c), Handle(c)
    PROVE  SessionsAreRegistered'
<1> USE ThreadsAreDistinct DEF TypeOK, SessionsAreRegistered, primary
<1>1. CASE Quit(c)
  BY <1>1, GetUsernameFinds DEF Quit, Logoff, SessionOK, Known
<1>2. CASE LoginApply(c)
  BY <1>2 DEF LoginApply, Acknowledged, SessionOK, Registered
<1>3. CASE LogoffApply(c)
  BY <1>3 DEF LogoffApply, Logoff
<1>4. CASE UNCHANGED <<logged_in, clients>>
  BY <1>4
<1>5. QED
  BY <1>1, <1>2, <1>3, <1>4
     DEF Handle, AcquireClients, CreateCheck, CreateAccount, CreateApply,
         LogInClients, LogInLogged, LoginCheck, LoginAccount, LogoffCheck,
         DeleteAccount, DeleteApply, SendCheck, SendRecipient, SendQueue,
         SendApply, ListAccounts

LEMMA NextSessions == SessionsInv /\ [Next]_vars => SessionsInv'
<1> SUFFICES ASSUME SessionsInv, [Next]_vars
             PROVE  SessionsInv'
  OBVIOUS
<1> USE ThreadsAreDistinct
<1>1. TypeInv'
  BY NextTypeInv DEF SessionsInv
<1>2. /\ TypeOK /\ SessionsAreRegistered
      /\ \A c \in Clients : InStep(c) /\ SessionOK(c)
  BY DEF SessionsInv, TypeInv, HandlersInStep
<1>3. ASSUME NEW c \in Clients, Handle(c)
      PROVE  SessionsInv'
  <2>1. SessionsAreRegistered'
    BY <1>2, <1>3, HandleKeepsSessionsRegistered
  <2>2. SessionOK(c)'
    BY <1>2, <1>3, HandleKeepsOwnSession, HandleKeepsRegistered DEF SessionOK
  <2>3. ASSUME NEW d \in Clients, d # c
        PROVE  SessionOK(d)'
    <3>1. UNCHANGED <<pc[d], user[d], upd[d], req[d]>>
      BY <1>2, <1>3, <2>3, HandleIsLocal
    <3>2. /\ d \in clients => d \in clients'
          /\ told'[d] = told[d]
          /\ \A n \in Names : logged_in'[n] = d => logged_in[n] = d
      BY <1>2, <1>3, <2>3, HandleKeepsOtherSessions
    <3>3. QED
      BY <1>2, <3>1, <3>2
         DEF SessionOK, Registered, SignedOut, LeavesItsAccount, Known,
             IsLoggedIn, Busy
  <2>4. QED
    BY <1>1, <2>1, <2>2, <2>3 DEF SessionsInv
<1>4. ASSUME UNCHANGED <<logged_in, told>>, clients \subseteq clients',
             \A c \in Clients :
                 \/ UNCHANGED <<pc[c], user[c], upd[c], req[c]>>
                 \/ UNCHANGED <<user[c], upd[c], req[c]>>
                    /\ Busy(c) /\ Busy(c)'
                 \/ /\ ~Busy(c)' /\ Registered(c)'
                    /\ pc'[c] \notin {"clients2", "logged2"}
                    /\ pc'[c] = "account" => req'[c].op = "list"
      PROVE  SessionsInv'
  <2>1. SessionsAreRegistered'
    BY <1>2, <1>4 DEF SessionsAreRegistered
  <2>2. ASSUME NEW c \in Clients
        PROVE  SessionOK(c)'
    BY <1>2, <1>4, <2>2
       DEF SessionOK, Registered, SignedOut, LeavesItsAccount, Known,
           IsLoggedIn, Busy
  <2>3. QED
    BY <1>1, <2>1, <2>2 DEF SessionsInv
<1>5. ASSUME NEW c \in Clients,
             Register(c) \/ Close(c) \/ Receive(c) \/ HangUp(c)
      PROVE  SessionsInv'
  <2>1. UNCHANGED <<logged_in, told>> /\ clients \subseteq clients'
    BY <1>5 DEF Register, Close, Receive, HangUp, primary, client
  <2>2. \/ UNCHANGED <<pc[c], user[c], upd[c], req[c]>>
        \/ /\ ~Busy(c)' /\ Registered(c)'
           /\ pc'[c] \notin {"clients2", "logged2"}
           /\ pc'[c] = "account" => req'[c].op = "list"
    <3>1. Registered(c)
      BY <1>2 DEF SessionOK
    <3>2. CASE Register(c) \/ Close(c)
      BY <1>2, <3>1, <3>2
         DEF Register, Close, Goto, Busy, Registered, TypeOK, thread
    <3>3. CASE Receive(c)
      BY <1>2, <3>1, <3>3
         DEF Receive, Goto, Busy, Registered, TypeOK, primary
    <3>4. CASE HangUp(c)
      BY <1>2, <3>4 DEF HangUp, QuitRequest, Goto, Busy, Registered, TypeOK
    <3>5. QED
      BY <1>5, <3>2, <3>3, <3>4
  <2>3. QED
    BY <1>2, <1>4, <1>5, <2>1, <2>2, ConnectionIsLocal
<1>6. ASSUME NEW t \in Threads, Round(t)
      PROVE  SessionsInv'
  <2>1. UNCHANGED <<logged_in, told, clients>>
    BY <1>6 DEF Round, AcquireAck, AcquireOther, Replicate, primary, client
  <2>2. \A c \in Clients : \/ UNCHANGED <<pc[c], user[c], upd[c], req[c]>>
                           \/ UNCHANGED <<user[c], upd[c], req[c]>>
                              /\ Busy(c) /\ Busy(c)'
    BY <1>2, <1>6, RoundIsLocal
  <2>3. QED
    BY <1>4, <2>1, <2>2
<1>7. CASE Deliver
  <2>1. UNCHANGED <<logged_in, told, clients>>
    BY <1>7 DEF Deliver, DeliveryStart, DeliveryNext, DeliverySleep,
       DeliveryVisit, DeliverySend, DeliveryUpdate, DeliveryApply, primary,
       client
  <2>2. QED
    BY <1>2, <1>4, <1>7, <2>1, DeliverIsLocal
<1>8. ASSUME NEW r \in Replicas, NEW d \in Clients,
             RepRegister(r, d) \/ RepHangUp(r, d)
      PROVE  SessionsInv'
  BY <1>4, <1>8, ReplicaIsLocal DEF thread, primary, client
<1>9. CASE UNCHANGED vars
  BY <1>4, <1>9 DEF vars, thread, primary, client
<1>10. QED
  BY <1>3, <1>5, <1>6, <1>7, <1>8, <1>9 DEF Next

LEMMA InitSessionsInv == Init => SessionsInv
BY InitTypeInv, ThreadsAreDistinct
   DEF Init, SessionsInv, SessionsAreRegistered, SessionOK, Registered,
       SignedOut, LeavesItsAccount, Known, IsLoggedIn, Busy

LEMMA SessionsInvariant == Spec => []SessionsInv
BY InitSessionsInv, NextSessions, PTL DEF Spec

\* The index [0] in handle_undelivered_messages always exists.
THEOREM SessionsHaveConnections == Spec => []SessionsAreRegistered
<1>1. SessionsInv => SessionsAreRegistered
  BY DEF SessionsInv
<1>2. QED
  BY <1>1, SessionsInvariant, PTL

\* A client's session is the one its last answer spoke of.
THEOREM ClientsKnowTheirSession == Spec => []SessionsAreKnown
<1>1. SessionsInv => SessionsAreKnown
  BY DEF SessionsInv, SessionOK, Known, SessionsAreKnown
<1>2. QED
  BY <1>1, SessionsInvariant, PTL

\* No uuid is ever logged in to two accounts.
THEOREM SessionsAreUnique == Spec => []OneAccountPerClient
<1>1. SessionsInv => OneAccountPerClient
  <2> SUFFICES ASSUME SessionsInv, NEW m \in Names, NEW n \in Names,
                      logged_in[m] = logged_in[n], logged_in[m] # None
               PROVE  m = n
    BY DEF OneAccountPerClient
  <2>1. logged_in[m] \in Clients
    BY DEF SessionsInv, TypeInv, TypeOK
  <2>2. Known(logged_in[m])
    BY <2>1 DEF SessionsInv, SessionOK
  <2>3. QED
    BY <2>2 DEF Known
<1>2. QED
  BY <1>1, SessionsInvariant, PTL

-----------------------------------------------------------------------------
(***************************************************************************)
(* Which locks a thread holds at each place of its code, and what follows  *)
(* from it: the order in which locks are taken, the threads that can end   *)
(* with a lock in hand, and that one round with the replicas is under way  *)
(* at a time.                                                              *)
(***************************************************************************)


(* An account that has existed once is still in the list or was removed by   *)
(* its user.  A session, a login in progress and the removal of an account   *)
(* all speak of such an account.                                             *)

Accounted(n) == account_list[n] > 0 \/ n \in deleted

LogsInAnAccount(c) ==
    \/ pc[c] \in {"clients2", "logged2"}
    \/ Busy(c) /\ upd[c].kind = "login"
    => Accounted(req[c].name)

RemovesAnAccount(c) ==
    req[c].op = "delete" /\ (pc[c] = "account" \/ Busy(c)) =>
        user[c] \in Names /\ Accounted(user[c])

SessionsAccounted == \A n \in Names : logged_in[n] # None => Accounted(n)

ExistenceInv ==
    /\ TypeInv
    /\ SessionsAccounted
    /\ \A c \in Clients : LogsInAnAccount(c) /\ RemovesAnAccount(c)

\* What has been accounted for stays accounted for.
LEMMA AccountedIsStable ==
    ASSUME TypeInv, [Next]_vars, NEW n \in Names, Accounted(n)
    PROVE  Accounted(n)'
<1> USE ThreadsAreDistinct DEF TypeInv, TypeOK, Accounted, primary, history
<1>1. ASSUME NEW c \in Clients, CreateApply(c)
      PROVE  Accounted(n)'
  BY <1>1 DEF CreateApply
<1>2. ASSUME NEW c \in Clients, DeleteApply(c)
      PROVE  Accounted(n)'
  BY <1>2 DEF DeleteApply
<1>3. CASE UNCHANGED <<account_list, deleted>>
  BY <1>3
<1>4. ASSUME NEW c \in Clients, Handle(c)
      PROVE  Accounted(n)'
  BY <1>1, <1>2, <1>3, <1>4
     DEF Handle, AcquireClients, Quit, CreateCheck, CreateAccount,
         LogInClients, LogInLogged, LoginCheck, LoginAccount, LoginApply,
         LogoffCheck, LogoffApply, DeleteAccount, SendCheck, SendRecipient,
         SendQueue, SendApply, ListAccounts
<1>5. ASSUME NEW c \in Clients,
             Register(c) \/ Close(c) \/ Receive(c) \/ HangUp(c)
      PROVE  Accounted(n)'
  BY <1>3, <1>5 DEF Register, Close, Receive, HangUp
<1>6. ASSUME NEW t \in Threads, Round(t)
      PROVE  Accounted(n)'
  BY <1>3, <1>6 DEF Round, AcquireAck, AcquireOther, Replicate
<1>7. CASE Deliver
  BY <1>3, <1>7 DEF Deliver, DeliveryStart, DeliveryNext, DeliverySleep,
     DeliveryVisit, DeliverySend, DeliveryUpdate, DeliveryApply
<1>8. ASSUME NEW r \in Replicas, NEW c \in Clients,
             RepRegister(r, c) \/ RepHangUp(r, c)
      PROVE  Accounted(n)'
  BY <1>3, <1>8, ReplicaIsLocal
<1>9. CASE UNCHANGED vars
  BY <1>3, <1>9 DEF vars
<1>10. QED
  BY <1>4, <1>5, <1>6, <1>7, <1>8, <1>9 DEF Next

\* The accounts a handler's own step speaks of.
LEMMA HandleKeepsExistence ==
    ASSUME ExistenceInv, NEW c \in Clients, Handle(c),
           \A n \in Names : Accounted(n) => Accounted(n)'
    PROVE  SessionsAccounted' /\ LogsInAnAccount(c)' /\ RemovesAnAccount(c)'
<1> USE ThreadsAreDistinct
    DEF ExistenceInv, TypeInv, HandlersInStep, TypeOK, InStep,
        SessionsAccounted, LogsInAnAccount, RemovesAnAccount, Busy,
        Acknowledged, Looking, Goto, Respond, RespondOther, Replicating,
        Update, primary, thread, batch, client, history
<1>1. CASE AcquireClients(c)
  BY <1>1 DEF AcquireClients
<1>2. CASE Quit(c)
  BY <1>2 DEF Quit, Logoff
<1>3. CASE CreateCheck(c)
  BY <1>3 DEF CreateCheck
<1>4. CASE CreateAccount(c)
  BY <1>4 DEF CreateAccount
<1>5. CASE CreateApply(c)
  <2>1. req[c].op = "create" /\ req[c].name \in Names /\ UNCHANGED req
    BY <1>5 DEF CreateApply
  <2>2. /\ account_list[req[c].name] \in Nat
        /\ account_list'[req[c].name] = account_list[req[c].name] + 1
    BY <1>5, <2>1 DEF CreateApply
  <2>3. Accounted(req[c].name)'
    BY ONLY <2>1, <2>2 DEF Accounted
  <2>4. QED
    BY <1>5, <2>1, <2>3 DEF CreateApply
<1>6. CASE LogInClients(c) \/ LogInLogged(c)
  BY <1>6 DEF LogInClients, LogInLogged
<1>7. CASE LoginCheck(c)
  BY <1>7 DEF LoginCheck
<1>8. CASE LoginAccount(c)
  BY <1>8 DEF LoginAccount, Available, Accounted
<1>9. CASE LoginApply(c)
  BY <1>9 DEF LoginApply
<1>10. CASE LogoffCheck(c)
  <2>1. UNCHANGED <<req, logged_in>>
    BY <1>10 DEF LogoffCheck
  <2>2. \/ pc'[c] = "idle"
        \/ /\ pc'[c] = "ack" /\ upd'[c].kind = "logoff"
           /\ user'[c] = GetUsername(logged_in, c) /\ IsLoggedIn(c)
    BY <1>10 DEF LogoffCheck
  <2>3. IsLoggedIn(c) => /\ GetUsername(logged_in, c) \in Names
                         /\ logged_in[GetUsername(logged_in, c)] = c
    BY GetUsernameFinds DEF IsLoggedIn
  <2>4. QED
    BY <2>1, <2>2, <2>3
<1>11. CASE LogoffApply(c)
  BY <1>11 DEF LogoffApply, Logoff
<1>12. CASE DeleteAccount(c)
  BY <1>12 DEF DeleteAccount
<1>13. CASE DeleteApply(c)
  BY <1>13 DEF DeleteApply, QuitRequest
<1>14. CASE SendCheck(c) \/ SendRecipient(c) \/ SendApply(c)
  BY ZenonT(30), <1>14 DEF SendCheck, SendRecipient, SendApply
<1>15. CASE SendQueue(c)
  BY <1>15 DEF SendQueue
<1>16. CASE ListAccounts(c)
  BY <1>16 DEF ListAccounts
<1>17. QED
  BY <1>1, <1>2, <1>3, <1>4, <1>5, <1>6, <1>7, <1>8, <1>9, <1>10, <1>11,
     <1>12, <1>13, <1>14, <1>15, <1>16 DEF Handle

LEMMA NextExistence == ExistenceInv /\ [Next]_vars => ExistenceInv'
<1> SUFFICES ASSUME ExistenceInv, [Next]_vars
             PROVE  ExistenceInv'
  OBVIOUS
<1> USE ThreadsAreDistinct
<1>1. TypeInv'
  BY NextTypeInv DEF ExistenceInv
<1>2. /\ TypeOK /\ SessionsAccounted
      /\ \A c \in Clients : InStep(c) /\ LogsInAnAccount(c)
                                      /\ RemovesAnAccount(c)
  BY DEF ExistenceInv, TypeInv, HandlersInStep
<1>3. \A n \in Names : Accounted(n) => Accounted(n)'
  BY AccountedIsStable DEF ExistenceInv
<1>4. ASSUME NEW c \in Clients,
             \/ UNCHANGED <<pc[c], upd[c], req[c], user[c]>>
             \/ UNCHANGED <<upd[c], req[c], user[c]>> /\ Busy(c) /\ Busy(c)'
             \/ /\ ~Busy(c)' /\ pc'[c] \notin {"clients2", "logged2"}
                /\ pc'[c] = "account" => req'[c].op = "list"
      PROVE  LogsInAnAccount(c)' /\ RemovesAnAccount(c)'
  <2>1. /\ InStep(c)' /\ InStep(c) /\ LogsInAnAccount(c)
        /\ RemovesAnAccount(c)
    BY <1>1, <1>2 DEF TypeInv, HandlersInStep
  <2>2. CASE /\ UNCHANGED <<upd[c], req[c], user[c]>>
             /\ pc'[c] = pc[c] \/ (Busy(c) /\ Busy(c)')
    BY <2>1, <2>2, <1>3
       DEF LogsInAnAccount, RemovesAnAccount, Busy, InStep
  <2>3. CASE /\ ~Busy(c)' /\ pc'[c] \notin {"clients2", "logged2"}
             /\ pc'[c] = "account" => req'[c].op = "list"
    BY <2>3 DEF LogsInAnAccount, RemovesAnAccount
  <2>4. QED
    BY <1>4, <2>2, <2>3
<1>5. ASSUME NEW c \in Clients, Handle(c)
      PROVE  ExistenceInv'
  BY <1>1, <1>2, <1>3, <1>4, <1>5, HandleIsLocal, HandleKeepsExistence
     DEF ExistenceInv
<1>6. ASSUME UNCHANGED logged_in,
             \A c \in Clients :
                 \/ UNCHANGED <<pc[c], upd[c], req[c], user[c]>>
                 \/ UNCHANGED <<upd[c], req[c], user[c]>>
                    /\ Busy(c) /\ Busy(c)'
                 \/ /\ ~Busy(c)' /\ pc'[c] \notin {"clients2", "logged2"}
                    /\ pc'[c] = "account" => req'[c].op = "list"
      PROVE  ExistenceInv'
  BY <1>1, <1>2, <1>3, <1>4, <1>6 DEF ExistenceInv, SessionsAccounted
<1>7. ASSUME NEW c \in Clients,
             Register(c) \/ Close(c) \/ Receive(c) \/ HangUp(c)
      PROVE  ExistenceInv'
  <2>1. UNCHANGED logged_in
    BY <1>7 DEF Register, Close, Receive, HangUp, primary
  <2>2. \/ UNCHANGED <<pc[c], upd[c], req[c], user[c]>>
        \/ /\ ~Busy(c)' /\ pc'[c] \notin {"clients2", "logged2"}
           /\ pc'[c] = "account" => req'[c].op = "list"
    BY <1>2, <1>7
       DEF Register, Close, Receive, HangUp, Goto, Busy, TypeOK, thread
  <2>3. QED
    BY <1>2, <1>6, <1>7, <2>1, <2>2, ConnectionIsLocal
<1>8. ASSUME NEW t \in Threads, Round(t)
      PROVE  ExistenceInv'
  <2>1. UNCHANGED logged_in
    BY <1>8 DEF Round, AcquireAck, AcquireOther, Replicate, primary
  <2>2. QED
    BY <1>2, <1>6, <1>8, <2>1, RoundIsLocal
<1>9. CASE Deliver
  <2>1. UNCHANGED logged_in
    BY <1>9 DEF Deliver, DeliveryStart, DeliveryNext, DeliverySleep,
       DeliveryVisit, DeliverySend, DeliveryUpdate, DeliveryApply, primary
  <2>2. QED
    BY <1>2, <1>6, <1>9, <2>1, DeliverIsLocal
<1>10. ASSUME NEW r \in Replicas, NEW d \in Clients,
              RepRegister(r, d) \/ RepHangUp(r, d)
       PROVE  ExistenceInv'
  BY <1>6, <1>10, ReplicaIsLocal DEF thread, primary
<1>11. CASE UNCHANGED vars
  BY <1>6, <1>11 DEF vars, thread, primary
<1>12. QED
  BY <1>5, <1>7, <1>8, <1>9, <1>10, <1>11 DEF Next

LEMMA InitExistence == Init => ExistenceInv
BY InitTypeInv, ThreadsAreDistinct
   DEF Init, ExistenceInv, SessionsAccounted, LogsInAnAccount,
       RemovesAnAccount, Busy, QuitRequest

LEMMA ExistenceInvariant == Spec => []ExistenceInv
BY InitExistence, NextExistence, PTL DEF Spec

-----------------------------------------------------------------------------
(* The locks.  A thread that follows its code holds exactly the locks Has    *)
(* names; one that has run into an exception keeps those Keeps names.        *)

\* Both login locks, over whatever is done to a session.
HasSession(t) ==
    \/ t \in Clients /\ pc[t] = "account" /\ req[t].op = "login"
    \/ pc[t] = "send"
    \/ Busy(t) /\ upd[t].kind \in {"login", "logoff", "setmsgs"}

HasMessages(t) ==
    \/ t = Delivery /\ pc[t] # "sleep"
    \/ Busy(t) /\ upd[t].kind \in {"addmsg", "setmsgs"}

Has(t, l) ==
    \/ l = "account_list_lock" /\ t \in Clients /\ HasAccountList(t)
    \/ l = "undelivered_msg_lock" /\ HasMessages(t)
    \/ l = "clients_lock" /\ pc[t] \in {"logged", "logged2"}
    \/ l \in {"clients_lock", "logged_in_lock"} /\ HasSession(t)
    \/ l = "acknowledgement_lock" /\ pc[t] \in {"other", "round"}
    \/ l = "other_server_lock" /\ pc[t] = "round"

Keeps(t, l) ==
    /\ t \in Clients
    /\ \/ /\ l = "account_list_lock"
          /\ req[t].op = "quit" /\ pc[t] \in {"clients", "logged", "dead"}
          /\ user[t] \in deleted
       \/ l \in {"clients_lock", "logged_in_lock"} /\ pc[t] = "dead"

Owns(t) ==
    \A l \in Locks : /\ Has(t, l) => lock[l] = t
                     /\ lock[l] = t => Has(t, l) \/ Keeps(t, l)

\* The delivery thread is always somewhere in its loop.
DeliveryRuns ==
    /\ pc[Delivery] \in {"sleep", "scan", "logged", "send"} \/ Busy(Delivery)
    /\ Busy(Delivery) => upd[Delivery].kind = "setmsgs"

HandlerPlace(c) ==
    /\ pc[c] \notin {"sleep", "scan", "send"}
    /\ pc[c] = "account" => req[c].op # "quit"

\* A connection that is not in self.clients has not been there yet, or ended as
\* it should.
Fresh(c) ==
    \/ c \in clients /\ pc[c] # "dead"
    \/ user[c] = None /\ told[c] = None
    \/ /\ pc[c] = "dead"
       /\ lock["clients_lock"] # c /\ lock["logged_in_lock"] # c

LocksInv ==
    /\ ExistenceInv
    /\ SessionsInv
    /\ DeliveryRuns
    /\ \A t \in Threads : Owns(t)
    /\ \A c \in Clients : HandlerPlace(c) /\ Fresh(c)

\* A thread takes locks that are free and gives back its own.
OnlyItsLocks(t) ==
    \A l \in Locks : \/ lock'[l] = lock[l]
                     \/ lock[l] = None /\ lock'[l] = t
                     \/ lock[l] = t /\ lock'[l] = None

LEMMA AcquireTakesAFreeLock ==
    ASSUME TypeOK, NEW t \in Threads, NEW l \in Locks, Acquire(t, l)
    PROVE  /\ OnlyItsLocks(t)
           /\ lock[l] = None
           /\ \A k \in Locks : lock'[k] = IF k = l THEN t ELSE lock[k]
BY DEF TypeOK, Acquire, OnlyItsLocks

LEMMA ReleaseGivesBack ==
    ASSUME NEW t \in Threads, NEW held, Release(held),
           \A l \in Locks : l \in held => lock[l] = t
    PROVE  /\ OnlyItsLocks(t)
           /\ \A k \in Locks : lock'[k] = IF k \in held THEN None ELSE lock[k]
BY DEF Release, OnlyItsLocks

\* What every proof about a handler's step starts from.
HandlerReady(c) ==
    /\ InStep(c) /\ Owns(c) /\ HandlerPlace(c) /\ Fresh(c) /\ Registered(c)
    /\ RemovesAnAccount(c)

LEMMA HandleOwnsItsLocks ==
    ASSUME TypeOK, NEW c \in Clients, HandlerReady(c), Handle(c)
    PROVE  /\ OnlyItsLocks(c) /\ Owns(c)' /\ HandlerPlace(c)' /\ Fresh(c)'
<1> USE ThreadsAreDistinct
    DEF TypeOK, HandlerReady, InStep, Busy, HasAccountList, HasSession,
        HasMessages, Has, Keeps, Owns, HandlerPlace, Fresh, Registered,
        OnlyItsLocks, Locks, Acquire, Release, Acknowledged, Looking,
        RoundLocks, LoginLocks, Goto, Respond, RespondOther, Replicating,
        Update, primary, thread, batch, client, history
<1>1. CASE AcquireClients(c)
  BY <1>1 DEF AcquireClients
<1>2. CASE Quit(c)
  BY <1>2 DEF Quit
<1>3. CASE CreateCheck(c)
  BY SMTT(30), <1>3 DEF CreateCheck
<1>4. CASE CreateAccount(c)
  BY <1>4 DEF CreateAccount
<1>5. CASE CreateApply(c)
  BY <1>5 DEF CreateApply
<1>6. CASE LogInClients(c)
  BY <1>6 DEF LogInClients
<1>7. CASE LogInLogged(c)
  BY <1>7 DEF LogInLogged
<1>8. CASE LoginCheck(c)
  BY SMTT(30), <1>8 DEF LoginCheck
<1>9. CASE LoginAccount(c)
  BY <1>9 DEF LoginAccount
<1>10. CASE LoginApply(c)
  BY <1>10 DEF LoginApply
<1>11. CASE LogoffCheck(c)
  BY SMTT(30), <1>11 DEF LogoffCheck
<1>12. CASE LogoffApply(c)
  BY <1>12 DEF LogoffApply
<1>13. CASE DeleteAccount(c)
  BY <1>13 DEF DeleteAccount
<1>14. CASE DeleteApply(c)
  <2>1. /\ pc[c] = "round" /\ upd[c].kind = "remove" /\ req[c].op = "delete"
        /\ UNCHANGED <<clients, user, upd>>
        /\ user[c] \in Names
        /\ account_list[user[c]] > 0 \/ user[c] \in deleted
    BY <1>14 DEF DeleteApply, RemovesAnAccount, Accounted
  <2>2. CASE account_list[user[c]] > 0
    BY SMTT(30), <1>14, <2>1, <2>2 DEF DeleteApply
  <2>3. CASE account_list[user[c]] = 0
    <3>1. /\ lock' = [l \in Locks |-> IF l \in RoundLocks THEN None ELSE lock[l]]
          /\ req'[c].op = "quit" /\ pc'[c] = "clients"
          /\ UNCHANGED <<told, deleted>>
      BY <1>14, <2>1, <2>3 DEF DeleteApply, QuitRequest
    <3>2. user[c] \in deleted
      BY <2>1, <2>3
    <3>3. QED
      BY <2>1, <3>1, <3>2
  <2>4. QED
    BY <1>14, <2>2, <2>3 DEF DeleteApply
<1>15. CASE SendCheck(c)
  BY SMTT(30), <1>15 DEF SendCheck
<1>16. CASE SendRecipient(c)
  BY <1>16 DEF SendRecipient
<1>17. CASE SendQueue(c)
  BY <1>17 DEF SendQueue
<1>18. CASE SendApply(c)
  BY <1>18 DEF SendApply
<1>19. CASE ListAccounts(c)
  BY <1>19 DEF ListAccounts
<1>20. QED
  BY <1>1, <1>2, <1>3, <1>4, <1>5, <1>6, <1>7, <1>8, <1>9, <1>10, <1>11,
     <1>12, <1>13, <1>14, <1>15, <1>16, <1>17, <1>18, <1>19 DEF Handle

LEMMA RoundOwnsItsLocks ==
    ASSUME TypeOK, NEW t \in Threads, Owns(t), Round(t),
           t = Delivery => DeliveryRuns
    PROVE  /\ OnlyItsLocks(t) /\ Owns(t)'
           /\ t = Delivery => DeliveryRuns'
<1> USE ThreadsAreDistinct
    DEF TypeOK, Busy, HasAccountList, HasSession, HasMessages, Has, Keeps,
        Owns, DeliveryRuns, OnlyItsLocks, Locks, Acquire, Goto, thread, batch,
        history
<1>1. CASE AcquireAck(t)
  BY <1>1 DEF AcquireAck
<1>2. CASE AcquireOther(t)
  BY <1>2 DEF AcquireOther
<1>3. ASSUME NEW r \in Replicas, Replicate(t, r)
      PROVE  /\ OnlyItsLocks(t) /\ Owns(t)'
             /\ t = Delivery => DeliveryRuns'
  BY <1>3 DEF Replicate
<1>4. QED
  BY <1>1, <1>2, <1>3 DEF Round

LEMMA DeliverOwnsItsLocks ==
    ASSUME TypeOK, VisitsAName, SessionsAreRegistered, DeliveryRuns,
           Owns(Delivery), Deliver
    PROVE  OnlyItsLocks(Delivery) /\ Owns(Delivery)' /\ DeliveryRuns'
<1> USE ThreadsAreDistinct
    DEF TypeOK, Busy, HasAccountList, HasSession, HasMessages, Has, Keeps,
        Owns, DeliveryRuns, OnlyItsLocks, Locks, Acquire, Release,
        Acknowledged, RoundLocks, LoginLocks, Goto, Replicating, Update,
        thread, batch
<1>1. CASE DeliveryStart
  BY <1>1 DEF DeliveryStart
<1>2. CASE DeliveryNext
  BY <1>2 DEF DeliveryNext
<1>3. CASE DeliverySleep
  BY <1>3 DEF DeliverySleep
<1>4. CASE DeliveryVisit
  <2>1. user[Delivery] \in Names /\ pc[Delivery] = "logged"
    BY <1>4 DEF DeliveryVisit, VisitsAName
  <2>2. \/ Release({"clients_lock"}) /\ Goto(Delivery, "scan")
        \/ Acquire(Delivery, "logged_in_lock") /\ Goto(Delivery, "send")
    BY <1>4, <2>1 DEF DeliveryVisit, SessionsAreRegistered
  <2>3. UNCHANGED upd
    BY <1>4 DEF DeliveryVisit
  <2>4. QED
    BY <2>1, <2>2, <2>3
<1>5. CASE DeliverySend
  BY <1>5 DEF DeliverySend
<1>6. CASE DeliveryUpdate
  BY <1>6 DEF DeliveryUpdate
<1>7. CASE DeliveryApply
  BY <1>7 DEF DeliveryApply
<1>8. QED
  BY <1>1, <1>2, <1>3, <1>4, <1>5, <1>6, <1>7 DEF Deliver

LEMMA OthersStillOwn ==
    ASSUME NEW s \in Threads, OnlyItsLocks(s), NEW t \in Threads, t # s,
           Owns(t), deleted \subseteq deleted',
           UNCHANGED <<pc[t], user[t], upd[t]>>,
           t \in Clients => UNCHANGED req[t]
    PROVE  Owns(t)'
BY ThreadsAreDistinct
   DEF OnlyItsLocks, Owns, Has, Keeps, HasAccountList, HasSession,
       HasMessages, Busy

\* Names that were removed once are never forgotten.
LEMMA DeletedGrows == TypeOK /\ [Next]_vars => deleted \subseteq deleted'
<1> SUFFICES ASSUME TypeOK, [Next]_vars
             PROVE  deleted \subseteq deleted'
  OBVIOUS
<1> USE DEF TypeOK, history, client
<1>1. ASSUME NEW c \in Clients, Handle(c)
      PROVE  deleted \subseteq deleted'
  BY <1>1
     DEF Handle, AcquireClients, Quit, CreateCheck, CreateAccount,
         CreateApply, LogInClients, LogInLogged, LoginCheck, LoginAccount,
         LoginApply, LogoffCheck, LogoffApply, DeleteAccount, DeleteApply,
         SendCheck, SendRecipient, SendQueue, SendApply, ListAccounts
<1>2. ASSUME NEW c \in Clients,
             Register(c) \/ Close(c) \/ Receive(c) \/ HangUp(c)
      PROVE  deleted \subseteq deleted'
  BY <1>2 DEF Register, Close, Receive, HangUp
<1>3. ASSUME NEW t \in Threads, Round(t)
      PROVE  deleted \subseteq deleted'
  BY <1>3 DEF Round, AcquireAck, AcquireOther, Replicate
<1>4. CASE Deliver
  BY <1>4 DEF Deliver, DeliveryStart, DeliveryNext, DeliverySleep,
     DeliveryVisit, DeliverySend, DeliveryUpdate, DeliveryApply
<1>5. ASSUME NEW r \in Replicas, NEW c \in Clients,
             RepRegister(r, c) \/ RepHangUp(r, c)
      PROVE  deleted \subseteq deleted'
  BY <1>5, ReplicaIsLocal
<1>6. CASE UNCHANGED vars
  BY <1>6 DEF vars
<1>7. QED
  BY <1>1, <1>2, <1>3, <1>4, <1>5, <1>6 DEF Next

LEMMA NextLocks == LocksInv /\ [Next]_vars => LocksInv'
<1> SUFFICES ASSUME LocksInv, [Next]_vars
             PROVE  LocksInv'
  OBVIOUS
<1> USE ThreadsAreDistinct
<1>1. ExistenceInv' /\ SessionsInv'
  BY NextExistence, NextSessions DEF LocksInv
<1>2. /\ TypeOK /\ VisitsAName /\ SessionsAreRegistered /\ DeliveryRuns
      /\ \A t \in Threads : Owns(t)
      /\ \A c \in Clients : HandlerReady(c)
  BY DEF LocksInv, ExistenceInv, SessionsInv, TypeInv, HandlersInStep,
         SessionOK, HandlerReady
<1>3. deleted \subseteq deleted'
  BY <1>2, DeletedGrows
<1>4. \A c \in Clients : HandlerPlace(c) /\ Fresh(c)
  BY DEF LocksInv
<1>5. ASSUME NEW c \in Clients, Handle(c)
      PROVE  LocksInv'
  <2>1. OnlyItsLocks(c) /\ Owns(c)' /\ HandlerPlace(c)' /\ Fresh(c)'
    BY <1>2, <1>5, HandleOwnsItsLocks
  <2>2. \A t \in Threads \ {c} : /\ UNCHANGED <<pc[t], user[t], upd[t]>>
                                 /\ t \in Clients => UNCHANGED req[t]
    BY <1>2, <1>5, HandleIsLocal
  <2>3. \A t \in Threads : Owns(t)'
    BY <1>2, <1>3, <2>1, <2>2, OthersStillOwn
  <2>4. DeliveryRuns'
    BY <1>2, <2>2 DEF DeliveryRuns, Busy
  <2>5. ASSUME NEW d \in Clients, d # c
        PROVE  HandlerPlace(d)' /\ Fresh(d)'
    <3>1. UNCHANGED <<pc[d], user[d], upd[d], req[d]>>
      BY <2>2, <2>5
    <3>2. (d \in clients => d \in clients') /\ told'[d] = told[d]
      BY <1>2, <1>5, <2>5, HandleKeepsOtherSessions
    <3>3. \A l \in Locks : lock[l] # d => lock'[l] # d
      BY <2>1, <2>5 DEF OnlyItsLocks
    <3>4. QED
      BY <1>4, <3>1, <3>2, <3>3 DEF HandlerPlace, Fresh, Locks
  <2>6. QED
    BY <1>1, <2>1, <2>3, <2>4, <2>5 DEF LocksInv
<1>6. ASSUME NEW c \in Clients,
             Register(c) \/ Close(c) \/ Receive(c) \/ HangUp(c)
      PROVE  LocksInv'
  <2>1. UNCHANGED <<lock, told, upd, user>> /\ clients \subseteq clients'
    BY <1>6 DEF Register, Close, Receive, HangUp, primary, client, thread
  <2>2. \A t \in Threads \ {c} : /\ UNCHANGED <<pc[t], user[t], upd[t]>>
                                 /\ t \in Clients => UNCHANGED req[t]
    BY <1>2, <1>6, ConnectionIsLocal
  <2>3. \/ UNCHANGED <<pc[c], req[c]>>
        \/ /\ pc[c] \in {"new", "idle"} /\ pc'[c] \in {"idle", "clients"}
        \/ /\ pc[c] = "idle" /\ pc'[c] = "account" /\ req'[c].op = "list"
    BY <1>2, <1>6
       DEF Register, Close, Receive, HangUp, Goto, TypeOK, thread
  <2>4. Owns(c)' /\ HandlerPlace(c)'
    <3>1. Owns(c) /\ HandlerPlace(c)
      BY <1>2, <1>4
    <3>2. QED
      BY <1>3, <2>1, <2>3, <3>1
         DEF Owns, Has, Keeps, HasAccountList, HasSession, HasMessages, Busy,
             HandlerPlace
  <2>5. \A t \in Threads \ {c} : Owns(t)'
    BY <1>2, <1>3, <2>1, <2>2, OthersStillOwn DEF OnlyItsLocks
  <2>6. ASSUME NEW d \in Clients
        PROVE  HandlerPlace(d)' /\ Fresh(d)'
    <3>1. Fresh(d)'
      <4>1. pc[d] = "dead" <=> pc'[d] = "dead"
        BY <2>2, <2>3
      <4>2. QED
        BY <1>4, <2>1, <4>1 DEF Fresh
    <3>2. d # c => HandlerPlace(d)'
      BY <1>4, <2>2 DEF HandlerPlace
    <3>3. QED
      BY <2>4, <3>1, <3>2
  <2>7. DeliveryRuns'
    BY <1>2, <2>2 DEF DeliveryRuns, Busy
  <2>8. QED
    BY <1>1, <2>4, <2>5, <2>6, <2>7 DEF LocksInv
<1>7. ASSUME NEW t \in Threads,
             OnlyItsLocks(t), Owns(t)', DeliveryRuns',
             \A s \in Threads \ {t} : UNCHANGED <<pc[s], user[s], upd[s]>>,
             UNCHANGED <<req, told, clients>>,
             \A c \in Clients :
                 \/ c # t /\ UNCHANGED <<pc[c], user[c]>>
                 \/ UNCHANGED user[c] /\ Busy(c) /\ Busy(c)'
      PROVE  LocksInv'
  <2>1. \A s \in Threads : Owns(s)'
    BY <1>2, <1>3, <1>7, OthersStillOwn
  <2>2. ASSUME NEW c \in Clients
        PROVE  HandlerPlace(c)' /\ Fresh(c)'
    <3>1. pc[c] = "dead" =>
            /\ pc'[c] = "dead"
            /\ lock["clients_lock"] # c => lock'["clients_lock"] # c
            /\ lock["logged_in_lock"] # c => lock'["logged_in_lock"] # c
      BY <1>7 DEF OnlyItsLocks, Locks, Busy
    <3>2. QED
      BY <1>4, <1>7, <3>1 DEF HandlerPlace, Fresh, Busy
  <2>3. QED
    BY <1>1, <1>7, <2>1, <2>2 DEF LocksInv
<1>8. ASSUME NEW t \in Threads, Round(t)
      PROVE  LocksInv'
  <2>1. OnlyItsLocks(t) /\ Owns(t)' /\ (t = Delivery => DeliveryRuns')
    BY <1>2, <1>8, RoundOwnsItsLocks
  <2>2. \A s \in Threads : /\ UNCHANGED <<user[s], upd[s], req>>
                           /\ s # t => UNCHANGED pc[s]
                           /\ s = t => Busy(s) /\ Busy(s)'
    BY <1>2, <1>8, RoundIsLocal
  <2>3. UNCHANGED <<told, clients>>
    BY <1>8 DEF Round, AcquireAck, AcquireOther, Replicate, primary, client
  <2>4. t # Delivery => DeliveryRuns'
    BY <1>2, <2>2 DEF DeliveryRuns, Busy
  <2>5. QED
    BY <1>7, <2>1, <2>2, <2>3, <2>4
<1>9. CASE Deliver
  <2>1. OnlyItsLocks(Delivery) /\ Owns(Delivery)' /\ DeliveryRuns'
    BY <1>2, <1>9, DeliverOwnsItsLocks
  <2>2. UNCHANGED <<req, told, clients>>
    BY <1>9 DEF Deliver, DeliveryStart, DeliveryNext, DeliverySleep,
       DeliveryVisit, DeliverySend, DeliveryUpdate, DeliveryApply, primary,
       client, thread
  <2>3. \A c \in Clients : UNCHANGED <<pc[c], user[c], upd[c]>>
    BY <1>2, <1>9, DeliverIsLocal
  <2>4. QED
    BY <1>7, <2>1, <2>2, <2>3
<1>10. CASE UNCHANGED <<lock, pc, user, upd, req, told, clients>>
  <2>1. OnlyItsLocks(Delivery) /\ DeliveryRuns'
    BY <1>2, <1>10 DEF OnlyItsLocks, DeliveryRuns, Busy
  <2>2. Owns(Delivery)'
    BY <1>2, <1>3, <1>10
       DEF Owns, Has, Keeps, HasAccountList, HasSession, HasMessages, Busy
  <2>3. QED
    BY <1>7, <1>10, <2>1, <2>2
<1>11. ASSUME NEW r \in Replicas, NEW d \in Clients,
              RepRegister(r, d) \/ RepHangUp(r, d)
       PROVE  LocksInv'
  BY <1>10, <1>11, ReplicaIsLocal DEF thread, primary, client
<1>12. CASE UNCHANGED vars
  BY <1>10, <1>12 DEF vars, thread, primary, client
<1>13. QED
  BY <1>5, <1>6, <1>8, <1>9, <1>11, <1>12 DEF Next

LEMMA InitLocks == Init => LocksInv
<1> USE ThreadsAreDistinct
<1>1. Init => ExistenceInv /\ SessionsInv
  BY InitExistence, InitSessionsInv
<1>2. Init => DeliveryRuns /\ \A c \in Clients : HandlerPlace(c) /\ Fresh(c)
  BY DEF Init, DeliveryRuns, HandlerPlace, Fresh, Busy
<1>3. Init => \A t \in Threads : Owns(t)
  BY DEF Init, Owns, Has, Keeps, HasAccountList, HasSession, HasMessages,
         Busy
<1>4. QED
  BY <1>1, <1>2, <1>3 DEF LocksInv

LEMMA LocksInvariant == Spec => []LocksInv
BY InitLocks, NextLocks, PTL DEF Spec

-----------------------------------------------------------------------------
(* What the locks a thread holds say about it.                              *)

LEMMA OrderFollows == LocksInv => LocksAreOrdered
<1> SUFFICES ASSUME LocksInv, NEW t \in Threads, Wants(t) # None,
                    ~(t \in Clients /\ pc[t] = "account" /\ req[t].op = "login"),
                    NEW l \in Locks, lock[l] = t
             PROVE  Rank[l] < Rank[Wants(t)]
  BY DEF LocksAreOrdered
<1> USE ThreadsAreDistinct
<1>1. /\ Has(t, l) \/ Keeps(t, l)
      /\ t = Delivery => DeliveryRuns
      /\ t \in Clients => InStep(t) /\ HandlerPlace(t)
      /\ pc[t] \in Labels
  BY DEF LocksInv, Owns, ExistenceInv, TypeInv, HandlersInStep, TypeOK
<1>2. Wants(t) \in Locks
  BY <1>1 DEF Wants, Locks, Labels
<1>3. Keeps(t, l) => /\ l = "account_list_lock"
                     /\ Wants(t) \in {"clients_lock", "logged_in_lock"}
  BY <1>1 DEF Keeps, Wants
<1>4. Has(t, l) =>
        \/ l = "account_list_lock" /\ Wants(t) # "account_list_lock"
        \/ /\ l = "undelivered_msg_lock"
           /\ Wants(t) \notin {"account_list_lock", "undelivered_msg_lock"}
        \/ /\ l = "clients_lock"
           /\ Wants(t) \in {"logged_in_lock", "acknowledgement_lock",
                            "other_server_lock"}
        \/ /\ l = "logged_in_lock"
           /\ Wants(t) \in {"acknowledgement_lock", "other_server_lock"}
        \/ l = "acknowledgement_lock" /\ Wants(t) = "other_server_lock"
  BY <1>1
     DEF Has, HasAccountList, HasSession, HasMessages, Busy, InStep,
         HandlerPlace, DeliveryRuns, Wants
<1>5. QED
  BY <1>1, <1>2, <1>3, <1>4 DEF Rank, Locks

\* Threads take the six locks in one order, but for process_login, which waits
\* for account_list_lock with the two login locks in hand.
THEOREM LocksAreTakenInOrder == Spec => []LocksAreOrdered
BY OrderFollows, LocksInvariant, PTL

\* If threads wait for each other in a circle, one of them is in process_login
\* and waits for account_list_lock: its look-up of the account is the only
\* place where the server's threads can deadlock.
CircularWaitsNeedALogin ==
    \A S \in SUBSET Threads :
        /\ S # {}
        /\ \A t \in S : Wants(t) # None /\ lock[Wants(t)] \in S
        => \E t \in S : t \in Clients /\ pc[t] = "account"
                                      /\ req[t].op = "login"

LEMMA WantsALock ==
    ASSUME NEW t, Wants(t) # None
    PROVE  Wants(t) \in Locks
BY DEF Wants, Locks

\* Along a circle of waits every lock would have a higher rank than the last.
LEMMA OrderPreventsCircles == LocksAreOrdered => CircularWaitsNeedALogin
<1> SUFFICES ASSUME LocksAreOrdered, NEW S \in SUBSET Threads, S # {},
                    \A t \in S : Wants(t) # None /\ lock[Wants(t)] \in S,
                    ~ \E t \in S : t \in Clients /\ pc[t] = "account"
                                                 /\ req[t].op = "login"
             PROVE  FALSE
  BY DEF CircularWaitsNeedALogin
<1> DEFINE next(t) == lock[Wants(t)]
           height(t) == Rank[Wants(t)]
<1>1. \A t \in S : next(t) \in S /\ height(t) \in 1 .. 6
  <2>1. \A l \in Locks : Rank[l] \in 1 .. 6
    BY DEF Rank, Locks
  <2>2. QED
    BY <2>1, WantsALock
<1>2. \A t \in S : height(t) < height(next(t))
  BY <1>1, WantsALock DEF LocksAreOrdered
<1> HIDE DEF next, height
<1>3. PICK t \in S : TRUE
  OBVIOUS
<1>4. /\ next(t) \in S /\ next(next(t)) \in S /\ next(next(next(t))) \in S
      /\ next(next(next(next(t)))) \in S
      /\ next(next(next(next(next(t))))) \in S
      /\ next(next(next(next(next(next(t)))))) \in S
  BY <1>1, <1>3
<1>5. QED
  BY <1>1, <1>2, <1>3, <1>4

\* No circle of waiting threads without a login in it.
THEOREM OnlyLoginsDeadlock == Spec => []CircularWaitsNeedALogin
BY LocksAreTakenInOrder, OrderPreventsCircles, PTL

\* other_server_lock is held over a whole round: the replicas see the updates
\* of all threads one after the other.
OneRoundAtATime ==
    \A s, t \in Threads : pc[s] = "round" /\ pc[t] = "round" => s = t

\* No two threads replicate an update at the same time.
THEOREM RoundsAreSerial == Spec => []OneRoundAtATime
<1>1. LocksInv => OneRoundAtATime
  BY DEF LocksInv, Owns, Has, Locks, OneRoundAtATime
<1>2. QED
  BY <1>1, LocksInvariant, PTL

=============================================================================
