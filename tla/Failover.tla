------------------------------ MODULE Failover ------------------------------
(***************************************************************************)
(* The tables of all servers (src/server.py), when servers crash between   *)
(* any two messages of an operation or a delivery, and the next primary    *)
(* goes on with the tables it has.  Which server serves is Leadership's    *)
(* part, which Election implements.                                        *)
(*                                                                         *)
(* Rounds are the unit: acknowledgement_lock lets one update at a time be  *)
(* sent to the replicas.  The locks of the tables only appear as what keeps*)
(* an operation from beginning its round; that they can block each other   *)
(* for ever is ChatServer's subject.  Requests that are refused change     *)
(* nothing and are left out.                                               *)
(*                                                                         *)
(* Timing: what a primary sent before it crashed has been read by the      *)
(* replicas before the next one serves, which takes a missed heartbeat and *)
(* an exchange with every server.  An update that was sent and not yet     *)
(* acknowledged is one that was acknowledged just before the crash.        *)
(***************************************************************************)
EXTENDS Integers, Sequences, FiniteSets

CONSTANTS
    Servers,      \* the ids in the config file
    Clients,      \* client processes, registered with every server
    Names,        \* account names
    Delivery,     \* the message delivery thread of the primary
    None,         \* no name, no client
    InitAccounts, \* the accounts every server found in its log at start-up
    MaxRequests,  \* how many requests begin altogether
    MaxEnds,      \* how many clients end
    MaxCrashes    \* how many servers crash

ASSUME FailoverAssumptions ==
    /\ Servers \subseteq Nat /\ Servers # {}
    /\ Delivery \notin Clients
    /\ None \notin Clients \cup Names \cup {Delivery}
    /\ InitAccounts \subseteq Names
    /\ MaxRequests \in Nat /\ MaxEnds \in Nat /\ MaxCrashes \in Nat

VARIABLES
    live, serving, \* as in Leadership
    accounts,   \* accounts[s]: how often each name is in s's list of accounts
    sessions,   \* sessions[s]: the uuid logged in to each name on s, or None
    queue,      \* queue[s]: the undelivered messages of each recipient on s
    registered, \* registered[s]: the clients in s's table of connections
    closed,     \* pairs <<p, r>>: r has closed p's connection
    leaked,     \* servers whose account_list_lock is never released
    stuck,      \* servers whose delivery thread ended with its locks held
    round,      \* the update that is being sent to the replicas
    op, about,  \* the request each client's handler works on, and its name
    visit,      \* the recipient whose messages are being sent
    gone,       \* clients that have ended
    told,       \* the account each client was last told it is logged in to
    requests,   \* how many requests have begun
    unsure,     \* history: clients whose request was lost in a crash
    torn,       \* history: names whose account was being changed in a crash
    deleted,    \* history: names whose account has been removed
    adrift,     \* history: clients that ended while they were being logged in,
                \* or whose login or logoff was cut by a crash, or whose
                \* session that login was about to replace
    accepted,   \* history: messages whose sender was told Success
    delivered   \* history: messages handed over to the recipient's socket

L == INSTANCE Leadership

tables    == <<accounts, sessions, queue, registered>>
faults    == <<closed, leaked, stuck>>
leaders   == <<live, serving>>
handlers  == <<op, about, requests>>
histories == <<unsure, torn, deleted, adrift>>
messages  == <<accepted, delivered>>
vars      == <<leaders, tables, faults, round, handlers, visit, gone, told,
               histories, messages>>

\* Messages are numbered; what a replica stores for an empty list is not one.
Messages == 1 .. MaxRequests
Phantom  == 0

Update(by, kind, name, uuid, msgs) ==
    [by |-> by, kind |-> kind, name |-> name, uuid |-> uuid, msgs |-> msgs,
     pend |-> live \ serving]

NoRound == [by |-> None, kind |-> "none", name |-> None, uuid |-> None,
            msgs |-> <<>>, pend |-> {}]

NoVisit == [name |-> None, unsent |-> <<>>, refused |-> <<>>]

Init ==
    /\ L!Init
    /\ accounts = [s \in Servers |->
                     [n \in Names |-> IF n \in InitAccounts THEN 1 ELSE 0]]
    /\ sessions = [s \in Servers |-> [n \in Names |-> None]]
    /\ queue = [s \in Servers |-> [n \in Names |-> <<>>]]
    /\ registered = [s \in Servers |-> Clients]
    /\ closed = {} /\ leaked = {} /\ stuck = {}
    /\ round = NoRound
    /\ op = [c \in Clients |-> "none"]
    /\ about = [c \in Clients |-> None]
    /\ visit = NoVisit
    /\ gone = {}
    /\ told = [c \in Clients |-> None]
    /\ requests = 0
    /\ unsure = {} /\ torn = {} /\ deleted = {} /\ adrift = {}
    /\ accepted = [n \in Names |-> <<>>]
    /\ delivered = [n \in Names |-> <<>>]

-----------------------------------------------------------------------------
(* Servers.                                                                *)

Primary == CHOOSE s \in serving : TRUE

AccountKinds == {"create", "remove"}
LoginKinds   == {"login", "logoff"}

\* Any crash of a replica leaves the others alone.  With the primary go its
\* threads, and with them the requests they were working on.
CrashServer(s) ==
    /\ Cardinality(Servers \ live) < MaxCrashes
    /\ L!Crash(s)
    /\ \/ /\ s \notin serving
          /\ UNCHANGED <<round, op, about, visit, unsure, torn, adrift>>
       \/ /\ s \in serving
          /\ round' = NoRound
          /\ visit' = NoVisit
          /\ op' = [c \in Clients |-> "none"]
          /\ about' = [c \in Clients |-> None]
          /\ unsure' = unsure \cup {c \in Clients : op[c] # "none"}
          /\ torn' = IF round.kind \in AccountKinds
                     THEN torn \cup {round.name} ELSE torn
          /\ adrift' = IF round.kind \in LoginKinds
                       THEN adrift \cup ({round.by, sessions[s][round.name]}
                                           \ {None})
                       ELSE adrift
    /\ UNCHANGED <<tables, faults, gone, told, requests, deleted, messages>>

\* The clients are told, and the delivery thread is started.
BecomePrimary(s) ==
    /\ L!Serve(s)
    /\ UNCHANGED <<tables, faults, round, handlers, visit, gone, told,
                   histories, messages>>

LogoffNothing(table, name) == table \* mutant: the entry stays

Logoff(table, name) == [n \in Names |-> IF n = name THEN None ELSE table[n]]

-----------------------------------------------------------------------------
(* Rounds.                                                                 *)

\* What an update does to the table of r.  Two of them end the connection it
\* came on: the removal of an account that is not there, which also keeps
\* account_list_lock, and two or more messages, which cannot be parsed.
ProcessUpdateAccounts(r, u) ==
    /\ r \notin leaked
    /\ \/ /\ u.kind = "create"
          /\ accounts' = [accounts EXCEPT ![r][u.name] = @ + 1]
          /\ UNCHANGED <<closed, leaked>>
       \/ /\ u.kind = "remove"
          /\ accounts[r][u.name] > 0
          /\ accounts' = [accounts EXCEPT ![r][u.name] = @ - 1]
          /\ UNCHANGED <<closed, leaked>>
       \/ /\ u.kind = "remove"
          /\ accounts[r][u.name] = 0
          /\ leaked' = leaked \cup {r}
          /\ closed' = closed \cup {<<Primary, r>>}
          /\ UNCHANGED accounts
    /\ UNCHANGED <<sessions, queue>>

ProcessUpdateLogin(r, u) ==
    /\ \/ /\ u.kind = "login"
          /\ sessions' = [sessions EXCEPT ![r][u.name] = u.uuid]
       \/ /\ u.kind = "logoff"
          /\ sessions' = [sessions EXCEPT ![r] = Logoff(@, u.name)]
    /\ UNCHANGED <<accounts, queue, closed, leaked>>

ProcessUpdateMessages(r, u) ==
    /\ \/ /\ u.kind = "addmsg"
          /\ queue' = [queue EXCEPT ![r][u.name] = @ \o u.msgs]
          /\ UNCHANGED closed
       \/ /\ u.kind = "setmsgs" /\ Len(u.msgs) < 2
          /\ queue' = [queue EXCEPT ![r][u.name] =
                         IF u.msgs = <<>> THEN <<Phantom>> ELSE u.msgs]
          /\ UNCHANGED closed
       \/ /\ u.kind = "setmsgs" /\ Len(u.msgs) > 1
          /\ closed' = closed \cup {<<Primary, r>>}
          /\ UNCHANGED queue
    /\ UNCHANGED <<accounts, sessions, leaked>>

\* One turn of the loop over the other servers, up to the acknowledgement.  One
\* that has crashed or closed the connection is passed over.
Replicate(r) ==
    /\ r \in round.pend \cap live
    /\ \/ /\ <<Primary, r>> \in closed
          /\ UNCHANGED <<accounts, sessions, queue, closed, leaked>>
       \/ /\ <<Primary, r>> \notin closed
          /\ \/ ProcessUpdateAccounts(r, round)
             \/ ProcessUpdateLogin(r, round)
             \/ ProcessUpdateMessages(r, round)
    /\ round' = [round EXCEPT !.pend = @ \ {r}]
    /\ UNCHANGED <<leaders, registered, stuck, handlers, visit, gone, told,
                   histories, messages>>

\* Mutant: the primary makes the change before the replicas have acknowledged.
AcknowledgedByNobody(kind) == round.kind = kind

Acknowledged(kind) == round.kind = kind /\ round.pend \cap live = {}

-----------------------------------------------------------------------------
(* Requests.                                                               *)

\* The handler of an idle client reads the next request at the primary.
Begin(c, what, n) ==
    /\ round = NoRound
    /\ serving # {}
    /\ Primary \notin stuck
    /\ c \in registered[Primary]
    /\ op[c] = "none"
    /\ requests < MaxRequests
    /\ requests' = requests + 1
    /\ op' = [op EXCEPT ![c] = what]
    /\ about' = [about EXCEPT ![c] = n]

LoggedIn(c) == \E n \in Names : sessions[Primary][n] = c

\* account_list_lock can be had: a create holds it over both of its rounds.
AccountLockIsFree ==
    Primary \notin leaked /\ \A c \in Clients : op[c] # "create"

BeginCreate(c, n) ==
    /\ Begin(c, "create", n)
    /\ AccountLockIsFree
    /\ ~LoggedIn(c)
    /\ accounts[Primary][n] = 0
    /\ round' = Update(c, "create", n, None, <<>>)
    /\ UNCHANGED <<leaders, tables, faults, visit, gone, told, histories,
                   messages>>

ApplyCreate ==
    /\ Acknowledged("create")
    /\ accounts' = [accounts EXCEPT ![Primary][round.name] = @ + 1]
    /\ round' = NoRound
    /\ UNCHANGED <<leaders, sessions, queue, registered, faults, handlers,
                   visit, gone, told, histories, messages>>

\* A client that has ended by the time its login begins is logged in as well.
Racing(c) == adrift' = IF c \in gone THEN adrift \cup {c} ELSE adrift

\* atomicLogIn of the account just created.
CreateLogin(c) ==
    /\ round = NoRound
    /\ op[c] = "create"
    /\ visit = NoVisit
    /\ Primary \notin stuck
    /\ round' = Update(c, "login", about[c], c, <<>>)
    /\ Racing(c)
    /\ UNCHANGED <<leaders, tables, faults, handlers, visit, gone, told,
                   unsure, torn, deleted, messages>>

AvailableIfCreated(name) == accounts[Primary][name] > 0 \* mutant: one check

Available(name) ==
    accounts[Primary][name] > 0 /\ sessions[Primary][name] = None

BeginLogin(c, n) ==
    /\ Begin(c, "login", n)
    /\ visit = NoVisit
    /\ AccountLockIsFree
    /\ ~LoggedIn(c)
    /\ Available(n)
    /\ round' = Update(c, "login", n, c, <<>>)
    /\ Racing(c)
    /\ UNCHANGED <<leaders, tables, faults, visit, gone, told, unsure, torn,
                   deleted, messages>>

RespondUuid(c, name) == \* mutant: the client's uuid in place of the name
    /\ op' = [op EXCEPT ![c] = "none"]
    /\ about' = [about EXCEPT ![c] = None]
    /\ told' = [told EXCEPT ![c] = c]
    /\ unsure' = unsure \ {c}
    /\ UNCHANGED requests

\* The response tells c its account, or that it has none any more.
Respond(c, name) ==
    /\ op' = [op EXCEPT ![c] = "none"]
    /\ about' = [about EXCEPT ![c] = None]
    /\ told' = [told EXCEPT ![c] = name]
    /\ unsure' = unsure \ {c}
    /\ UNCHANGED requests

ApplyLogin ==
    /\ Acknowledged("login")
    /\ sessions' = [sessions EXCEPT ![Primary][round.name] = round.by]
    /\ round' = NoRound
    /\ Respond(round.by, round.name)
    /\ UNCHANGED <<leaders, accounts, queue, registered, faults, visit, gone,
                   torn, deleted, adrift, messages>>

\* process_logoff, and the first half of process_delete_account.
BeginLogoff(c, what, n) ==
    /\ Begin(c, what, n)
    /\ visit = NoVisit
    /\ sessions[Primary][n] = c
    /\ round' = Update(c, "logoff", n, c, <<>>)
    /\ UNCHANGED <<leaders, tables, faults, visit, gone, told, histories,
                   messages>>

ApplyLogoff ==
    /\ Acknowledged("logoff")
    /\ sessions' = [sessions EXCEPT ![Primary] = Logoff(@, round.name)]
    /\ round' = NoRound
    /\ \/ op[round.by] = "logoff" /\ Respond(round.by, None)
       \/ op[round.by] = "delete" /\ UNCHANGED <<handlers, told, unsure>>
    /\ UNCHANGED <<leaders, accounts, queue, registered, faults, visit, gone,
                   torn, deleted, adrift, messages>>

\* The second half, without the login locks.
DeleteRemove(c) ==
    /\ round = NoRound
    /\ op[c] = "delete"
    /\ AccountLockIsFree
    /\ round' = Update(c, "remove", about[c], None, <<>>)
    /\ UNCHANGED <<leaders, tables, faults, handlers, visit, gone, told,
                   histories, messages>>

\* If the account is gone already list.remove raises ValueError, with
\* account_list_lock held, and the connection of the client is given up.
ApplyRemove ==
    /\ Acknowledged("remove")
    /\ round' = NoRound
    /\ LET n == round.name
           c == round.by
       IN  \/ /\ accounts[Primary][n] > 0
              /\ accounts' = [accounts EXCEPT ![Primary][n] = @ - 1]
              /\ deleted' = deleted \cup {n}
              /\ Respond(c, None)
              /\ UNCHANGED <<registered, leaked>>
           \/ /\ accounts[Primary][n] = 0
              /\ leaked' = leaked \cup {Primary}
              /\ registered' = [registered EXCEPT ![Primary] = @ \ {c}]
              /\ op' = [op EXCEPT ![c] = "none"]
              /\ about' = [about EXCEPT ![c] = None]
              /\ unsure' = unsure \cup {c}
              /\ UNCHANGED <<accounts, deleted, told, requests>>
    /\ UNCHANGED <<leaders, sessions, queue, closed, stuck, visit, gone, torn,
                   adrift, messages>>

BeginSend(c, n) ==
    /\ Begin(c, "send", n)
    /\ visit = NoVisit
    /\ AccountLockIsFree
    /\ LoggedIn(c)
    /\ accounts[Primary][n] > 0
    /\ round' = Update(c, "addmsg", n, None, <<requests'>>)
    /\ UNCHANGED <<leaders, tables, faults, visit, gone, told, histories,
                   messages>>

ApplySend ==
    /\ Acknowledged("addmsg")
    /\ queue' = [queue EXCEPT ![Primary][round.name] = @ \o round.msgs]
    /\ accepted' = [accepted EXCEPT ![round.name] = @ \o round.msgs]
    /\ round' = NoRound
    /\ op' = [op EXCEPT ![round.by] = "none"]
    /\ about' = [about EXCEPT ![round.by] = None]
    /\ UNCHANGED <<leaders, accounts, sessions, registered, faults, requests,
                   visit, gone, told, histories, delivered>>

-----------------------------------------------------------------------------
(* The delivery thread of the primary.                                     *)

\* A recipient whose messages are sent now.  From here to DeliveryApply the
\* thread has the locks of messages and logins; rounds of accounts go on.
DeliveryVisit(n) ==
    /\ serving # {}
    /\ Primary \notin stuck
    /\ visit = NoVisit
    /\ round.kind \in AccountKinds \cup {"none"}
    /\ queue[Primary][n] # <<>> /\ sessions[Primary][n] # None
    /\ \/ /\ sessions[Primary][n] \in registered[Primary]
          /\ visit' = [name |-> n, unsent |-> queue[Primary][n],
                       refused |-> <<>>]
          /\ UNCHANGED stuck
       \* IndexError
       \/ /\ sessions[Primary][n] \notin registered[Primary]
          /\ stuck' = stuck \cup {Primary}
          /\ UNCHANGED visit
    /\ UNCHANGED <<leaders, tables, closed, leaked, round, handlers, gone,
                   told, histories, messages>>

\* What a client that has ended refuses is everything from some message on.
DeliverySend ==
    /\ visit.unsent # <<>>
    /\ LET n == visit.name
           m == Head(visit.unsent)
       IN  \/ /\ m = Phantom
              /\ visit' = [visit EXCEPT !.unsent = Tail(@)]
              /\ UNCHANGED delivered
           \/ /\ m # Phantom
              /\ sessions[Primary][n] \in gone => visit.refused = <<>>
              /\ visit' = [visit EXCEPT !.unsent = Tail(@)]
              /\ delivered' = [delivered EXCEPT ![n] = Append(@, m)]
           \/ /\ m # Phantom
              /\ sessions[Primary][n] \in gone
              /\ visit' = [visit EXCEPT !.unsent = Tail(@),
                                        !.refused = Append(@, m)]
              /\ UNCHANGED delivered
    /\ UNCHANGED <<leaders, tables, faults, round, handlers, gone, told,
                   histories, accepted>>

DeliveryUpdate ==
    /\ visit # NoVisit /\ visit.unsent = <<>>
    /\ round = NoRound
    /\ round' = Update(Delivery, "setmsgs", visit.name, None, visit.refused)
    /\ UNCHANGED <<leaders, tables, faults, handlers, visit, gone, told,
                   histories, messages>>

DeliveryEnds ==
    /\ Acknowledged("setmsgs")
    /\ round' = NoRound
    /\ visit' = NoVisit
    /\ UNCHANGED <<leaders, accounts, sessions, registered, faults, handlers,
                   gone, told, histories, messages>>

\* Mutants: the primary's own list stays as it was, or what was refused is lost.
DeliveryApplyNot == DeliveryEnds /\ UNCHANGED queue
DeliveryApplyNone ==
    DeliveryEnds /\ queue' = [queue EXCEPT ![Primary][round.name] = <<>>]

DeliveryApply ==
    /\ DeliveryEnds
    /\ queue' = [queue EXCEPT ![Primary][round.name] = round.msgs]

-----------------------------------------------------------------------------
(* Clients.                                                                *)

Close(c) ==
    /\ c \notin gone
    /\ Cardinality(gone) < MaxEnds
    /\ gone' = gone \cup {c}
    /\ adrift' = IF round.kind = "login" /\ round.by = c
                THEN adrift \cup {c} ELSE adrift
    /\ UNCHANGED <<leaders, tables, faults, round, handlers, visit, told,
                   unsure, torn, deleted, messages>>

\* The end of handle_client.  Every server sees it on its own connection; on
\* the primary the handler is done with its request, and the locks are free.
HangUp(s, c) ==
    /\ s \in live
    /\ c \in gone \cap registered[s]
    /\ s \in serving => /\ op[c] = "none"
                        /\ s \notin stuck
                        /\ visit = NoVisit
                        /\ round.kind \notin LoginKinds
    /\ registered' = [registered EXCEPT ![s] = @ \ {c}]
    /\ \/ /\ \A n \in Names : sessions[s][n] # c
          /\ UNCHANGED sessions
       \/ \E n \in Names :
             /\ sessions[s][n] = c
             /\ sessions' = [sessions EXCEPT ![s] = Logoff(@, n)]
    /\ UNCHANGED <<leaders, accounts, queue, faults, round, handlers, visit,
                   gone, told, histories, messages>>

-----------------------------------------------------------------------------
BeginRequest(c) ==
    \E n \in Names : \/ BeginCreate(c, n) \/ BeginLogin(c, n)
                     \/ BeginLogoff(c, "logoff", n)
                     \/ BeginLogoff(c, "delete", n)
                     \/ BeginSend(c, n)

Continue(c) == CreateLogin(c) \/ DeleteRemove(c)

Round ==
    \/ \E r \in Servers : Replicate(r)
    \/ ApplyCreate \/ ApplyLogin \/ ApplyLogoff \/ ApplyRemove \/ ApplySend

Deliver ==
    \/ \E n \in Names : DeliveryVisit(n)
    \/ DeliverySend \/ DeliveryUpdate \/ DeliveryApply

Next ==
    \/ \E s \in Servers : CrashServer(s) \/ BecomePrimary(s)
    \/ \E c \in Clients : BeginRequest(c) \/ Continue(c) \/ Close(c)
    \/ \E s \in Servers, c \in Clients : HangUp(s, c)
    \/ Round \/ Deliver

Spec == Init /\ [][Next]_vars

-----------------------------------------------------------------------------
UpdateType ==
    [by : Clients \cup {Delivery, None},
     kind : {"none", "create", "remove", "login", "logoff", "addmsg",
             "setmsgs"},
     name : Names \cup {None}, uuid : Clients \cup {None},
     msgs : Seq(Messages), pend : SUBSET Servers]

FailoverTypeOK ==
    /\ live \in SUBSET Servers /\ serving \in SUBSET Servers
    /\ accounts \in [Servers -> [Names -> Nat]]
    /\ sessions \in [Servers -> [Names -> Clients \cup {None}]]
    /\ queue \in [Servers -> [Names -> Seq(Messages \cup {Phantom})]]
    /\ registered \in [Servers -> SUBSET Clients]
    /\ closed \in SUBSET (Servers \X Servers)
    /\ leaked \in SUBSET Servers /\ stuck \in SUBSET Servers
    /\ round \in UpdateType
    /\ op \in [Clients -> {"none", "create", "login", "logoff", "delete",
                           "send"}]
    /\ about \in [Clients -> Names \cup {None}]
    /\ visit \in [name : Names \cup {None},
                  unsent : Seq(Messages \cup {Phantom}),
                  refused : Seq(Messages)]
    /\ gone \in SUBSET Clients
    /\ told \in [Clients -> Names \cup {None}]
    /\ requests \in 0 .. MaxRequests
    /\ unsure \in SUBSET Clients /\ adrift \in SUBSET Clients
    /\ torn \in SUBSET Names /\ deleted \in SUBSET Names
    /\ accepted \in [Names -> Seq(Messages)]
    /\ delivered \in [Names -> Seq(Messages)]

InSeq(m, s) == \E i \in 1 .. Len(s) : s[i] = m

\* Which of the messages accepted for n are not handed over yet.
Waiting(n) == {i \in DOMAIN accepted[n] : ~InSeq(accepted[n][i], delivered[n])}

\* No crash loses, doubles or reorders an accepted message: each server that is
\* left has all that wait, each once, in the order of acceptance.  As long as no
\* replica has closed its connection to a primary, which two refused messages
\* make it do.
AcceptedIsKept ==
    closed = {} =>
        \A s \in live, n \in Names :
            \E place \in [Waiting(n) -> DOMAIN queue[s][n]] :
                \A i, j \in Waiting(n) :
                    /\ \A k \in DOMAIN queue[s][n] :
                          queue[s][n][k] = accepted[n][i] <=> k = place[i]
                    /\ i < j => place[i] < place[j]

Occurrences(m, s) == Cardinality({i \in 1 .. Len(s) : s[i] = m})

\* A message is handed over again only after a crash, once for each.
RedeliveryNeedsACrash ==
    \A n \in Names, m \in Messages :
        Occurrences(m, delivered[n]) <= 1 + Cardinality(Servers \ live)

\* A client that was told it is logged in to n keeps n on every server that is
\* left, whichever of them it is served by next: unless somebody deletes n, or a
\* crash has left n on some servers only, where others can then create it anew.
SessionsSurvive ==
    closed = {} =>
        \A c \in Clients \ (gone \cup unsure), n \in Names \ (deleted \cup torn) :
            op[c] = "none" /\ told[c] = n =>
                \A s \in live : sessions[s][n] = c

\* A session without a connection, which ends the delivery thread of the server
\* that gets to serve, is left only by a client that ended while it was being
\* logged in, or by one whose session a crash has left on some servers only.
SessionsHaveConnections ==
    closed = {} =>
        \A s \in live, n \in Names :
            sessions[s][n] # None =>
                sessions[s][n] \in registered[s] \cup adrift

\* The lists of accounts of the servers left are equal, but for the name whose
\* round is in progress, or was when a primary crashed.
AccountsAgree ==
    closed = {} =>
        \A r, s \in live, n \in Names \ torn :
            accounts[r][n] # accounts[s][n] =>
                round.kind \in AccountKinds /\ round.name = n

\* The service is a mailbox for each account.
Mail == INSTANCE Mailbox
          WITH waiting <- [n \in Names |-> Waiting(n)], intact <- closed = {}

KeepsMail == Mail!Spec

=============================================================================
