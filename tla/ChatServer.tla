----------------------------- MODULE ChatServer -----------------------------
(***************************************************************************)
(* The primary server of the chat service (src/server.py), at the          *)
(* granularity of its locks.  One handler thread per client connection and *)
(* one message delivery thread share four tables, each behind a            *)
(* threading.Lock; every change is sent to every replica, and the          *)
(* acknowledgement awaited, before it is made locally.                     *)
(*                                                                         *)
(* A step takes at most one lock that another thread may hold.  What the   *)
(* thread does next without waiting, and the locks it then gives back,     *)
(* belong to the same step: whatever it touches there it holds the lock of.*)
(*                                                                         *)
(* The clients' uuids are the clients themselves.  The replicas appear as  *)
(* the copies of the tables the primary's updates leave there.  Crashes of *)
(* servers, the choice of a primary and the log files are other modules.   *)
(***************************************************************************)
EXTENDS Naturals, Sequences, FiniteSets

CONSTANTS
    Clients,      \* client processes, one connection to each server
    Names,        \* account names
    Texts,        \* message texts
    Blank,        \* the empty text ""
    Replicas,     \* the servers this primary has connected to
    Delivery,     \* the message delivery thread
    None,         \* no name, no client, no lock owner
    InitAccounts, \* the accounts every server found in its log at start-up
    Ops,          \* what clients do in this instance, a subset of AllOps
    MaxRequests   \* how many requests the clients send altogether

AllOps == {"create", "login", "logoff", "delete", "send", "list", "quit"}

Threads == Clients \cup {Delivery}

ASSUME Assumptions ==
    /\ Delivery \notin Clients
    /\ None \notin Clients \cup Names \cup {Delivery}
    /\ Blank \in Texts
    /\ InitAccounts \subseteq Names
    /\ Ops \subseteq AllOps
    /\ MaxRequests \in Nat

VARIABLES
    lock,          \* lock[l]: the thread that holds l, or None
    pc,            \* what each thread does next, or which lock it waits for
    req,           \* req[c]: the request c's handler thread is working on
    user,          \* the local variable username (delivery: recipient)
    upd,           \* the update a thread is sending to the replicas
    pend,          \* the replicas that have not acknowledged it yet
    todo,          \* recipients the delivery loop has not visited yet
    unsent,        \* what it has yet to send of one recipient's messages
    refused,       \* its undelivered_messages: what it could not send
    account_list,  \* how often each name occurs in the list of accounts
    logged_in,     \* the uuid logged in to each name, or None
    clients,       \* the connections whose uuid is registered
    recipients,    \* keys of the dict of undelivered messages
    undelivered,   \* the undelivered messages of each recipient
    repAccounts, repLogged, repMsgs, \* the same tables on each replica
    repUp,         \* replicas that still read this primary's connection
    repConn,       \* repConn[r][c]: c's connection to r
    repLeaked,     \* locks of r no thread of r will ever release
    gone,          \* clients whose connection to this server is closed
    told,          \* the account the server last told c it is logged in to
    accepted,      \* history: messages whose sender was told Success
    delivered,     \* history: messages handed to the recipient's socket
    deleted,       \* history: names whose account has been removed
    requests       \* how many requests have been received

primary  == <<account_list, logged_in, clients, recipients, undelivered>>
replica  == <<repAccounts, repLogged, repMsgs, repUp, repConn, repLeaked>>
batch    == <<unsent, refused>>
thread   == <<req, user, upd, pend, todo, batch>>
client   == <<gone, told, requests>>
history  == <<accepted, delivered, deleted>>
vars     == <<lock, pc, primary, replica, thread, client, history>>

Locks == {"account_list_lock", "undelivered_msg_lock", "clients_lock",
          "logged_in_lock", "acknowledgement_lock", "other_server_lock"}

Message == [from : Names \cup {None}, text : Texts]

\* What a replica stores when the list it is sent is empty: ''.split('\r')
\* is [''], so process_update_message_state zips one pair of empty strings.
Phantom == [from |-> None, text |-> Blank]

\* The delivery loop sends, and keeps, only messages with a sender and a text.
Real(m) == m.from # None /\ m.text # Blank

Requests ==
    LET Some(ops, names, texts) ==
            [op : Ops \cap ops, name : names, text : texts]
    IN  Some({"create", "login"}, Names, {Blank})
          \cup Some({"send"}, Names, Texts)
          \cup Some({"logoff", "delete", "list"}, {None}, {Blank})

QuitRequest == [op |-> "quit", name |-> None, text |-> Blank]

Update(kind, name, uuid, msgs) ==
    [kind |-> kind, name |-> name, uuid |-> uuid, msgs |-> msgs]

NoUpdate == Update("none", None, None, <<>>)

Init ==
    /\ lock = [l \in Locks |-> None]
    /\ pc = [t \in Threads |-> IF t = Delivery THEN "sleep" ELSE "new"]
    /\ req = [c \in Clients |-> QuitRequest]
    /\ user = [t \in Threads |-> None]
    /\ upd = [t \in Threads |-> NoUpdate]
    /\ pend = [t \in Threads |-> {}]
    /\ todo = {}
    /\ unsent = <<>>
    /\ refused = <<>>
    /\ account_list = [n \in Names |-> IF n \in InitAccounts THEN 1 ELSE 0]
    /\ logged_in = [n \in Names |-> None]
    /\ clients = {}
    /\ recipients = {}
    /\ undelivered = [n \in Names |-> <<>>]
    /\ repAccounts = [r \in Replicas |-> account_list]
    /\ repLogged = [r \in Replicas |-> logged_in]
    /\ repMsgs = [r \in Replicas |-> undelivered]
    /\ repUp = Replicas
    /\ repConn = [r \in Replicas |-> [c \in Clients |-> "new"]]
    /\ repLeaked = [r \in Replicas |-> {}]
    /\ gone = {}
    /\ told = [c \in Clients |-> None]
    /\ accepted = [n \in Names |-> <<>>]
    /\ delivered = [n \in Names |-> <<>>]
    /\ deleted = {}
    /\ requests = 0

-----------------------------------------------------------------------------
(* Locks and the steps every thread is made of.                            *)

\* Mutant: nobody takes account_list_lock, or undelivered_msg_lock.
AcquireNoAccountLock(t, l) ==
    /\ lock[l] = None
    /\ lock' = IF l = "account_list_lock" THEN lock ELSE [lock EXCEPT ![l] = t]
AcquireNoMessageLock(t, l) ==
    /\ lock[l] = None
    /\ lock' = IF l = "undelivered_msg_lock" THEN lock
               ELSE [lock EXCEPT ![l] = t]

Acquire(t, l) == lock[l] = None /\ lock' = [lock EXCEPT ![l] = t]

Release(held) == lock' = [l \in Locks |-> IF l \in held THEN None ELSE lock[l]]

Goto(t, label) == pc' = [pc EXCEPT ![t] = label]

\* Mutant: the request's name is looked up instead of the client's uuid.
IsLoggedInByName(c) == req[c].name \in Names /\ logged_in[req[c].name] = c

IsLoggedIn(c) == \E n \in Names : logged_in[n] = c

\* LoggedInAccounts.get_username and .logoff, on the primary's table or on a
\* replica's copy.
GetUsernameNever(table, c) == None \* mutant: keys are compared, not values

GetUsername(table, c) ==
    IF \E n \in Names : table[n] = c
    THEN CHOOSE n \in Names : table[n] = c
    ELSE None

LogoffNothing(table, name) == table \* mutant: the entry stays

Logoff(table, name) == [n \in Names |-> IF n = name THEN None ELSE table[n]]

\* The response goes out.  A Success of create, login, logoff or delete sets
\* the username on the client's side, any other response leaves it alone.
RespondUuid(c, name) == \* mutant: the client's uuid in place of the name
    /\ Goto(c, "idle")
    /\ told' = [told EXCEPT ![c] = c]

Respond(c, name) ==
    /\ Goto(c, "idle")
    /\ told' = [told EXCEPT ![c] = name]

RespondOther(c) == Goto(c, "idle") /\ UNCHANGED told

\* wait_for_update_*_ack up to its first lock: the caller keeps its locks.
Replicating(t, u) ==
    /\ Goto(t, "ack")
    /\ upd' = [upd EXCEPT ![t] = u]

\* Mutant: no acknowledgement is awaited.
AcknowledgedByNobody(t, kind) == pc[t] = "round" /\ upd[t].kind = kind

\* Every replica has acknowledged t's update (or its connection is broken).
Acknowledged(t, kind) ==
    /\ pc[t] = "round"
    /\ pend[t] = {}
    /\ upd[t].kind = kind

RoundLocks == {"acknowledgement_lock", "other_server_lock"}

AcquireAck(t) ==
    /\ pc[t] = "ack"
    /\ Acquire(t, "acknowledgement_lock")
    /\ Goto(t, "other")
    /\ UNCHANGED <<primary, replica, thread, client, history>>

AcquireOther(t) ==
    /\ pc[t] = "other"
    /\ Acquire(t, "other_server_lock")
    /\ Goto(t, "round")
    /\ pend' = [pend EXCEPT ![t] = Replicas]
    /\ UNCHANGED <<primary, replica, req, user, upd, todo, batch, client,
                   history>>

-----------------------------------------------------------------------------
(* A replica's side of a round: handle_replica reads the update, applies   *)
(* it under the lock of the table and acknowledges it.                     *)

ProcessUpdateAccounts(r, u) ==
    /\ "account_list_lock" \notin repLeaked[r]
    /\ \/ /\ u.kind = "create"
          /\ repAccounts' = [repAccounts EXCEPT ![r][u.name] = @ + 1]
          /\ UNCHANGED <<repUp, repLeaked>>
       \/ /\ u.kind = "remove"
          /\ repAccounts[r][u.name] > 0
          /\ repAccounts' = [repAccounts EXCEPT ![r][u.name] = @ - 1]
          /\ UNCHANGED <<repUp, repLeaked>>
       \* list.remove raises ValueError with account_list_lock held, and
       \* read_packets answers an exception by closing the connection.
       \/ /\ u.kind = "remove"
          /\ repAccounts[r][u.name] = 0
          /\ repUp' = repUp \ {r}
          /\ repLeaked' = [repLeaked EXCEPT ![r] =
                             @ \cup {"account_list_lock"}]
          /\ UNCHANGED repAccounts
    /\ UNCHANGED <<repLogged, repMsgs, repConn>>

\* Mutant: any update logs the name in.
ProcessUpdateLoginOnly(r, u) ==
    /\ u.kind \in {"login", "logoff"}
    /\ "logged_in_lock" \notin repLeaked[r]
    /\ repLogged' = [repLogged EXCEPT ![r][u.name] = u.uuid]
    /\ UNCHANGED <<repAccounts, repMsgs, repUp, repConn, repLeaked>>

ProcessUpdateLogin(r, u) ==
    /\ u.kind \in {"login", "logoff"}
    /\ "logged_in_lock" \notin repLeaked[r]
    /\ repLogged' = [repLogged EXCEPT ![r] =
                       IF u.kind = "login" THEN [@ EXCEPT ![u.name] = u.uuid]
                                           ELSE Logoff(@, u.name)]
    /\ UNCHANGED <<repAccounts, repMsgs, repUp, repConn, repLeaked>>

ProcessUpdateMessages(r, u) ==
    /\ \/ /\ u.kind = "addmsg"
          /\ repMsgs' = [repMsgs EXCEPT ![r][u.name] = @ \o u.msgs]
          /\ UNCHANGED repUp
       \/ /\ u.kind = "setmsgs"
          /\ Len(u.msgs) < 2
          /\ repMsgs' = [repMsgs EXCEPT ![r][u.name] =
                            IF u.msgs = <<>> THEN <<Phantom>> ELSE u.msgs]
          /\ UNCHANGED repUp
       \* The lists are joined with '\r', which also separates the arguments:
       \* parse_data cuts the second sender off and dict() raises ValueError.
       \/ /\ u.kind = "setmsgs"
          /\ Len(u.msgs) > 1
          /\ repUp' = repUp \ {r}
          /\ UNCHANGED repMsgs
    /\ UNCHANGED <<repAccounts, repLogged, repConn, repLeaked>>

\* One turn of the loop over other_server_sockets_connected: send, then wait
\* for the acknowledgement.  The read of a closed connection returns at once.
Replicate(t, r) ==
    /\ pc[t] = "round"
    /\ r \in pend[t]
    /\ \/ /\ r \notin repUp
          /\ UNCHANGED replica
       \/ /\ r \in repUp
          /\ \/ ProcessUpdateAccounts(r, upd[t])
             \/ ProcessUpdateLogin(r, upd[t])
             \/ ProcessUpdateMessages(r, upd[t])
    /\ pend' = [pend EXCEPT ![t] = @ \ {r}]
    /\ UNCHANGED <<lock, pc, primary, req, user, upd, todo, batch, client,
                   history>>

\* The client's own connection to r: registered by process_new_client, ...
RepRegister(r, c) ==
    /\ repConn[r][c] = "new"
    /\ "clients_lock" \notin repLeaked[r]
    /\ repConn' = [repConn EXCEPT ![r][c] = "registered"]
    /\ UNCHANGED <<lock, pc, primary, thread, repAccounts, repLogged, repMsgs,
                   repUp, repLeaked, client, history>>

\* ... and cleaned up by handle_client when the client has ended (a client
\* whose connection the primary has closed keeps this one until then).  If it
\* had not registered, self.clients[...] raises KeyError with both locks held.
RepHangUp(r, c) ==
    /\ "quit" \in Ops
    /\ c \in gone
    /\ repConn[r][c] # "closed"
    /\ repLeaked[r] \cap {"clients_lock", "logged_in_lock"} = {}
    /\ repConn' = [repConn EXCEPT ![r][c] = "closed"]
    /\ \/ /\ repConn[r][c] = "registered"
          /\ repLogged' = [repLogged EXCEPT ![r] =
                             Logoff(@, GetUsername(@, c))]
          /\ UNCHANGED repLeaked
       \/ /\ repConn[r][c] = "new"
          /\ repLeaked' = [repLeaked EXCEPT ![r] =
                             @ \cup {"clients_lock", "logged_in_lock"}]
          /\ UNCHANGED repLogged
    /\ UNCHANGED <<lock, pc, primary, thread, repAccounts, repMsgs, repUp,
                   client, history>>

-----------------------------------------------------------------------------
(* A client's connection to the primary.                                   *)

\* process_new_client, the first message on the connection.
Register(c) ==
    /\ pc[c] = "new"
    /\ lock["clients_lock"] = None
    /\ clients' = clients \cup {c}
    /\ Goto(c, "idle")
    /\ UNCHANGED <<lock, account_list, logged_in, recipients, undelivered,
                   replica, thread, client, history>>

\* The client ends, at any time: its sockets close.
Close(c) ==
    /\ "quit" \in Ops
    /\ c \notin gone
    /\ gone' = gone \cup {c}
    /\ UNCHANGED <<lock, pc, primary, replica, thread, told, requests,
                   history>>

\* read_packets hands the next request to process_operation.  What the client
\* sent before it ended is still read.
Receive(c) ==
    /\ pc[c] = "idle"
    /\ requests < MaxRequests
    /\ requests' = requests + 1
    /\ \E q \in Requests :
          /\ req' = [req EXCEPT ![c] = q]
          /\ Goto(c, IF q.op = "list" THEN "account" ELSE "clients")
    /\ UNCHANGED <<lock, primary, replica, user, upd, pend, todo, batch,
                   gone, told, history>>

\* read_packets returns None and handle_client cleans up.
HangUp(c) ==
    /\ pc[c] \in {"new", "idle"}
    /\ c \in gone
    /\ req' = [req EXCEPT ![c] = QuitRequest]
    /\ Goto(c, "clients")
    /\ UNCHANGED <<lock, primary, replica, user, upd, pend, todo, batch,
                   client, history>>

\* Every handler but the one of LIST_ACCOUNTS starts with clients_lock, ...
AcquireClients(c) ==
    /\ pc[c] = "clients"
    /\ Acquire(c, "clients_lock")
    /\ Goto(c, "logged")
    /\ UNCHANGED <<primary, replica, thread, client, history>>

\* ... then takes logged_in_lock and looks the client up.
Looking(c, ops) ==
    /\ pc[c] = "logged"
    /\ req[c].op \in ops
    /\ lock["logged_in_lock"] = None

ClientsLockOnly == {"clients_lock"} \* mutant: logged_in_lock is not released

LoginLocks == {"clients_lock", "logged_in_lock"}

QuitHolding(c) == \* mutant: the locks are not given back
    /\ Looking(c, {"quit"})
    /\ Goto(c, "dead")
    /\ clients' = clients \ {c}
    /\ logged_in' = Logoff(logged_in, GetUsername(logged_in, c))
    /\ UNCHANGED <<lock, account_list, recipients, undelivered, replica, thread,
                   client, history>>

\* The end of handle_client.  The logoff is not sent to the replicas.
Quit(c) ==
    /\ Looking(c, {"quit"})
    /\ Goto(c, "dead")
    /\ \/ /\ c \in clients
          /\ clients' = clients \ {c}
          /\ logged_in' = Logoff(logged_in, GetUsername(logged_in, c))
          /\ Release({"clients_lock"})
       \* KeyError: the thread ends with both locks held.
       \/ /\ c \notin clients
          /\ Acquire(c, "logged_in_lock")
          /\ UNCHANGED <<clients, logged_in>>
    /\ UNCHANGED <<account_list, recipients, undelivered, replica, thread,
                   client, history>>

-----------------------------------------------------------------------------
(* process_create_account.  account_list_lock is held from the look-up to  *)
(* the end, the two login locks only while it is checked, and again while  *)
(* atomicLogIn makes the new account's owner its user.                     *)

CreateCheck(c) ==
    /\ Looking(c, {"create"})
    /\ Release({"clients_lock"})
    /\ \/ IsLoggedIn(c) /\ RespondOther(c)
       \/ ~IsLoggedIn(c) /\ Goto(c, "account") /\ UNCHANGED told
    /\ UNCHANGED <<primary, replica, thread, gone, requests, history>>

CreateAccount(c) ==
    /\ pc[c] = "account"
    /\ req[c].op = "create"
    /\ lock["account_list_lock"] = None
    /\ \/ /\ account_list[req[c].name] > 0
          /\ RespondOther(c)
          /\ UNCHANGED <<lock, upd>>
       \/ /\ account_list[req[c].name] = 0
          /\ Acquire(c, "account_list_lock")
          /\ Replicating(c, Update("create", req[c].name, None, <<>>))
          /\ UNCHANGED told
    /\ UNCHANGED <<primary, replica, req, user, pend, todo, batch, gone,
                   requests, history>>

CreateApply(c) ==
    /\ Acknowledged(c, "create")
    /\ account_list' = [account_list EXCEPT ![req[c].name] = @ + 1]
    /\ Release(RoundLocks)
    /\ Goto(c, "clients2")
    /\ UNCHANGED <<logged_in, clients, recipients, undelivered, replica,
                   thread, client, history>>

LogInClients(c) ==
    /\ pc[c] = "clients2"
    /\ Acquire(c, "clients_lock")
    /\ Goto(c, "logged2")
    /\ UNCHANGED <<primary, replica, thread, client, history>>

LogInLogged(c) ==
    /\ pc[c] = "logged2"
    /\ Acquire(c, "logged_in_lock")
    /\ Replicating(c, Update("login", req[c].name, c, <<>>))
    /\ UNCHANGED <<primary, replica, req, user, pend, todo, batch, client,
                   history>>

(* process_login.  It looks the account up, behind account_list_lock, while *)
(* it holds the two login locks.                                            *)

LoginCheck(c) ==
    /\ Looking(c, {"login"})
    /\ \/ /\ IsLoggedIn(c)
          /\ RespondOther(c)
          /\ Release({"clients_lock"})
       \/ /\ ~IsLoggedIn(c)
          /\ Acquire(c, "logged_in_lock")
          /\ Goto(c, "account")
          /\ UNCHANGED told
    /\ UNCHANGED <<primary, replica, thread, gone, requests, history>>

AvailableIfCreated(name) == account_list[name] > 0 \* mutant: one check of two

Available(name) == account_list[name] > 0 /\ logged_in[name] = None

LoginAccount(c) ==
    /\ pc[c] = "account"
    /\ req[c].op = "login"
    /\ lock["account_list_lock"] = None
    /\ LET name == req[c].name
       IN  \/ /\ ~Available(name)
              /\ RespondOther(c)
              /\ Release(LoginLocks)
              /\ UNCHANGED upd
           \/ /\ Available(name)
              /\ Replicating(c, Update("login", name, c, <<>>))
              /\ UNCHANGED <<lock, told>>
    /\ UNCHANGED <<primary, replica, req, user, pend, todo, batch, gone,
                   requests, history>>

\* The last step of process_login and, through atomicLogIn, of
\* process_create_account, which also gives account_list_lock back.
LoginApply(c) ==
    /\ Acknowledged(c, "login")
    /\ logged_in' = [logged_in EXCEPT ![req[c].name] = c]
    /\ Release(RoundLocks \cup LoginLocks \cup
               IF req[c].op = "create" THEN {"account_list_lock"} ELSE {})
    /\ Respond(c, req[c].name)
    /\ UNCHANGED <<account_list, clients, recipients, undelivered, replica,
                   thread, gone, requests, history>>

(* process_logoff, and process_delete_account, which begins like it and     *)
(* then removes the account, without the login locks.                       *)

LogoffCheck(c) ==
    /\ Looking(c, {"logoff", "delete"})
    /\ \/ /\ ~IsLoggedIn(c)
          /\ RespondOther(c)
          /\ Release({"clients_lock"})
          /\ UNCHANGED <<user, upd>>
       \/ /\ IsLoggedIn(c)
          /\ Acquire(c, "logged_in_lock")
          /\ user' = [user EXCEPT ![c] = GetUsername(logged_in, c)]
          /\ Replicating(c, Update("logoff", user'[c], c, <<>>))
          /\ UNCHANGED told
    /\ UNCHANGED <<primary, replica, req, pend, todo, batch, gone, requests,
                   history>>

LogoffApply(c) ==
    /\ Acknowledged(c, "logoff")
    /\ logged_in' = Logoff(logged_in, user[c])
    /\ Release(RoundLocks \cup LoginLocks)
    /\ \/ req[c].op = "logoff" /\ Respond(c, None)
       \/ req[c].op = "delete" /\ Goto(c, "account") /\ UNCHANGED told
    /\ UNCHANGED <<account_list, clients, recipients, undelivered, replica,
                   thread, gone, requests, history>>

DeleteAccount(c) ==
    /\ pc[c] = "account"
    /\ req[c].op = "delete"
    /\ Acquire(c, "account_list_lock")
    /\ Replicating(c, Update("remove", user[c], None, <<>>))
    /\ UNCHANGED <<primary, replica, req, user, pend, todo, batch, client,
                   history>>

DeleteApply(c) ==
    /\ Acknowledged(c, "remove")
    /\ \/ /\ account_list[user[c]] > 0
          /\ account_list' = [account_list EXCEPT ![user[c]] = @ - 1]
          /\ deleted' = {n \in Names : n \in deleted \/ n = user[c]}
          /\ Release(RoundLocks \cup {"account_list_lock"})
          /\ Respond(c, None)
          /\ UNCHANGED <<req, gone>>
       \* list.remove raises ValueError: no answer, account_list_lock is kept,
       \* and read_packets gives the connection up.
       \/ /\ account_list[user[c]] = 0
          /\ Release(RoundLocks)
          /\ req' = [req EXCEPT ![c] = QuitRequest]
          /\ gone' = gone \cup {c}
          /\ Goto(c, "clients")
          /\ UNCHANGED <<account_list, told, deleted>>
    /\ UNCHANGED <<logged_in, clients, recipients, undelivered, replica,
                   user, upd, pend, todo, batch, requests, accepted,
                   delivered>>

(* process_list_accounts changes nothing, but waits for account_list_lock.  *)
(* (A malformed pattern is answered before the lock: a step of no effect.)  *)

ListAccounts(c) ==
    /\ pc[c] = "account"
    /\ req[c].op = "list"
    /\ lock["account_list_lock"] = None
    /\ RespondOther(c)
    /\ UNCHANGED <<lock, primary, replica, thread, gone, requests, history>>

(* process_send_msg.  The sender is looked up under the login locks, the    *)
(* recipient under account_list_lock, which is kept while the message is    *)
(* queued under undelivered_msg_lock.                                       *)

SendCheck(c) ==
    /\ Looking(c, {"send"})
    /\ Release({"clients_lock"})
    /\ \/ ~IsLoggedIn(c) /\ RespondOther(c) /\ UNCHANGED user
       \/ /\ IsLoggedIn(c)
          /\ user' = [user EXCEPT ![c] = GetUsername(logged_in, c)]
          /\ Goto(c, "account")
          /\ UNCHANGED told
    /\ UNCHANGED <<primary, replica, req, upd, pend, todo, batch, gone,
                   requests, history>>

SendRecipient(c) ==
    /\ pc[c] = "account"
    /\ req[c].op = "send"
    /\ lock["account_list_lock"] = None
    /\ \/ /\ account_list[req[c].name] = 0
          /\ RespondOther(c)
          /\ UNCHANGED lock
       \/ /\ account_list[req[c].name] > 0
          /\ Acquire(c, "account_list_lock")
          /\ Goto(c, "undelivered")
          /\ UNCHANGED told
    /\ UNCHANGED <<primary, replica, thread, gone, requests, history>>

SendQueue(c) ==
    /\ pc[c] = "undelivered"
    /\ Acquire(c, "undelivered_msg_lock")
    /\ Replicating(c, Update("addmsg", req[c].name, None,
                             <<[from |-> user[c], text |-> req[c].text]>>))
    /\ UNCHANGED <<primary, replica, req, user, pend, todo, batch, client,
                   history>>

SendApply(c) ==
    /\ Acknowledged(c, "addmsg")
    /\ undelivered' = [undelivered EXCEPT ![req[c].name] = @ \o upd[c].msgs]
    /\ recipients' = recipients \cup {req[c].name}
    /\ accepted' = [accepted EXCEPT ![req[c].name] = @ \o upd[c].msgs]
    /\ Release(RoundLocks \cup {"undelivered_msg_lock", "account_list_lock"})
    /\ RespondOther(c)
    /\ UNCHANGED <<account_list, logged_in, clients, replica, thread, gone,
                   requests, delivered, deleted>>

-----------------------------------------------------------------------------
(* The delivery thread: handle_undelivered_messages in the loop of          *)
(* send_messages.  undelivered_msg_lock is held over the whole pass.        *)

DeliveryStart ==
    /\ pc[Delivery] = "sleep"
    /\ Acquire(Delivery, "undelivered_msg_lock")
    /\ todo' = recipients
    /\ Goto(Delivery, "scan")
    /\ UNCHANGED <<primary, replica, req, user, upd, pend, batch, client,
                   history>>

DeliveryNext ==
    /\ pc[Delivery] = "scan"
    /\ \E n \in todo :
          /\ todo' = todo \ {n}
          /\ user' = [user EXCEPT ![Delivery] = n]
    /\ Acquire(Delivery, "clients_lock")
    /\ Goto(Delivery, "logged")
    /\ UNCHANGED <<primary, replica, req, upd, pend, batch, client, history>>

DeliverySleep ==
    /\ pc[Delivery] = "scan"
    /\ todo = {}
    /\ Release({"undelivered_msg_lock"})
    /\ Goto(Delivery, "sleep")
    /\ UNCHANGED <<primary, replica, thread, client, history>>

\* The locks of a recipient's session are kept until its messages are sent, the
\* replicas told and the rest is stored.
DeliveryVisit ==
    /\ pc[Delivery] = "logged"
    /\ lock["logged_in_lock"] = None
    /\ LET n == user[Delivery]
       IN  \/ /\ undelivered[n] = <<>> \/ logged_in[n] = None
              /\ Release({"clients_lock"})
              /\ Goto(Delivery, "scan")
              /\ UNCHANGED <<unsent, refused>>
           \/ /\ undelivered[n] # <<>> /\ logged_in[n] # None
              /\ Acquire(Delivery, "logged_in_lock")
              /\ unsent' = undelivered[n]
              /\ refused' = <<>>
              \* If no connection has this uuid, [...][0] raises IndexError and
              \* the thread ends with its three locks held.
              /\ Goto(Delivery, IF logged_in[n] \in clients THEN "send"
                                ELSE "dead")
    /\ UNCHANGED <<primary, replica, req, user, upd, pend, todo, client,
                   history>>

RefusesAlways(c) == TRUE \* mutant: the status of send is misread

Refuses(c) == c \in gone

\* One turn of the loop over message_infos.  A connection takes everything as
\* long as its client is there.  Once it is gone the next few messages may
\* still be taken; what follows the first that is refused is refused too.
DeliverySend ==
    /\ pc[Delivery] = "send"
    /\ unsent # <<>>
    /\ unsent' = Tail(unsent)
    /\ LET n == user[Delivery]
           m == Head(unsent)
       IN  \/ ~Real(m) /\ UNCHANGED <<refused, delivered>>
           \/ /\ Real(m)
              /\ Refuses(logged_in[n]) => refused = <<>>
              /\ delivered' = [delivered EXCEPT ![n] = Append(@, m)]
              /\ UNCHANGED refused
           \/ /\ Real(m)
              /\ Refuses(logged_in[n])
              /\ refused' = Append(refused, m)
              /\ UNCHANGED delivered
    /\ UNCHANGED <<lock, pc, primary, replica, req, user, upd, pend, todo,
                   client, accepted, deleted>>

DeliveryUpdate ==
    /\ pc[Delivery] = "send"
    /\ unsent = <<>>
    /\ Replicating(Delivery, Update("setmsgs", user[Delivery], None, refused))
    /\ UNCHANGED <<lock, primary, replica, req, user, pend, todo, batch,
                   client, history>>

DeliveryApply ==
    /\ Acknowledged(Delivery, "setmsgs")
    /\ undelivered' = [undelivered EXCEPT
                          ![user[Delivery]] = upd[Delivery].msgs]
    /\ Release(RoundLocks \cup LoginLocks)
    /\ Goto(Delivery, "scan")
    /\ UNCHANGED <<account_list, logged_in, clients, recipients, replica,
                   thread, client, history>>

-----------------------------------------------------------------------------
Round(t) ==
    AcquireAck(t) \/ AcquireOther(t) \/ \E r \in Replicas : Replicate(t, r)

\* What the handler thread of c does about a request it has received.
Handle(c) ==
    \/ AcquireClients(c) \/ Quit(c)
    \/ CreateCheck(c) \/ CreateAccount(c) \/ CreateApply(c)
    \/ LogInClients(c) \/ LogInLogged(c)
    \/ LoginCheck(c) \/ LoginAccount(c) \/ LoginApply(c)
    \/ LogoffCheck(c) \/ LogoffApply(c) \/ DeleteAccount(c) \/ DeleteApply(c)
    \/ SendCheck(c) \/ SendRecipient(c) \/ SendQueue(c) \/ SendApply(c)
    \/ ListAccounts(c)

Deliver ==
    \/ DeliveryStart \/ DeliveryNext \/ DeliverySleep
    \/ DeliveryVisit \/ DeliverySend \/ DeliveryUpdate \/ DeliveryApply

Next ==
    \/ \E c \in Clients : Register(c) \/ Close(c) \/ Receive(c) \/ HangUp(c)
    \/ \E c \in Clients : Handle(c)
    \/ \E t \in Threads : Round(t)
    \/ Deliver
    \/ \E r \in Replicas, c \in Clients : RepRegister(r, c) \/ RepHangUp(r, c)

Spec == Init /\ [][Next]_vars

\* Every thread is scheduled, and a replica answers.  A handler also gets a
\* lock that is free again and again: the delivery loop alone takes locks for
\* ever, and it sleeps 10 ms between two passes, with none of them held.
Fairness ==
    /\ \A c \in Clients : SF_vars(Register(c) \/ Handle(c))
    /\ \A t \in Threads : WF_vars(Round(t))
    /\ WF_vars(Deliver)

FairSpec == Spec /\ Fairness

-----------------------------------------------------------------------------
(* Types.                                                                  *)

Labels == {"new", "idle", "clients", "logged", "account", "undelivered",
           "clients2", "logged2", "ack", "other", "round", "sleep", "scan",
           "send", "dead"}

UpdateType ==
    [kind : {"none", "create", "remove", "login", "logoff", "addmsg",
             "setmsgs"},
     name : Names \cup {None}, uuid : Clients \cup {None}, msgs : Seq(Message)]

\* The tables and the threads' variables hold values of their types; in
\* particular the uuid of a session is always some client's uuid.
TypeOK ==
    /\ lock \in [Locks -> Threads \cup {None}]
    /\ pc \in [Threads -> Labels]
    /\ req \in [Clients ->
                  [op : AllOps, name : Names \cup {None}, text : Texts]]
    /\ user \in [Threads -> Names \cup {None}]
    /\ upd \in [Threads -> UpdateType]
    /\ pend \in [Threads -> SUBSET Replicas]
    /\ todo \in SUBSET Names
    /\ unsent \in Seq(Message)
    /\ refused \in Seq(Message)
    /\ account_list \in [Names -> Nat]
    /\ logged_in \in [Names -> Clients \cup {None}]
    /\ clients \in SUBSET Clients
    /\ recipients \in SUBSET Names
    /\ undelivered \in [Names -> Seq(Message)]
    /\ repAccounts \in [Replicas -> [Names -> Nat]]
    /\ repLogged \in [Replicas -> [Names -> Clients \cup {None}]]
    /\ repMsgs \in [Replicas -> [Names -> Seq(Message)]]
    /\ repUp \in SUBSET Replicas
    /\ repConn \in [Replicas -> [Clients -> {"new", "registered", "closed"}]]
    /\ repLeaked \in [Replicas -> SUBSET Locks]
    /\ gone \in SUBSET Clients
    /\ told \in [Clients -> Names \cup {None}]
    /\ accepted \in [Names -> Seq(Message)]
    /\ delivered \in [Names -> Seq(Message)]
    /\ deleted \in SUBSET Names
    /\ requests \in 0 .. MaxRequests

-----------------------------------------------------------------------------
(* Safety.                                                                 *)

\* process_create_account looks a name up and appends it two replication
\* rounds apart.  Still no interleaving of creates and deletes puts a name into
\* AccountList.account_list twice, so list.remove always removes the account.
NoDuplicateAccounts == \A n \in Names : account_list[n] <= 1

\* atomicIsLoggedIn gives the login locks back before process_create_account
\* logs the client in.  Still no uuid is ever logged in to two accounts, so
\* LoggedInAccounts.get_username has one answer.
OneAccountPerClient ==
    \A m, n \in Names :
        logged_in[m] = logged_in[n] /\ logged_in[m] # None => m = n

\* Every session belongs to a registered connection, whatever clients leave,
\* are thrown out or take an account over.  On this rests the index [0] in
\* handle_undelivered_messages: the delivery thread never dies of IndexError.
SessionsAreRegistered ==
    \A n \in Names : logged_in[n] # None => logged_in[n] \in clients

\* If the table of sessions says that an idle client is logged in to n, then n
\* is what the server last told this client.
SessionsAreKnown ==
    \A c \in Clients, n \in Names :
        pc[c] = "idle" /\ logged_in[n] = c => told[c] = n

\* Conversely, an idle client that was told it is logged in to n, and is still
\* connected, holds the session of n: nobody takes an account from its user, as
\* long as the account is not deleted.
ClientsKeepTheirSession ==
    \A c \in Clients, n \in Names :
        /\ pc[c] = "idle" /\ c \notin gone /\ told[c] = n
        /\ n \notin deleted
        => logged_in[n] = c

\* The update of a round in progress has been applied at r already.
Applied(r, kind, n) ==
    \E t \in Threads : /\ pc[t] = "round" /\ r \notin pend[t]
                       /\ upd[t].kind = kind /\ upd[t].name = n

\* A replica that still reads this primary's connection has exactly its list
\* of accounts, but for the one account whose round it has acknowledged.
AccountsInSync ==
    \A r \in repUp, n \in Names :
        repAccounts[r][n] = CASE Applied(r, "create", n) -> account_list[n] + 1
                              [] Applied(r, "remove", n) -> account_list[n] - 1
                              [] OTHER -> account_list[n]

\* The real messages of a sequence, in order: SelectSeq(msgs, Real), with a
\* count in the place of the recursion.
RealUpTo(msgs, i) == {j \in 1 .. i : Real(msgs[j])}

NthReal(msgs, k) ==
    {msgs[i] : i \in {j \in RealUpTo(msgs, Len(msgs)) :
                         Cardinality(RealUpTo(msgs, j)) = k}}

RealPart(msgs) ==
    [k \in 1 .. Cardinality(RealUpTo(msgs, Len(msgs))) |->
        CHOOSE m \in NthReal(msgs, k) : TRUE]

\* The messages a replica keeps for n are those the primary keeps, in order,
\* once the update in progress is taken into account.  The empty pairs a
\* replica stores in place of an empty list do not count.
MessagesInSync ==
    \A r \in repUp, n \in Names :
        LET pending == {t \in Threads : /\ pc[t] = "round" /\ r \notin pend[t]
                                        /\ upd[t].kind \in {"addmsg",
                                                            "setmsgs"}
                                        /\ upd[t].name = n}
            expected(t) == IF upd[t].kind = "setmsgs" THEN upd[t].msgs
                           ELSE undelivered[n] \o upd[t].msgs
        IN  /\ pending = {} =>
                  RealPart(repMsgs[r][n]) = RealPart(undelivered[n])
            /\ \A t \in pending :
                  RealPart(repMsgs[r][n]) = RealPart(expected(t))

\* A replica misses a session of the primary, or keeps one the primary has
\* ended, only on behalf of a client that is gone or whose login or logoff is
\* being replicated.
SessionsInSync ==
    \A r \in repUp, n \in Names :
        repLogged[r][n] # logged_in[n] =>
            \/ \E t \in Threads : /\ pc[t] = "round" /\ upd[t].name = n
                                  /\ upd[t].kind \in {"login", "logoff"}
            \/ {repLogged[r][n], logged_in[n]} \subseteq gone \cup {None}

\* What was accepted for n is what was handed over, followed by what is still
\* queued: nothing lost, doubled or reordered by senders, delivery passes,
\* refused sends and re-created accounts.  Messages without a text are dropped.
MessagesConserved ==
    \A n \in Names :
        LET delivering == /\ pc[Delivery] \in {"send", "ack", "other", "round"}
                          /\ user[Delivery] = n
            queued == IF delivering THEN refused \o unsent ELSE undelivered[n]
        IN  RealPart(accepted[n]) = delivered[n] \o RealPart(queued)

\* The lock a thread waits for.
Wants(t) ==
    CASE pc[t] \in {"new", "clients", "clients2"} -> "clients_lock"
      [] pc[t] \in {"logged", "logged2"} -> "logged_in_lock"
      [] pc[t] = "account" -> "account_list_lock"
      [] pc[t] \in {"undelivered", "sleep"} -> "undelivered_msg_lock"
      [] pc[t] = "scan" -> IF todo = {} THEN None ELSE "clients_lock"
      [] pc[t] = "ack" -> "acknowledgement_lock"
      [] pc[t] = "other" -> "other_server_lock"
      [] OTHER -> None

Rank == [l \in Locks |->
           CASE l = "account_list_lock" -> 1
             [] l = "undelivered_msg_lock" -> 2
             [] l = "clients_lock" -> 3
             [] l = "logged_in_lock" -> 4
             [] l = "acknowledgement_lock" -> 5
             [] l = "other_server_lock" -> 6]

\* Threads take locks in one order.  process_login alone does not: it waits for
\* account_list_lock with the two login locks in hand.
LocksAreOrdered ==
    \A t \in Threads :
        \/ Wants(t) = None
        \/ t \in Clients /\ pc[t] = "account" /\ req[t].op = "login"
        \/ \A l \in Locks : lock[l] = t => Rank[l] < Rank[Wants(t)]

\* A thread that ends leaves its locks free for the others, but for two
\* exceptions that are raised with locks held: KeyError, for a connection that
\* ends before it has registered, and ValueError, for the delete of an account
\* that another client has deleted.  A third one, the OverflowError of the first
\* update whose id has more than two bytes, needs 65536 messages: the ids of
\* messages are not modelled here.
LocksAreReleased ==
    \A l \in Locks :
        lock[l] # None /\ pc[lock[l]] = "dead" =>
            \/ /\ l \in {"clients_lock", "logged_in_lock"}
               /\ user[lock[l]] = None /\ told[lock[l]] = None
            \/ /\ l = "account_list_lock"
               /\ user[lock[l]] \in deleted

\* No set of threads in which each waits for a lock that another one holds.
NoCircularWait ==
    \A S \in SUBSET Threads :
        S # {} => \E t \in S : Wants(t) = None \/ lock[Wants(t)] \notin S

\* Two clients never believe at the same time that they are logged in to the
\* same account.
OneSessionPerAccount ==
    \A b, c \in Clients :
        /\ pc[b] = "idle" /\ pc[c] = "idle"
        /\ {b, c} \cap gone = {}
        /\ told[b] = told[c] /\ told[b] # None
        => b = c

\* Once a thread has its acknowledgements, every replica has made the change.
AcknowledgedByAll ==
    \A t \in Threads : pc[t] = "round" /\ pend[t] = {} => repUp = Replicas

-----------------------------------------------------------------------------
(* Liveness.                                                               *)

\* Every request is answered, however the other clients' requests and the
\* delivery passes compete for the locks.
EveryRequestIsAnswered ==
    \A c \in Clients : pc[c] # "idle" ~> pc[c] = "idle"

\* If from some time on n is always logged in to, everything ever accepted for
\* n reaches the connection, although one pass delivers only what was queued
\* when it looked.
EverythingIsDelivered ==
    \A n \in Names :
        <>[](logged_in[n] # None) =>
            <>[](delivered[n] = RealPart(accepted[n]))

=============================================================================
