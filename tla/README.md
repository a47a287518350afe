# A verification project for the chat service

The repository (`src/`) is a chat service in Python: a client program, a client
library that talks to several servers, and a server that runs as a primary or
as a replica. This directory holds TLA+ models of it, the TLC configurations
that check them on small instances, and proofs about them that TLAPS checks.

    tlc -workers 2 -config messages.cfg MCChatServer     # one run
    tlapm ChatServerProofs.tla                           # one module's proofs

## 1. Inventory

### The components and their state

| component | code | state | operations |
|---|---|---|---|
| Request handling of the primary | `server.py` 60-330 | list of accounts, table of sessions (`LoggedInAccounts`), table of connections (`clients`), undelivered messages; one `threading.Lock` for each; one thread per connection | `process_create_account`, `process_login`, `process_logoff`, `process_delete_account`, `process_send_msg`, `process_list_accounts`, registration, clean-up of a connection |
| Message delivery thread | `server.py` 538-595 | the same tables | every 10 ms: for every recipient that is logged in, send its queued messages, replicate and store what could not be sent |
| Replication of the tables | `server.py` 330-525 | the same tables on each replica; `acknowledgement_lock`, `other_server_lock` | `wait_for_update_*_ack` on the primary, `process_update_*` on a replica |
| Choice of the primary | `server.py` 640-710 | `primary_id` of every server, connections among the servers | `determine_primary_server`, `check_heartbeat`, `become_primary` |
| Fail-over in the client library | `client_replica_library.py` | one connection per server, `self.primary` | `connect_to_service`, `_get_primary`, `readFromServer` |
| Stores and their log files | `utils/*.py` | the tables in memory and a text file for each | append, rewrite, read at start-up |
| Wire protocol | `protocol.py` | `msg_counter`, `id_accum`, a lock per socket | `encode`, `send`, `read_packets`, `parse_data` |
| Command line | `client.py`, `run_client.py` | the username | one request at a time, printing of answers |
| Start-up | `run_server.py`, `server.run` | the sockets | accept and connect within two waits of 10 seconds |
| Searching the accounts | `utils/account_list.py` | none of its own | a regular expression against every name |
| Unit tests | `test_*.py` | | sockets are mocked; no test has two threads or two servers |

### How they interact

A client sends one request at a time to the server it takes for the primary. Its
handler thread there checks the request under the locks of the tables it reads.
A request that changes something is first sent to every replica, and each
acknowledgement awaited, with the locks of the table *held*; then the table is
changed and the client answered. The delivery thread does the same with the
lists of messages, on its own clock. So one operation is a series of separately
locked pieces, and its longest piece spans a round of messages.

A replica reads updates from the primary's connection in the same loop in which
a client's connection is read, and it has a connection to every client too. When
a heartbeat is not answered, every server asks all others for their ids and takes
the lowest; if that is its own, it tells the clients that have registered with
it, by `SWITCH_PRIMARY`, and starts its delivery thread. A client whose
connection to the primary breaks waits for that message on one connection after
the other.

### What is hard in it, and what would be right

- **Locks.** Six locks, taken in nested order by a dozen functions. Right means
  that no set of threads waits for one another, that no request starves next to
  the delivery loop, and that a thread that ends holds nothing.
- **Operations in several pieces.** Between the check of a request and its
  effect the locks are given back. Right means: no name twice in the list, one
  session per client, a session only with a connection, and the table of
  sessions agrees with what the clients were told.
- **Messages.** A queue is appended to by senders and replaced by the delivery
  thread, sends can fail half-way through a queue, and accounts are deleted and
  created again meanwhile. Right means that nothing is lost, doubled or reordered.
- **Replicas.** Right means that after a round a replica has what the primary has.
- **Election and fail-over.** Every server decides alone, on answers that may be
  out of date, while servers crash. Right means one primary at a time, which
  everybody finds.
- **Crashes between two messages.** A round reaches some replicas and not others, a
  message is handed over and nobody is told. Right means that what a client was told
  Success for outlives the primary, and that the servers left differ in what was cut only.
- **Restart.** Files are appended to, or truncated and rewritten. Right means that a start
  gives back the tables as they were, but for the call that was cut.
- **Framing.** Two threads write packets to one connection, the reader gets chunks that end
  anywhere, ids have two bytes. Right means whole messages, in order, and all of them.

`PROJECT.json` lists each hazard at its line, with the properties that cover it.

## 2. The models

### `ChatServer`: the primary and its replicas' tables

One step of the model is the stretch of code from one lock that another thread
may hold to the next. What a thread does in between touches only what it holds
the lock of, so a finer step would tell no other thread anything. Locks that are
taken and given back within such a stretch are a guard (`lock[l] = None`).

- `lock`, `pc` are the locks and where each thread is. The threads are the
  handlers, which have their client's name, and `Delivery`. `req`, `user`, `upd`,
  `pend`, `todo`, `unsent`, `refused` are the local variables of these threads.
- `account_list` counts how often a name occurs in the list, as the code's list
  can hold one twice. `logged_in` is the dict of sessions, `clients` the registered
  connections, `recipients` and `undelivered` the dict of messages.
- `repAccounts`, `repLogged`, `repMsgs` are the replicas' tables, `repUp` the
  replicas that still read from the primary, `repConn` the clients' connections
  to them, `repLeaked` the locks that a failed handler there took with it.
- `gone` and `told` are the clients' side: closed connections, and the username
  the last answer has set. `accepted` and `delivered` are history variables.

Each handler of `process_operation` is a few actions, in the order of the code:
for instance `CreateCheck` (`atomicIsLoggedIn`), `CreateAccount` (look-up under
`account_list_lock`), a round, `CreateApply` (append), `LogInClients` and
`LogInLogged` (`atomicLogIn`), a round, `LoginApply`. A round is `AcquireAck`,
`AcquireOther` and one `Replicate(t, r)` for each replica. The code goes through
`other_server_sockets_connected`, which `run` fills in the order of the config file; that
file may list the servers in any order, and the model lets each round take any. `Replicate` is the whole `process_update_*` of the replica,
with the errors it can run into: `list.remove` of a name that is not there raises
`ValueError` with the lock held; a list of two or more messages is cut apart by
the separator it is joined with, and the replica closes the connection.

`Quit` is the end of `handle_client`, with the `KeyError` for a connection that has
not registered. `DeliverySend` is one turn of the loop over a recipient's messages:
a connection whose client is gone may take the first of them and refuses the rest.

### `Leadership`, `Election`: the choice of the primary

`Leadership` is the promise: of the servers that still run at most one at a time
delivers, it is the lowest, and it goes on until it crashes. `Election` is the code:
`Ask` is one turn of the loop of `determine_primary_server`, `Decide` the rest of it,
`MissHeartbeat` the broken connection that `check_heartbeat` finds, `BecomePrimary`
the end of the announcement; `Crash` can come between any two of them. Two mishaps keep a
running server from taking over. `LeakLock` is the `KeyError` of a connection that ends before it has registered
(`server.py:84`): `clients_lock` is never given back (`leaked`), and `check_heartbeat` waits for it before it announces
anything (`server.py:698`). `RunOutOfIds` is the `OverflowError` of `encode` once `msg_counter` needs more than two bytes: it
ends the heartbeat thread (phase `stopped`), with `clients_lock` held if it was announcing. `serving`
is mapped to the running servers in phase `deliver`. Servers that crash stay away, as in
the code: nothing there connects to a server again.

### `ClientLibrary`: clients on top of the election

Extends `Election`. Every connection has two queues, `inbox` to the server and
`stream` to the client, which a crash of the server does not empty: what was sent
is still read, then the connection is broken. `CrashServer` in the phase
`announce` tells any subset of the registered clients (`AnnounceToSome`), and so does `StopServer`, the end of the ids. `Connect`, `Switch`,
`TryNext`, `ReadPrimary`, `LosePrimary` are the client's two threads, which never
run side by side on the same connection: the second one starts when the first has
its answer. `Request` is the user's next request when there is no primary, which ends the program.

A client loses a primary that *runs*, too. `CloseConnection` is a handler's exception, after which the server closes
the connection (`closed`; the client leaves the table if the handler gets `clients_lock`). `GiveUpPrimary` is `read_packets` returning
`None` on the client's side: an exception on packets that make no sense, another version, or a chunk of zeros (`upset`). Either way
`readFromServer` waits for a `SWITCH_PRIMARY`. On a connection that it has given up it may find the rest of some packets
(`Misread`): nothing, or a message without an id, which ends the thread by `KeyError`. The causes are in `ChatServer` and
`Framing`; here they may come at any time. `MaxMishaps` bounds, in all, the locks left held, the servers whose ids run out, and the connections lost.

### `Mailbox`, `Failover`: the tables when servers crash

`Mailbox` is the promise about messages: each one accepted for a name waits there, and those that
wait are handed over in the order of acceptance; `waiting` has their positions in what was accepted. `Failover` has the tables of *all*
servers, crashes between any two messages of a round or a delivery, and the next primary, which goes
on with the tables it has. Who serves is `Leadership` (its `Crash` and `Serve` are part of
`CrashServer` and `BecomePrimary`), which `Election` implements.

- `accounts[s]`, `sessions[s]`, `queue[s]`, `registered[s]` are the four tables of server `s`.
  `closed` are the connections replicas have given up, `leaked` and `stuck` the servers on which a
  thread has died with its locks.
- A step is coarser than in `ChatServer`: `round` is the update being sent. At most one
  is, because of `acknowledgement_lock`; it is begun by a request (`BeginCreate`, `BeginLogin`, ...) or by the
  delivery thread (`DeliveryUpdate`), taken in by one replica after the other (`Replicate`) and
  ended by `Apply...`, which changes the primary's table and answers the client. The locks of the tables
  are the conditions under which an operation can begin: a visit of the delivery thread excludes what
  needs the messages or the sessions, a create excludes what needs the accounts.
- `CrashServer` of the primary ends its round, its visit and its handlers. Clients whose request was lost are
  `unsure`, names whose create or delete was cut are `torn`, clients that ended while they were being logged
  in, or whose login or logoff was cut, or whose session such a login was about to replace, are `adrift`.
- Requests that are refused change nothing and are left out. A request is read by the primary that
  serves: a handler's request that comes before its server serves is not modelled.
- *Timing.* What a primary sent before it crashed has been read by the replicas before the next one
  serves. The code waits for nothing of the kind; a missed heartbeat and an exchange with every server
  come in between. A replica that reads the old update later would apply it after newer ones.

### `Stores`: memory, files, restarts

One server's list of accounts and its undelivered messages, each with its file. The calls are those of a
primary and of a replica, which does what it is sent without a look at its tables: `CreateAccount` appends unconditionally, as
`create_account` does, so that a name can be in the list twice (a create that failed half-way reached this replica and not the
next primary, which makes the account again). `doubled` are the names that were removed while they were: memory has lost one place, the file
all. `UpdateMessages` stores what the recipient has refused of the queue, or (`Given`) what a replica may be sent besides: an
empty pair, or a queue that begins with a message it did not have. A call is its
writes, in the code's order: `CreateAccount`, then `AppendAccount`; `RemoveAccount`, then `TruncateAccounts` (the lines to
keep are read just before), then `FlushAccounts`; `AddMessage`, then `AppendMessage`; `UpdateMessages`, `TruncateMessages`,
`FlushMessages`, then `WriteMessage` for each message that is left; `was` is the queue before the call, for the properties only. `Kill` can come between any
two; in a truncated file that was not yet flushed it leaves any prefix of what was being written. `Start` reads
the files. Names and texts are model values; the conversions are functions on them: `Plain` takes the
spaces around a name away and `Trim` those after a text, as `line.strip()` does, and `Shifted`
and `TooShort` are what `split(' ', 2)` makes of the rest. The two tables have a lock each and change side by side.
A `filter` of the code is `Selected(s, I)`, the elements at the positions `I` in their order, found by counting
(`Nth`); `SelectedSelects` in `MCStores` has TLC compare it with `SelectSeq` on all sequences up to five.

### `Channel`, `Framing`: packets on one connection

`Channel` is the promise of the wire protocol. `Framing` has the two threads that write to a
client's connection, the handler and the delivery thread. `Encode` cuts a message into packets,
`SendPacket` is one of them under the socket's lock, `Receive(length)` one `recv` with a chunk of any length,
`ParsePacket` one turn of the loop in `read_packets`. A header has three cells: one that is not zero, one that is,
one that is not. The arguments of a message are left out, except that those of a fragment of a
message do not parse: `parse_data` finds no `=`, or `process_operation` not the arguments it looks for. The bound on the ids is
the code's own.

The `MC` modules hold only values for constants. Operators with a comment that
starts "mutant" are slips somebody could make in the code; the properties are
tested against them (`mutants` in `PROJECT.json`) and nothing else uses them.

## 3. The runs

| run | what it asks | instance | distinct states |
|---|---|---|---|
| `messages` | all operations and ends: messages conserved in order, same on the replica, locks in one order, types | 2 clients, 1 account not yet made, 3 requests | 574,606 |
| `sessions` | accounts and sessions agree with each other, with the clients and with the replica; clients keep their session; which locks stay taken | 2 clients, 2 accounts that exist, 4 requests, no messages | 555,864 |
| `liveness` | every request is answered, everything is delivered | 2 clients, 1 account, 3 requests, no logins, no ends | 40,256 |
| `clients` | the election's invariants, its action property, its refinement of `Leadership`, its liveness; clients follow the primary | servers 0, 2, 7, 1 client, config file in ascending order, 1 mishap besides crashes | 417,047 |
| `failover` | what survives when the primary crashes; refinement of `Mailbox` | servers 0, 2, 7, 2 clients, 1 account not yet made, 4 requests, 1 client ends, 2 crashes | 2,245,566 |
| `stores` | files match memory, a restart restores it, what keeps a server from starting | 2 names, 3 texts, 4 calls, 2 kills | 936,712 |
| `framing` | whole messages arrive, in order, all of them; refinement of `Channel` | 2 threads, 2 ids, messages of 1 to 3 bytes, 2 bytes in a packet | 482,511 |
| `deadlock`, `two_sessions`, `unacknowledged`, `mixed_packets`, `padded_name` | one statement of the documentation each, which the code does not keep (section 5) | 2 clients, threads or names | |

### The properties

- `MessagesConserved`: what was accepted for a name is what was handed over
  followed by what is queued. At every step, also in the middle of a pass, when
  the queue is what was refused and what is not sent yet.
- `MessagesInSync`, `AccountsInSync`, `SessionsInSync`: a replica that still
  reads updates has the primary's tables, but for the one entry whose round is in
  progress. For sessions this has an exception, which is what the code does: the
  logoff of a client that hangs up is not sent, each replica sees it on its own
  connection, sooner or later than the primary.
- `LocksAreOrdered`: every thread takes the locks in one order, but `process_login`.
  Every circular wait thus involves a login; `deadlock` shows that there is one.
- `NoDuplicateAccounts`: the look-up and the append of a create are a replication
  round apart; no interleaving appends a name twice.
- `OneAccountPerClient`, `SessionsAreRegistered`, `SessionsAreKnown`,
  `ClientsKeepTheirSession`: a client is logged in to one account at most, only
  with a connection, only to the one it was told, and (until somebody deletes that
  account; `deleted` remembers them) to that one until it logs off. `SessionsAreRegistered` keeps the delivery thread
  from an `IndexError`: it takes element `[0]` of the connections with a session's uuid.
- `EveryRequestIsAnswered`, `EverythingIsDelivered`: liveness of the primary.
- `AtMostOnePrimary`, `NoneLowerIsAlive`, `PrimaryOnlyGrows`, `ServesAsPromised`,
  `PrimaryIsFound`: the election. The last one is liveness, with what the code does not prevent as exceptions: the lowest server
  left delivers in the end, unless *its* `clients_lock` is left held or *its* ids run out, and all know it but those whose own ids run out.
- `LocksAreReleased`: the locks a dead thread keeps are those of two exceptions, `KeyError` for a
  connection that ends before it registers and `ValueError` for the second of two deletes. The code has a third exception of the
  kind, the `OverflowError` when the ids run out, but `ChatServer` has no ids; so this is checked for bounded requests and not stated as a theorem.
- `ServedByTheLowest`, `RegisteredClientsAreServed`: the client library. The second says which clients find every
  next primary: those that all servers know before the first crash, and whose users enter nothing while there is none. A client that
  has lost a server which still runs is excepted as long as this one is the lowest, as nobody tells it anything until the next one takes over;
  one that has given a connection up may also end on what it reads there.
- `AcceptedIsKept`, `KeepsMail`: every server that is left has every accepted message that was not handed
  over, each once, in order; its queue may hold others besides. Both hold until a replica closes its connection to a primary, which two refused messages make it do
  (`unacknowledged`): from then on it gets no update at all.
- `RedeliveryNeedsACrash`: a message is handed over at most once more than servers have crashed. With two
  crashes three times is possible, and happens.
- `SessionsSurvive`: who was told it is logged in is so on every server left, if its account was neither deleted nor torn.
- `SessionsHaveConnections`: a session without a connection is left only by a client that is `adrift`. Such
  sessions do occur, and end the delivery thread of the next primary. This holds, too, until a replica closes its connection.
- `AccountsAgree`: the lists differ only in the name of the create or remove in progress, or that a crash has
  cut. They then differ for good: a cut create leaves a name that one server has and another refuses
  or makes again, and a later remove fails on the replicas that do not have it.
- `FileMatchesMemory`, `RestartRestores`: the files. A name removed while the list had it twice is in the list more often than
  in the file, until it is removed altogether or the server started again; the rest of the list is in the file, in order. What a kill can lose is in the statement of the
  second: a truncated list is left as a prefix, of all names and of all recipients' messages, whoever the
  call was for.
- `OnlyBlanksPreventStart`: a server that cannot start has a message without text in its file. The
  client sends such messages, the delivery drops them, but until then `split` raises `ValueError` at a start.
- `PacketsStayTogether`: what the comment at `protocol.py:314` says (the left-over begins with a header), with the cells
  of a packet together.
- `GivesUpOnlyIfUpset`, `WholeUnlessMixed`, `ServesAsChannel`, `EverythingIsProcessed`: the reader. Three things upset it:
  packets of two messages that alternate, a chunk of nothing but zeros, and the handler's exception when the ids run out.

### The bounds

- *Two clients.* Every property of the server relates two threads: two handlers, or
  a handler and the delivery thread. With two clients there are three threads, which is
  also the longest cycle of locks in the code (send, delivery, login).
- *One or two names.* Two are needed where a client could have two sessions
  (`sessions`). Where messages are concerned, names only meet in the lock that
  covers them all, and one name for both clients gives the most contention.
- *One replica.* An update is sent to one replica after the other by the
  same code, and no replica looks at another. The proofs are for any set of them.
- *`MaxRequests`* is 3 or 4 in all, by any client in any order, besides the clients'
  ends and the deliveries, which are not counted. Two messages refused
  together need 3 (a create and two sends). In `sessions` the accounts exist, so that 4
  requests are 4 operations on them: enough for a delete that a login and a create overtake.
- *Texts* are one real text and the empty one, which the delivery loop drops.
- *Three servers* with gaps between the ids: enough for two crashes, the number the
  service is meant to stand, and for a third.
- *One client* of the client library: clients share nothing, and a server
  treats each of them by itself.

- *Fail-over*: three servers and two crashes are the fault the service is meant to stand. One name, which the
  two clients contend for; four requests are a create, two messages, and one more, which is enough for
  two refused messages and for a queue that is handed over three times. Instances with two names that
  exist (three servers and three requests; two servers and four requests) were checked by hand; two names show nothing new but that
  a login cut by a crash can leave one client with two sessions on a server, which `adrift` covers.
- *Mishaps*: one besides any number of crashes. With two (978,379 states) everything was checked by hand, too.
- *Stores*: four calls are two creates of one name and two removes, the shortest way to a name that the list has and the file has lost, and
  to its end; or two messages queued, a queue updated, and one more. The two files are independent, so a call on one takes
  nothing from the other but the count. Two kills make a
  server start from a file that an earlier kill has cut.
- *Framing*: a message has one packet, full or not, or two; a chunk is up to one packet long, as `MAX_PACKET_SIZE` is.
  Two messages of each thread, then the ids run out.

`CHECK_DEADLOCK FALSE` is in every configuration because the instances end: the
requests are bounded, the servers may all crash, the ids run out. In `ChatServer`
the delivery loop goes on for ever and would hide a deadlock of the others from that check anyway;
`NoCircularWait`, `LocksAreOrdered` and `EveryRequestIsAnswered` look for it directly.

### Fairness

- Handlers, `SF`: a lock that becomes free again and again is had some time. Python's
  locks do not promise this, but the only thing that takes locks for ever is the
  delivery loop, and it sleeps 10 ms between two passes with no lock in hand,
  which is when the handlers get them. The clients' requests are finite here.
- Rounds, `WF`: a thread in a round is scheduled, and a replica answers; the read of
  a connection the replica has closed returns at once.
- Delivery, `WF`: the thread is scheduled.
- Servers and clients in `Election` and `ClientLibrary`, `WF` on each thread. Nothing
  makes a server crash, a client start, send or end, and no mishap has to happen. To announce a primary takes `clients_lock`, so
  fairness asks for it only while the lock is not left held; what else holds it (a handler, for a moment) gives it back.

- `Framing`, `WF` on `SendPacket` of each thread and on the reader: blocking sockets, TCP delivers what was
  sent. Nothing makes a thread send.

`EverythingIsDelivered` assumes that from some time on the recipient is logged in: the
code delivers to nobody else.

## 4. The proofs

They hold for every set of clients, names, texts, replicas and servers, and any bound on the
requests, ends and crashes, from the assumptions named in `ChatServer` (`Assumptions`: the delivery
thread and `None` differ from clients and names, accounts found at start-up have
names), `Election` (`ServersAssumption`: ids are natural numbers, there is a server),
`ClientLibrary` (`ClientAssumption`: the config file lists every server, in any order), `Failover` (`FailoverAssumptions`, the same for its
constants), `Framing` (`FramingAssumptions`: two different operation codes, a message and a payload have at
least one byte) and `Stores` (`StoresAssumptions`: what taking spaces away does, in one go, to names and texts, of which the empty
text is one and the empty name none). Each invariant was checked by TLC on a small instance before it was proved.

| module | about | theorems |
|---|---|---|
| `ChatServerProofs` | types; the primary's list of accounts and sessions | `TypeCorrect`, `NamesAreUnique`, `SessionsHaveConnections`, `ClientsKnowTheirSession`, `SessionsAreUnique` |
| | who holds which lock | `LocksAreTakenInOrder`, `OnlyLoginsDeadlock`, `RoundsAreSerial` |
| `ChatServerReplicas` | accounts and sessions of the replicas | `ReplicasKnowTheAccounts`, `NobodyLosesASession`, `ReplicasKnowTheSessions` |
| `ChatServerMessages` | messages, on the primary and the replicas | `NoMessageIsLost`, `ReplicasKnowTheMessages` |
| `ClientLibraryProofs` | the election | `TypeCorrect`, `LowestIsPrimary`, `NoSplitBrain`, `PrimaryGrows`, `Implements` |
| | clients on top of it | `SystemElects`, `SystemNeverSplits`, `SystemServesAsPromised`, `SystemPrimaryGrows`, `SystemTypeCorrect`, `ClientsFollowTheLowest` |
| `FailoverProofs` | the tables across crashes | `FailoverTypeCorrect`, `AccountsStayEqual`, `SessionsStayConnected`, `SessionsOutliveCrashes` |
| `FailoverMessages` | the messages across crashes | `MessagesOutliveCrashes`, `RedeliveriesAreCrashes`, `ServiceIsAMailbox` |
| `FramingProofs` | packets, stream and messages of a connection | `FramingTypeCorrect`, `StreamOfPackets`, `MessagesAreWhole`, `ReadersGoOn`, `WireIsAChannel` |
| `StoresProofs` | tables, files, kills and starts | `StoresHaveTypes`, `OnlyBlanksEndTheStart`, `FilesMatchMemory`, `RestartsRestore` |

The three `ChatServer` modules extend one another in this order, and `FailoverMessages` extends
`FailoverProofs`.

**`ChatServerProofs`.** `TypeOK` is not inductive: a table is indexed by
`user[Delivery]` or by `req[c].name`, which are names only where the code path makes them so.
`TypeInv` adds that: the delivery thread visits what it has taken from the dict
(`VisitsAName`), and a handler sends updates that belong to the request it works on
(`HandlersInStep`). That a step of one thread leaves the others' variables alone is stated
once, as the lemmas named `...IsLocal`.

On top of it, `AccountsInv` says that a handler
holds `account_list_lock` from the look-up until the list is changed, and that a name found
missing stays missing that long; `NamesAreUnique` follows. `SessionsInv` needs that, and
says where a client can be while it has a session: its connection is registered, a client that is
about to log in has none, one that is about to log off has the one it is about to leave, and an idle one
has what it was told. `SessionsHaveConnections`, `ClientsKnowTheirSession` and
`SessionsAreUnique` follow. Note that no lock keeps a client from logging in twice: the
check gives the login locks back. What does is that a client's requests come one after the other
on one connection, and this is what the invariant says.

*Locks.* `LocksInv` says of every place in the code which locks a thread there holds (`Has`),
and which ones one that has run into an exception keeps (`Keeps`). It needs to know when these exceptions
can happen, so it rests on `ExistenceInv` (whoever has a session, is about to get one or is about to
remove an account speaks of an account that exists or has existed: `ValueError` needs an earlier delete) and on
`SessionsInv` (the delivery thread finds the connection it looks for). The order of the locks
is then read off `Has`. `OnlyLoginsDeadlock` draws the conclusion: along a circle of waits every lock has a
higher rank than the one before it, unless a login is in the circle. That there is such a circle is what
`deadlock` shows; that there is no other kind is proved here.

**`ChatServerReplicas`.** `other_server_lock` makes the rounds serial, and an update says what its thread is about to
do (`UpdatesInv`). With both, a step either is in a round, opens or closes one, or touches nothing that is replicated
(`StepsAndRounds`), and each table of a replica is the primary's one, with the update in progress done
if the replica has read it. `NobodyLosesASession` needs `KeepInv`: of all handlers at most one is between its look-up
and its change of a session (`OneClaim`), because `process_login` keeps the login locks and
`process_create_account` keeps `account_list_lock` for so long, and one that logs off leaves its own session.

**`ChatServerMessages`.** During a pass a recipient's messages are in three places: handed over, `refused` and
`unsent`. `ConservedInv` keeps their sum (`Queued`); that a recipient is not exchanged under way is due to the login locks
(`SessionIsHeld`). The empty pairs that replicas store are taken out by `RealPart`. It is `SelectSeq` with
`Real`, written without the recursion, which provers cannot unfold; the assumption
`RealPartSelects` of `MCChatServer` has TLC compare the two on all sequences up to four. The lemmas on it are
by counting: the real part of a concatenation is the concatenation of the real parts (`RealPartOfConcat`).

**`ClientLibraryProofs`.** What makes the election safe is in `AskedHaveAnswered` and `AnswersAreAbove`: a server that still runs and has
been asked is among the answers, and no answer is below the primary decided on earlier.
`NoneLowerIsAlive` then survives `Decide`, and two running primaries would each be at most the other.

Every step of the system with clients is a step of the election or leaves its variables alone
(`SystemElects`), so all that is proved of the election holds with clients. `ClientsFollowTheLowest` is about old news: what a
client may still read was true when it was sent. Mishaps change none of this: a server that is stopped or never gets its lock
announces less, and a client that gives a primary up has none. `FollowInv` says that no news in any stream, and no choice of a client, names a
server that runs and is not the lowest running one. Crashes cannot break it, since the lowest stays
the lowest as long as it runs.

**`FailoverProofs`.** `WorkInv` says on whose behalf a round is sent. On top of it are four groups:

- `AccountsInv`: what a server's list was *before* the round in progress (`Before`) is the same everywhere. A round that
  reaches a server or ends changes no list from before; one that is cut makes its name torn. `AccountsStayEqual` follows.
- `FollowInv`: a client that runs and whose login or logoff no crash has cut has its session on all servers or on none, but for those
  that the round has reached, which have what the round says.
- `OwnInv`: such a client has one session at most, none while it logs in or after the first half of its delete, and
  where it has one it is connected. A replica forgets nobody but clients that ended. `SessionsStayConnected` follows.
- `SurviveInv`: a session is worth something while its account is there. So a session's account is followed from
  the create or login that uses it to its removal: a create lets nobody else log in or remove an account before its client is
  logged in (`CreatesBlock`), a name that is being created has no session (`CreatedIsFree`), whoever has a session has an
  account (`HasAccount`), the primary is the last to make a change (`PrimaryIsLast`). Then what a client was told last is
  true on every server left (`TrustedIsTrue`), which is `SessionsOutliveCrashes`.

All four hold as long as no replica has closed its connection to a primary, as do the properties.

**`FailoverMessages`.** Messages are numbered as their requests begin, and what carries the proof is that *every* list of
them is in this order (`OrderOK`): what was accepted, every server's queue, what the delivery thread has still to send, and
what was refused, which comes before it. A sequence in order has each message in one place (`OnePlace`), so it is enough
to follow which messages are in a list. Three things are to be known for the order: no list is ahead of the requests
(`NumbersOK`), the message being sent is new to everyone whom it has not reached (`SendOK`), and the delivery thread
reports what was refused, by clients that have ended (`BatchOK`). Then:

- `MailInv`: what waits is in every queue (`Queued`), a replica that the round has reached has its message already
  (`ReachedHaveIt`), and what the delivery thread holds of a recipient is all that waits for it (`BatchIsAll`). A replica
  that takes over the refused messages thus loses none, and one that has not taken them over has more, not less.
  `MessagesOutliveCrashes` and `ServiceIsAMailbox` follow: a message that waits is the first of them when it is
  handed over (`HandsOverTheFirst`), since those after a refused one are refused too. One that has been handed over before,
  or whose sender was never answered, is no step of the mailbox.
- `RedeliveryInv`: what a serving server has queued, or its delivery thread in hand, was handed over at most once for
  each crash so far, and anything else once more. A crash of the primary raises the bound for the next one, which starts with its own
  queue; the primary itself takes a message off its queue before it visits the recipient again.

In `Mailbox` and in `AcceptedIsKept` waiting messages are positions in what was accepted, and not a sequence selected
from it: what a recursive definition computes could not be proved.

**`FramingProofs`.** The reader sees one stream, what is left over followed by what is on the wire, and a chunk
moves a cell from the one to the other (`ReceivedStream`). `BlocksInv` says that each cell of it lies in a whole packet: a send adds a
packet at the end, and what is parsed is the first one as a whole (`ParsedStream`). This is more than
`PacketsStayTogether`, which speaks of neighbours only, and does not say that the packet at the end is complete.

- `OrderInv` is about connections on which messages have not been mixed. Each packet of the stream goes on where the one before
  it stopped or begins a message (`StreamOK`), the first one goes on where the reader is (`ReaderOK`), and a thread in the middle of a message is
  the one whose packet the stream ended with (`SendersOK`). A packet never gets into the other thread's message without `upset` saying so.
  `MessagesAreWhole` and `ReadersGoOn` follow.
- `ChannelInv` holds also on connections on which messages have been mixed. For each thread, what was processed of it are the ids
  from 0 to `R - 1`, the packets in the stream that end a message have the ids that follow, without a gap (`IdsOK`), and those still to be
  sent belong to the newest message (`QueueOK`, until the connection is closed). `WireIsAChannel` follows: the packet that ends
  the next message to be processed has the id `R`, and if the message is not whole the reader gives up.

`IdsOf`, the ids of a thread's messages among all that were processed, finds the k-th of them by counting, in the place of the
recursion of `SelectSeq`. `IdsOfSelects` in `MCFraming` has TLC compare the two on all sequences up to four.

**`StoresProofs`.** Two of the theorems hold for names with spaces, too: `StoresHaveTypes`, and
`OnlyBlanksEndTheStart` if no name *begins* with one (`Before = {}`; a sender's name that does makes the second word of its
line the empty one, and the message is read as a phantom). `FilesMatchMemory` and `RestartsRestore` are for servers
without any such name (`Unpadded`). This is a hypothesis of the theorems and not an assumption on the constants, because the client lets
such names through: `padded_name` shows what becomes of one. All four hold for whatever a replica is sent, doubled names included.

- `TypesInv` adds to the types that a call at work is about an account, and that there is a line to write in its last step.
- `BlankInv`: a line that would end a start waits in its recipient's queue, whether it is in the file already, among the lines to
  be kept or among those still to be written; but for the recipient of a call that is about to write the file anew.
- `AccountsInv`, `MessagesInv`: neither file is what memory holds while a call is at work. What the file *will* hold when the call is
  done (`AccountsAfterCall`, `MessagesAfterCall`) is, at every step, and a step of the call does not change it. For messages
  it is what a recipient's lines are read as (`ReadOf`) that equals its queue with the spaces after the texts and the phantoms taken
  away (`Awaited`): the two are never the same sequence, as the file has the lines of all in the order in which they were written.
- A kill leaves what the file had, or a prefix of the lines to be kept (`Prefixes`). A start then reads a front part of
  what memory held (`PrefixIsContinued`, `ContinuedIsPrefix`), so `RestartsRestore` is read off the same invariant. A kill
  between the change of a queue and the truncation of its file brings the queue from before the call back, `was`, which the file still has.
- `Agree` says how a list of accounts and its file agree: without the doubled names they are the same, and of each doubled name the file has
  fewer. A removal takes the first of a name from the list (`RemoveFirstSplits`, `RemoveFirstKeeps`) and all of it from the file;
  `RemovalKeeps` is that the two agree afterwards, with the name among the doubled ones if the list still has it.
- What a replica is given has the type of a queue (`GivenHasType`), and its real messages are what the file gives back (`AwaitedOfGiven`).

All of it rests on the algebra of `Kept(s, S)`, the elements of `s` that are in `S`: of an append, of a concatenation, of what was kept already, of
all and of none. It is proved from `Nth`, by induction on the length: `LeastNumber` and `SequencesByAppending` get this from the
well-foundedness of the numbers, by a set in the place of the library's predicate.

**Only model-checked:** `LocksAreReleased` (see above) and all of liveness (`EveryRequestIsAnswered`, `EverythingIsDelivered`, `PrimaryIsFound`, `RegisteredClientsAreServed`,
`EverythingIsProcessed`): fairness and `ENABLED` are out of the prover's reach. What the instances of `MCChatServer`, `MCFraming` and
`MCStores` assume of the operators that count (that they are `SelectSeq`) is evaluated up to a bound. The runs that end in a
counterexample refute their property and need no proof.

No module here has a `RECURSIVE` operator.

## 5. Where code and documentation disagree

Each has a run that ends in a counterexample.

- `deadlock`: `process_login` waits for `account_list_lock` with the login locks in hand,
  `process_create_account` for the login locks with `account_list_lock` in hand, in the order the comment at `server.py:171` names.
  One of each at the same time stops the server.
- `two_sessions`: `process_delete_account` logs its user off, gives the locks back and then removes the
  account. A login in between succeeds, and outlives the account. When the account is created again two
  clients take themselves for its user.
- `unacknowledged`: two or more messages that could not be delivered are sent to the replicas as
  one update that they cannot parse. They close the connection, and the primary takes this
  for an acknowledgement, now and from then on.
- `mixed_packets`: `send` gives the socket's lock back after each packet. If the handler sends its response between the two packets of a long
  message that is being delivered, as in TLC's trace, the reader takes the second packet for a message, fails on it, and the client takes that
  for the loss of the primary. A delivered message in the middle of a response of several packets (a list of accounts of more than 2038 bytes) does the same.
- `padded_name`: the client checks a username with `strip` and sends it without. An account `'alice1 '` is
  not found by its line when it is removed, and comes back at the next start as `'alice1'`.

Others were met on the way and have no run of their own; the properties say where they begin:

- A connection that ends before it has registered ends its thread with both login locks held, and no request
  is answered any more (`LocksAreReleased`). If this happens on a replica, it can never take over as primary: it waits for `clients_lock` (`PrimaryIsFound`).
- A client that loses a primary which still runs, because of packets it cannot read or of an exception in its handler, waits for a `SWITCH_PRIMARY` that
  nobody sends until this server crashes (`RegisteredClientsAreServed`).
- A replica can have an account twice, after a create that failed half-way and was repeated. To remove it takes one from
  memory and all from the file, and a restart has fewer (`FileMatchesMemory`, `RestartRestores`).
- A new primary announces itself once. A client whose registration it handles after that waits for ever
  (`RegisteredClientsAreServed` asks that every server knows the client before the first crash).
- A request entered while the client looks for the next primary is sent on `None`: the program ends (`Request`).
- A client waits on the first unbroken connection in the order of the config file; if the file is not in ascending order of ids
  it can wait for ever for a server that is not the lowest one running (`RegisteredClientsAreServed`, configuration `Ascending`).
- After a fail-over, a session that a crash has left without a connection ends the delivery thread (`SessionsHaveConnections`).
- A message without text in a queue keeps the server from starting (`OnlyBlanksPreventStart`).
- A kill while one recipient's messages are rewritten loses those of others (`RestartRestores`).
- The heartbeat's id runs out after 65,536 heartbeats, nine hours: the thread ends, and this server never takes over (`PrimaryIsFound`, `RunOutOfIds`).
- The delivery thread sends with ids, too: `encode` ends it with three locks held after 65,536 messages. Not modelled.

## 6. What is not modelled

- The tables of `Failover` are not combined with `ClientLibrary`: that a client finds the next primary and that this one has
  its session are shown separately, with `Leadership` between them.
- A replica that reads an old primary's update after the next primary serves (see *Timing* above).
- The file of the sessions: it is emptied at the start and never read. `clear`, which only tests call.
- Partial sends: the socket blocks, and `send` of a packet of 2 KB takes it whole; the loop around it would send the packet
  again from its beginning.
- `read_small_packets` byte by byte. Its messages are one packet and arrive whole; `ClientLibrary` has it as a
  read that answers or breaks, or misreads what was left on a connection that was given up.
- The ids of messages in `ChatServer` and `Failover`: that `encode` raises `OverflowError` in a handler or in the delivery thread, there with
  three locks held, is in neither. `Framing` has the limit for a client's connection, `Election` for the heartbeats.
- Start-up: that all servers find each other within the two waits of 10 seconds is the initial state of
  `Election`. A matter of real time.
- `search_accounts`, prompts and printing change nothing. Of `process_list_accounts` the lock is modelled.
- The unit tests, which were read for what the authors expect.

## 7. Plan

All components with state of their own are modelled, and every safety property that a run checks is proved but `LocksAreReleased`, with the
refinements of `Leadership`, `Mailbox` and `Channel`. What could come next is in section 6: to combine the tables of `Failover` with
`ClientLibrary`, ids that run out in the delivery thread, and updates that arrive after the next primary serves. Liveness stays with TLC.
