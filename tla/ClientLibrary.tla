--------------------------- MODULE ClientLibrary ----------------------------
(***************************************************************************)
(* Clients that follow the primary (src/client_replica_library.py),        *)
(* together with the servers of Election.  A client connects to every      *)
(* server and registers there, asks for the primary, and reads from it     *)
(* until the connection breaks.  Then it waits for SWITCH_PRIMARY, on one  *)
(* connection after the other in the order of its config file, each until  *)
(* something arrives there or it breaks.                                   *)
(*                                                                         *)
(* While a client is served its requests go over the primary's connection  *)
(* only, and are ChatServer's subject.  What matters of them here is that  *)
(* they may end in a connection lost to a server that runs: the server     *)
(* closes it after an exception of the handler, and the client's reader    *)
(* gives it up on packets it cannot make sense of (Framing).               *)
(***************************************************************************)
EXTENDS Election, FiniteSets, Sequences

CONSTANTS
    Clients, \* client processes
    Config,  \* the servers in the order of the config file
    None,    \* no primary
    MaxMishaps \* bound of the things that go wrong beside crashes

ASSUME ClientAssumption ==
    /\ Config \in Seq(Servers)
    /\ \A s \in Servers : \E i \in 1 .. Len(Config) : Config[i] = s
    /\ None \notin Servers
    /\ MaxMishaps \in Nat

VARIABLES
    step,       \* what each client does
    at,         \* the index in Config of the connection it reads
    primary,    \* the server whose connection is self.primary
    inbox,      \* inbox[s][c]: messages from c that s has not handled
    stream,     \* stream[s][c]: ids s has sent to c and c has not read
    registered, \* registered[s]: the clients in s's table of clients
    closed,     \* closed[s]: the clients whose connection s has closed
    upset       \* upset[c]: servers whose connection c's reader has given up

library == <<step, at, primary>>
tables == <<registered, closed, upset>>
channel == <<inbox, stream, tables>>
systemVars == <<vars, library, channel>>

SystemInit ==
    /\ Init
    /\ step = [c \in Clients |-> "start"]
    /\ at = [c \in Clients |-> 1]
    /\ primary = [c \in Clients |-> None]
    /\ inbox = [s \in Servers |-> [c \in Clients |-> <<>>]]
    /\ stream = [s \in Servers |-> [c \in Clients |-> <<>>]]
    /\ registered = [s \in Servers |-> {}]
    /\ closed = [s \in Servers |-> {}]
    /\ upset = [c \in Clients |-> {}]

\* The mishaps so far: locks left held, heartbeat threads ended, connections lost
\* though the server runs.
Mishaps ==
    Cardinality(leaked)
    + Cardinality({s \in Servers : phase[s] = "stopped"})
    + Cardinality({sc \in Servers \X Clients : sc[2] \in closed[sc[1]]})
    + Cardinality({sc \in Servers \X Clients : sc[1] \in upset[sc[2]]})

-----------------------------------------------------------------------------
(* The servers.                                                            *)

AnnounceNothing(s, cs) == UNCHANGED stream \* mutant: the loop is left out

\* Mutant: the announcement carries -1, primary_id before the determination.
AnnounceUndecided(s, cs) ==
    stream' = [stream EXCEPT ![s] = [c \in Clients |->
                 IF c \in cs THEN Append(stream[s][c], Undecided) ELSE stream[s][c]]]

\* SWITCH_PRIMARY goes to the clients in cs.
Announce(s, cs) ==
    stream' = [stream EXCEPT ![s] = [c \in Clients |->
                 IF c \in cs THEN Append(stream[s][c], s) ELSE stream[s][c]]]

\* What is sent before the clients have all been told.
AnnounceToSome(s) ==
    \/ /\ phase[s] = "announce" /\ s \notin leaked
       /\ \E cs \in SUBSET registered[s] : Announce(s, cs)
    \/ (phase[s] = "announce" => s \in leaked) /\ UNCHANGED stream

\* A crash, or the end of the ids, while the clients are told may leave some of
\* them uninformed.
CrashServer(s) ==
    /\ Crash(s) /\ AnnounceToSome(s)
    /\ inbox' = [inbox EXCEPT ![s] = [c \in Clients |-> <<>>]]
    /\ registered' = [registered EXCEPT ![s] = {}]
    /\ UNCHANGED <<library, closed, upset>>

StopServer(s) ==
    /\ RunOutOfIds(s) /\ AnnounceToSome(s)
    /\ UNCHANGED <<library, inbox, tables>>

LeaveLocked(s) == LeakLock(s) /\ UNCHANGED <<library, channel>>

AnnouncePrimary(s) ==
    /\ BecomePrimary(s)
    /\ Announce(s, registered[s])
    /\ UNCHANGED <<library, inbox, tables>>

DeterminePrimary(s) ==
    /\ (\E p \in Servers : Ask(s, p)) \/ Decide(s) \/ MissHeartbeat(s)
    /\ UNCHANGED <<library, channel>>

\* A handler thread's next message; registering takes clients_lock.  A server
\* accepts its clients only after it has determined the primary for the first
\* time.
HandleMessage(s, c) ==
    /\ s \in alive
    /\ primary_id[s] # Undecided
    /\ inbox[s][c] # <<>>
    /\ inbox' = [inbox EXCEPT ![s][c] = Tail(@)]
    /\ \/ /\ Head(inbox[s][c]) = "REGISTER_CLIENT_UUID"
          /\ s \notin leaked
          /\ registered' = [registered EXCEPT ![s] = @ \cup {c}]
          /\ UNCHANGED stream
       \/ /\ Head(inbox[s][c]) = "GET_PRIMARY"
          /\ stream' = [stream EXCEPT ![s][c] = Append(@, primary_id[s])]
          /\ UNCHANGED registered
    /\ UNCHANGED <<vars, library, closed, upset>>

\* The handler of a client that uses s, or did so before it gave the connection
\* up, raises an exception on a request and closes the connection.  The client
\* leaves the table if the handler gets clients_lock.
CloseConnection(s, c) ==
    /\ s \in alive
    /\ primary[c] = s \/ s \in upset[c]
    /\ inbox[s][c] = <<>>
    /\ closed' = [closed EXCEPT ![s] = @ \cup {c}]
    /\ registered' = [registered EXCEPT ![s] = IF s \in leaked THEN @ ELSE @ \ {c}]
    /\ UNCHANGED <<vars, library, inbox, stream, upset>>

-----------------------------------------------------------------------------
(* The clients.                                                            *)

Peer(c) == Config[at[c]]

Broken(s, c) == (s \notin alive \/ c \in closed[s]) /\ stream[s][c] = <<>>

\* What is sent to a server that has crashed is never handled: send only returns
\* False.
Put(in, s, c, message) ==
    IF s \in alive THEN [in EXCEPT ![s][c] = Append(@, message)] ELSE in

\* connect_to_service, up to the first GET_PRIMARY of _get_primary.  A server
\* that has crashed is in self.sockets nevertheless.
Connect(c) ==
    /\ step[c] = "start"
    /\ step' = [step EXCEPT ![c] = "ask"]
    /\ inbox' = LET registering == [s \in Servers |->
                        IF s \in alive
                        THEN [inbox[s] EXCEPT ![c] = Append(@, "REGISTER_CLIENT_UUID")]
                        ELSE inbox[s]]
                IN  Put(registering, Peer(c), c, "GET_PRIMARY")
    /\ UNCHANGED <<vars, at, primary, stream, tables>>

\* An id has arrived on the connection the client waits on: the answer to
\* GET_PRIMARY, or SWITCH_PRIMARY.
Switch(c) ==
    /\ step[c] \in {"ask", "search"}
    /\ stream[Peer(c)][c] # <<>>
    /\ primary' = [primary EXCEPT ![c] = Head(stream[Peer(c)][c])]
    /\ stream' = [stream EXCEPT ![Peer(c)][c] = Tail(@)]
    /\ step' = [step EXCEPT ![c] = "read"]
    /\ UNCHANGED <<vars, at, inbox, tables>>

\* Nothing was read: on to the next connection.  After the last one primary is
\* None, the loop of readFromServer ends, and with it the listening thread.
NextConnection(c) ==
    /\ \/ /\ at[c] = Len(Config)
          /\ step' = [step EXCEPT ![c] = "ended"]
          /\ UNCHANGED <<at, inbox>>
       \/ /\ at[c] < Len(Config)
          /\ at' = [at EXCEPT ![c] = @ + 1]
          /\ inbox' = IF step[c] = "ask"
                      THEN Put(inbox, Config[at[c] + 1], c, "GET_PRIMARY")
                      ELSE inbox
          /\ UNCHANGED step
    /\ UNCHANGED <<vars, primary, stream, tables>>

TryNext(c) ==
    /\ step[c] \in {"ask", "search"}
    /\ Broken(Peer(c), c)
    /\ NextConnection(c)

\* On a connection that was given up the rest of some packets may be waiting.
\* It is read as nothing, or as a message without an id: KeyError, which ends
\* the listening thread.
Misread(c) ==
    /\ step[c] = "search"
    /\ Peer(c) \in upset[c]
    /\ \/ NextConnection(c)
       \/ /\ step' = [step EXCEPT ![c] = "ended"]
          /\ UNCHANGED <<vars, at, primary, channel>>

\* read_packets on the primary's connection drops what has no case in
\* process_operation, ...
ReadPrimary(c) ==
    /\ step[c] = "read"
    /\ stream[primary[c]][c] # <<>>
    /\ stream' = [stream EXCEPT ![primary[c]][c] = Tail(@)]
    /\ UNCHANGED <<vars, library, inbox, tables>>

SearchPrimary(c) ==
    /\ primary' = [primary EXCEPT ![c] = None]
    /\ step' = [step EXCEPT ![c] = "search"]
    /\ at' = [at EXCEPT ![c] = 1]

\* ... returns None when it breaks, ...
LosePrimary(c) ==
    /\ step[c] = "read"
    /\ Broken(primary[c], c)
    /\ SearchPrimary(c)
    /\ UNCHANGED <<vars, channel>>

\* ... and also on an exception, a header of another version or a chunk of
\* zeros, whatever the server does.
GiveUpPrimary(c) ==
    /\ step[c] = "read" /\ primary[c] # None
    /\ SearchPrimary(c)
    /\ upset' = [upset EXCEPT ![c] = @ \cup {primary[c]}]
    /\ UNCHANGED <<vars, inbox, stream, registered, closed>>

\* The main thread does not know of the search.  A request the user enters
\* meanwhile is sent on None: AttributeError, which ends the program.
Request(c) ==
    /\ step[c] \in {"search", "ended"}
    /\ step' = [step EXCEPT ![c] = "failed"]
    /\ UNCHANGED <<vars, at, primary, channel>>

-----------------------------------------------------------------------------
ServerStep(s) ==
    \/ DeterminePrimary(s) \/ AnnouncePrimary(s)
    \/ \E c \in Clients : HandleMessage(s, c)

FollowPrimary(c) ==
    \/ Switch(c) \/ TryNext(c) \/ ReadPrimary(c) \/ LosePrimary(c)

Mishap(s) ==
    \/ StopServer(s) \/ LeaveLocked(s)
    \/ \E c \in Clients : CloseConnection(s, c)

SystemNext ==
    \/ \E s \in Servers : ServerStep(s) \/ CrashServer(s)
    \/ \E c \in Clients :
          Connect(c) \/ FollowPrimary(c) \/ Misread(c) \/ Request(c)
    \/ /\ Mishaps < MaxMishaps
       /\ (\E s \in Servers : Mishap(s)) \/ (\E c \in Clients : GiveUpPrimary(c))

SystemSpec == SystemInit /\ [][SystemNext]_systemVars

\* Every thread of a running server, and of a client that has been started, is
\* scheduled; no mishap has to happen.
SystemFairness ==
    /\ \A s \in Servers :
          /\ WF_systemVars(DeterminePrimary(s) \/ AnnouncePrimary(s))
          /\ \A c \in Clients : WF_systemVars(HandleMessage(s, c))
    /\ \A c \in Clients : WF_systemVars(FollowPrimary(c))

FairSystemSpec == SystemSpec /\ SystemFairness

-----------------------------------------------------------------------------
SystemTypeOK ==
    /\ TypeOK
    /\ step \in [Clients -> {"start", "ask", "read", "search", "ended",
                          "failed"}]
    /\ at \in [Clients -> 1 .. Len(Config)]
    /\ primary \in [Clients -> Servers \cup {None}]
    /\ inbox \in [Servers -> [Clients ->
                    Seq({"REGISTER_CLIENT_UUID", "GET_PRIMARY"})]]
    /\ stream \in [Servers -> [Clients -> Seq(Servers)]]
    /\ registered \in [Servers -> SUBSET Clients]
    /\ closed \in [Servers -> SUBSET Clients]
    /\ upset \in [Clients -> SUBSET Servers]

\* A client that is served by a running server is served by the lowest one
\* running, whatever answers and announcements of earlier primaries it still
\* reads: no two clients use different running servers.
ServedByTheLowest ==
    \A c \in Clients, t \in alive : primary[c] \in alive => primary[c] <= t

\* c reads from the server that delivers, and that server knows it.
Served(c) ==
    /\ step[c] = "read"
    /\ primary[c] \in alive
    /\ phase[primary[c]] = "deliver"
    /\ c \in registered[primary[c]]

\* The connection to a server that runs was lost on one side or the other.
HasLost(c, s) == s \in upset[c] \/ c \in closed[s]

\* A client that was in every server's table of clients before the first crash
\* finds each new primary, until no server is left or its user enters a request
\* while it has no primary.  A client that has lost a primary which still runs
\* waits for nothing, but only until this one crashes and the next takes over,
\* or its thread has died of what it read meanwhile; and it has to wait, as the
\* servers have, if the lowest server cannot take over.
RegisteredClientsAreServed ==
    \A c \in Clients :
        <>(alive = Servers /\ \A s \in Servers : c \in registered[s])
            => <>[](\/ alive = {} \/ Served(c) \/ step[c] = "failed"
                    \/ \E s \in Servers :
                          IsLowest(s) /\ (Disabled(s) \/ HasLost(c, s))
                    \/ step[c] = "ended" /\ upset[c] # {})

=============================================================================
