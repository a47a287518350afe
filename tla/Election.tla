------------------------------ MODULE Election ------------------------------
(***************************************************************************)
(* How the servers agree on a primary (src/server.py).  After start-up     *)
(* every server asks all others for their ids and takes the lowest of the  *)
(* answers for the primary.  A server that is not the primary sends it a   *)
(* heartbeat every half second, and asks again once that is not answered.  *)
(* Servers crash and never come back; a broken connection is the only sign *)
(* of it.                                                                  *)
(*                                                                         *)
(* Two mishaps keep a running server from taking over.  A handler thread   *)
(* may die and leave clients_lock held, which check_heartbeat takes before *)
(* it tells the clients of the new primary; and the ids of the messages    *)
(* the server sends may run out, which ends the heartbeat thread.          *)
(*                                                                         *)
(* The connections between the servers exist when the model starts, which  *)
(* run arranges by waiting for 10 seconds on either side of connecting.    *)
(***************************************************************************)
EXTENDS Integers

CONSTANT Servers \* the ids in the config file

ASSUME ServersAssumption == Servers \subseteq Nat /\ Servers # {}

VARIABLES
    alive,      \* the servers that have not crashed
    phase,      \* what a server's main or heartbeat thread does
    primary_id, \* each server's primary_id, -1 to begin with
    unasked,    \* servers that determine_primary_server has yet to ask
    answers,    \* its alive_server_ids
    leaked      \* the servers whose clients_lock is never given back

vars == <<alive, phase, primary_id, unasked, answers, leaked>>

Undecided == -1

Init ==
    /\ alive = Servers
    /\ phase = [s \in Servers |-> "determine"]
    /\ primary_id = [s \in Servers |-> Undecided]
    /\ unasked = [s \in Servers |-> Servers \ {s}]
    /\ answers = [s \in Servers |-> {s}]
    /\ leaked = {}

Crash(s) ==
    /\ s \in alive
    /\ alive' = alive \ {s}
    /\ UNCHANGED <<phase, primary_id, unasked, answers, leaked>>

AskCountsSilence(s, p) == \* mutant: a missing answer is listed as well
    /\ s \in alive /\ phase[s] = "determine"
    /\ p \in unasked[s]
    /\ unasked' = [unasked EXCEPT ![s] = @ \ {p}]
    /\ answers' = [answers EXCEPT ![s] =
                     @ \cup {IF p \in alive THEN p ELSE Undecided}]
    /\ UNCHANGED <<alive, phase, primary_id, leaked>>

AskTrusting(s, p) == \* mutant: a missing answer counts as the peer's id
    /\ s \in alive /\ phase[s] = "determine"
    /\ p \in unasked[s]
    /\ unasked' = [unasked EXCEPT ![s] = @ \ {p}]
    /\ answers' = [answers EXCEPT ![s] = @ \cup {p}]
    /\ UNCHANGED <<alive, phase, primary_id, leaked>>

\* One turn of the loop of determine_primary_server: ASSIGN_PRIMARY is answered
\* with the other server's id, or the read finds the connection broken.
Ask(s, p) ==
    /\ s \in alive /\ phase[s] = "determine"
    /\ p \in unasked[s]
    /\ unasked' = [unasked EXCEPT ![s] = @ \ {p}]
    /\ \/ p \in alive /\ answers' = [answers EXCEPT ![s] = @ \cup {p}]
       \/ p \notin alive /\ UNCHANGED answers
    /\ UNCHANGED <<alive, phase, primary_id, leaked>>

Highest(ids, m) == m \in ids /\ \A t \in ids : t <= m \* mutant of Lowest

Lowest(ids, m) == m \in ids /\ \A t \in ids : m <= t

\* Mutant: a server decides as soon as it has one answer of another server.
DecideEarly(s) ==
    /\ s \in alive /\ phase[s] = "determine"
    /\ unasked[s] = {} \/ answers[s] # {s}
    /\ \E m \in Servers :
          /\ Lowest(answers[s], m)
          /\ primary_id' = [primary_id EXCEPT ![s] = m]
          /\ phase' = [phase EXCEPT ![s] = IF m = s THEN "deliver" ELSE "watch"]
    /\ answers' = [answers EXCEPT ![s] = {s}]
    /\ UNCHANGED <<alive, unasked, leaked>>

\* The rest of determine_primary_server, whose answers are a local variable, and
\* what its caller does next.  If the server is the primary itself, run starts
\* the message delivery thread at once, check_heartbeat tells the clients before.
Decide(s) ==
    /\ s \in alive /\ phase[s] = "determine"
    /\ unasked[s] = {}
    /\ \E m \in Servers :
          /\ Lowest(answers[s], m)
          /\ primary_id' = [primary_id EXCEPT ![s] = m]
          /\ phase' = [phase EXCEPT ![s] =
                         IF m # s THEN "watch"
                         ELSE IF primary_id[s] = Undecided THEN "deliver"
                         ELSE "announce"]
    /\ answers' = [answers EXCEPT ![s] = {s}]
    /\ UNCHANGED <<alive, unasked, leaked>>

\* check_heartbeat finds the connection to the primary broken.  (A heartbeat
\* that is answered changes nothing.)
MissHeartbeat(s) ==
    /\ s \in alive /\ phase[s] = "watch"
    /\ primary_id[s] \notin alive
    /\ phase' = [phase EXCEPT ![s] = "determine"]
    /\ unasked' = [unasked EXCEPT ![s] = Servers \ {s}]
    /\ UNCHANGED <<alive, primary_id, answers, leaked>>

\* SWITCH_PRIMARY has been sent to every registered client, under clients_lock:
\* become_primary.
BecomePrimary(s) ==
    /\ s \in alive /\ phase[s] = "announce"
    /\ s \notin leaked
    /\ phase' = [phase EXCEPT ![s] = "deliver"]
    /\ UNCHANGED <<alive, primary_id, unasked, answers, leaked>>

\* A connection ends before the client has registered: its handler dies of
\* KeyError and keeps clients_lock.  Clients are accepted only after the first
\* determination.
LeakLock(s) ==
    /\ s \in alive /\ primary_id[s] # Undecided
    /\ leaked' = leaked \cup {s}
    /\ UNCHANGED <<alive, phase, primary_id, unasked, answers>>

\* msg_counter, which every heartbeat increments, has outgrown the two bytes of
\* an id: encode raises OverflowError and the heartbeat thread ends, with
\* clients_lock held if it was telling the clients.
RunOutOfIds(s) ==
    /\ s \in alive /\ primary_id[s] # Undecided
    /\ \/ phase[s] \in {"watch", "determine"} /\ UNCHANGED leaked
       \/ /\ phase[s] = "announce" /\ s \notin leaked
          /\ leaked' = leaked \cup {s}
    /\ phase' = [phase EXCEPT ![s] = "stopped"]
    /\ UNCHANGED <<alive, primary_id, unasked, answers>>

Step(s) ==
    \/ \E p \in Servers : Ask(s, p)
    \/ Decide(s) \/ MissHeartbeat(s) \/ BecomePrimary(s)

Next == \E s \in Servers :
    Step(s) \/ Crash(s) \/ LeakLock(s) \/ RunOutOfIds(s)

Spec == Init /\ [][Next]_vars

\* The threads of a server that runs are scheduled; nothing forces a crash or
\* one of the mishaps.
Fairness == \A s \in Servers : WF_vars(Step(s))

FairSpec == Spec /\ Fairness

-----------------------------------------------------------------------------
TypeOK ==
    /\ alive \in SUBSET Servers
    /\ phase \in [Servers -> {"determine", "watch", "announce", "deliver",
                              "stopped"}]
    /\ primary_id \in [Servers -> Servers \cup {Undecided}]
    /\ unasked \in [Servers -> SUBSET Servers]
    /\ answers \in [Servers -> SUBSET Servers]
    /\ leaked \in SUBSET Servers

\* However the servers' questions and crashes interleave, a server never takes
\* for the primary one that is higher than a server still running.
NoneLowerIsAlive ==
    \A s \in Servers, t \in alive : primary_id[s] <= t

\* No split brain: two running servers never both hold themselves for the
\* primary, although each decides alone, on answers that may be outdated.
AtMostOnePrimary ==
    \A s, t \in alive : primary_id[s] = s /\ primary_id[t] = t => s = t

\* A server never goes back to a primary it has given up: primary_id only grows,
\* so check_heartbeat looks each dead primary up once.
PrimaryOnlyGrows ==
    [][\A s \in Servers : primary_id'[s] >= primary_id[s]]_primary_id

\* The servers implement the abstract leadership.
Promise == INSTANCE Leadership
             WITH live <- alive,
                  serving <- {s \in alive : phase[s] = "deliver"}

ServesAsPromised == Promise!Spec

\* s holds itself for the primary, or will never know, and does not deliver.
Disabled(s) == phase[s] = "stopped" \/ (phase[s] = "announce" /\ s \in leaked)

IsLowest(s) == s \in alive /\ \A t \in alive : s <= t

\* In the end, if a server is left, the lowest one left delivers and all that
\* are left know it: "as long as one server is running" (README.md) there is a
\* primary.  What prevents it is a lock that was left held or ids that have run
\* out on this very server, and what leaves another one unaware its own ids.
PrimaryIsFound ==
    <>[](\A s \in Servers : IsLowest(s) =>
           /\ phase[s] = "deliver" \/ Disabled(s)
           /\ \A t \in alive : primary_id[t] = s \/ phase[t] = "stopped")

=============================================================================
