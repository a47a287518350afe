-------------------------- MODULE ClientLibraryProofs ---------------------------
(***************************************************************************)
(* The servers of Election agree on a primary, and the clients of          *)
(* ClientLibrary follow it, for every set of ids, any clients and any order*)
(* of the config file.                                                     *)
(***************************************************************************)
EXTENDS ClientLibrary, TLAPS

-----------------------------------------------------------------------------
(* The servers, which choose a primary.                                    *)

LEMMA Integral == Undecided \in Int /\ \A s \in Servers : s \in Int
BY ServersAssumption DEF Undecided

LEMMA NextType == TypeOK /\ [Next]_vars => TypeOK'
BY DEF TypeOK, Next, Step, Crash, Ask, Decide, MissHeartbeat, BecomePrimary,
       LeakLock, RunOutOfIds, Lowest, vars

\* The tables that TypeOK describes always have their types.
THEOREM TypeCorrect == Spec => []TypeOK
<1>1. Init => TypeOK
  BY DEF Init, TypeOK
<1>2. QED
  BY <1>1, NextType, PTL DEF Spec

-----------------------------------------------------------------------------
(* What makes the election safe is what a server knows of the servers that *)
(* still run: every one it has asked has answered, and neither an answer   *)
(* nor a running server is below the primary it has decided on.            *)

AskedHaveAnswered ==
    \A s \in Servers : phase[s] = "determine" =>
        \A t \in alive : t \in answers[s] \/ t \in unasked[s]

AnswersAreAbove ==
    \A s \in Servers : /\ s \in answers[s]
                       /\ \A t \in answers[s] : primary_id[s] <= t

\* A server that delivers, or is about to, holds itself for the primary.
ServesItself ==
    \A s \in Servers :
        phase[s] \in {"announce", "deliver"} => primary_id[s] = s

IInv ==
    /\ TypeOK
    /\ NoneLowerIsAlive
    /\ AskedHaveAnswered
    /\ AnswersAreAbove
    /\ ServesItself

LEMMA InitInv == Init => IInv
BY ServersAssumption
   DEF Init, IInv, TypeOK, NoneLowerIsAlive, AskedHaveAnswered, AnswersAreAbove,
       ServesItself, Undecided

LEMMA NextInv == IInv /\ [Next]_vars => IInv'
<1> SUFFICES ASSUME IInv, [Next]_vars
             PROVE  IInv'
  OBVIOUS
<1> USE ServersAssumption DEF IInv, TypeOK
<1>t. TypeOK'
  BY NextType
<1>1. ASSUME NEW s \in Servers, Crash(s)
      PROVE  IInv'
  BY <1>t, <1>1 DEF Crash, NoneLowerIsAlive, AskedHaveAnswered,
                    AnswersAreAbove, ServesItself
<1>2. ASSUME NEW s \in Servers, NEW p \in Servers, Ask(s, p)
      PROVE  IInv'
  <2>1. NoneLowerIsAlive' /\ ServesItself'
    BY <1>2 DEF Ask, NoneLowerIsAlive, ServesItself
  <2>2. AskedHaveAnswered'
    BY <1>2 DEF Ask, AskedHaveAnswered
  <2>3. AnswersAreAbove'
    \* Only a server that runs is added, and none is below primary_id[s].
    <3>1. CASE p \in alive
      <4>1. answers' = [answers EXCEPT ![s] = answers[s] \cup {p}]
        BY <1>2, <3>1 DEF Ask
      <4>2. primary_id[s] <= p /\ primary_id' = primary_id
        BY <1>2, <3>1 DEF Ask, NoneLowerIsAlive
      <4>3. QED
        BY <4>1, <4>2 DEF AnswersAreAbove
    <3>2. CASE p \notin alive
      BY <1>2, <3>2 DEF Ask, AnswersAreAbove
    <3>3. QED
      BY <3>1, <3>2
  <2>4. QED
    BY <1>t, <2>1, <2>2, <2>3
<1>3. ASSUME NEW s \in Servers, Decide(s)
      PROVE  IInv'
  <2>1. PICK m \in Servers :
          /\ Lowest(answers[s], m)
          /\ primary_id' = [primary_id EXCEPT ![s] = m]
          /\ phase' = [phase EXCEPT ![s] =
                         IF m # s THEN "watch"
                         ELSE IF primary_id[s] = Undecided THEN "deliver"
                         ELSE "announce"]
    BY <1>3 DEF Decide
  <2>2. \A t \in alive : m <= t
    \* Nobody is left to ask, so whoever runs is among the answers.
    BY <1>3, <2>1 DEF Decide, Lowest, AskedHaveAnswered
  <2>3. NoneLowerIsAlive'
    BY <1>3, <2>1, <2>2 DEF Decide, NoneLowerIsAlive
  <2>4. AskedHaveAnswered'
    BY <1>3, <2>1 DEF Decide, AskedHaveAnswered
  <2>5. AnswersAreAbove'
    BY <1>3, <2>1 DEF Decide, Lowest, AnswersAreAbove
  <2>6. ServesItself'
    BY <1>3, <2>1 DEF Decide, ServesItself
  <2>7. QED
    BY <1>t, <2>3, <2>4, <2>5, <2>6
<1>4. ASSUME NEW s \in Servers, MissHeartbeat(s)
      PROVE  IInv'
  BY <1>t, <1>4 DEF MissHeartbeat, NoneLowerIsAlive, AskedHaveAnswered,
                    AnswersAreAbove, ServesItself
<1>5. ASSUME NEW s \in Servers, BecomePrimary(s)
      PROVE  IInv'
  BY <1>t, <1>5 DEF BecomePrimary, NoneLowerIsAlive, AskedHaveAnswered,
                    AnswersAreAbove, ServesItself
<1>6. ASSUME NEW s \in Servers, LeakLock(s)
      PROVE  IInv'
  BY <1>t, <1>6 DEF LeakLock, NoneLowerIsAlive, AskedHaveAnswered,
                    AnswersAreAbove, ServesItself
<1>7. ASSUME NEW s \in Servers, RunOutOfIds(s)
      PROVE  IInv'
  BY <1>t, <1>7 DEF RunOutOfIds, NoneLowerIsAlive, AskedHaveAnswered,
                    AnswersAreAbove, ServesItself
<1>8. CASE UNCHANGED vars
  BY <1>t, <1>8 DEF vars, NoneLowerIsAlive, AskedHaveAnswered,
                    AnswersAreAbove, ServesItself
<1>9. QED
  BY <1>1, <1>2, <1>3, <1>4, <1>5, <1>6, <1>7, <1>8 DEF Next, Step

LEMMA Invariance == Spec => []IInv
BY InitInv, NextInv, PTL DEF Spec

-----------------------------------------------------------------------------
\* No server takes for the primary one that is higher than a running server.
THEOREM LowestIsPrimary == Spec => []NoneLowerIsAlive
BY Invariance, PTL DEF IInv

\* Two running servers are never both primary.
THEOREM NoSplitBrain == Spec => []AtMostOnePrimary
<1>1. IInv => AtMostOnePrimary
  BY ServersAssumption DEF IInv, TypeOK, NoneLowerIsAlive, AtMostOnePrimary
<1>2. QED
  BY <1>1, Invariance, PTL

\* A server's primary_id never decreases: the lowest of the servers found
\* running now was running when the earlier primary was chosen.
THEOREM PrimaryGrows == Spec => PrimaryOnlyGrows
<1>1. IInv /\ [Next]_vars
        => [\A s \in Servers : primary_id'[s] >= primary_id[s]]_primary_id
  <2> SUFFICES ASSUME IInv, [Next]_vars, primary_id' # primary_id
               PROVE  \A s \in Servers : primary_id'[s] >= primary_id[s]
    OBVIOUS
  <2>1. PICK s \in Servers : Decide(s)
    BY DEF Next, Step, Crash, Ask, MissHeartbeat, BecomePrimary, LeakLock,
           RunOutOfIds, vars
  <2>2. QED
    <3> USE <2>1, ServersAssumption DEF Decide, IInv, TypeOK
    <3>1. PICK m \in Servers : /\ m \in answers[s]
                               /\ primary_id' = [primary_id EXCEPT ![s] = m]
      BY DEF Lowest
    <3>2. primary_id[s] <= m
      BY <3>1 DEF AnswersAreAbove
    <3>3. \A t \in Servers : primary_id[t] \in Int
      <4>1. \A t \in Servers : primary_id[t] \in Servers \cup {Undecided}
        OBVIOUS
      <4>2. QED
        BY <4>1, Integral
    <3>4. ASSUME NEW t \in Servers
          PROVE  primary_id'[t] >= primary_id[t]
      <4>1. CASE t = s
        BY <3>1, <3>2, <3>3, <4>1
      <4>2. CASE t # s
        BY <3>1, <3>3, <4>2
      <4>3. QED
        BY <4>1, <4>2
    <3>5. QED
      BY <3>4
<1>2. QED
  BY <1>1, Invariance, PTL DEF Spec, PrimaryOnlyGrows

-----------------------------------------------------------------------------
\* The servers implement the abstract leadership: whoever starts to deliver is
\* the lowest server that runs, and at this time no running server delivers.
THEOREM Implements == Spec => ServesAsPromised
<1> DEFINE serving == {s \in alive : phase[s] = "deliver"}
<1>1. Init => Promise!Init
  BY DEF Init, Promise!Init
<1>2. IInv /\ [Next]_vars => [Promise!Next]_<<alive, serving>>
  <2> SUFFICES ASSUME IInv, [Next]_vars
               PROVE  Promise!Next \/ UNCHANGED <<alive, serving>>
    OBVIOUS
  <2> USE DEF IInv, TypeOK
  <2>1. ASSUME NEW s \in Servers, Crash(s)
        PROVE  Promise!Crash(s)
    BY <2>1 DEF Crash, Promise!Crash
  <2>2. ASSUME NEW s \in alive, alive' = alive, phase[s] # "deliver",
               phase' = [phase EXCEPT ![s] = "deliver"],
               \A t \in alive : s <= t
        PROVE  Promise!Serve(s)
    <3>1. serving = {}
      \* A server t that delivers is its own primary, so t <= s.
      <4>1. SUFFICES ASSUME NEW t \in alive, phase[t] = "deliver"
                     PROVE  FALSE
        OBVIOUS
      <4>2. t <= s /\ s <= t
        BY <2>2, <4>1 DEF ServesItself, NoneLowerIsAlive
      <4>3. QED
        BY <2>2, <4>1, <4>2, ServersAssumption
    <3>2. serving' = {s}
      BY <2>2, <3>1
    <3>3. QED
      BY <2>2, <3>1, <3>2 DEF Promise!Serve
  <2>3. ASSUME NEW s \in Servers, NEW p \in Servers, Ask(s, p)
        PROVE  UNCHANGED <<alive, serving>>
    BY <2>3 DEF Ask
  <2>4. ASSUME NEW s \in Servers, Decide(s)
        PROVE  Promise!Serve(s) \/ UNCHANGED <<alive, serving>>
    <3>1. CASE phase'[s] = "deliver"
      <4>1. phase' = [phase EXCEPT ![s] = "deliver"] /\ phase[s] # "deliver"
        BY <2>4, <3>1 DEF Decide
      <4>2. \A t \in alive : s <= t
        BY <2>4, <3>1, ServersAssumption DEF Decide, Lowest, AskedHaveAnswered
      <4>3. QED
        BY <2>2, <2>4, <4>1, <4>2 DEF Decide
    <3>2. CASE phase'[s] # "deliver"
      BY <2>4, <3>2 DEF Decide
    <3>3. QED
      BY <3>1, <3>2
  <2>5. ASSUME NEW s \in Servers, MissHeartbeat(s)
        PROVE  UNCHANGED <<alive, serving>>
    BY <2>5 DEF MissHeartbeat
  <2>6. ASSUME NEW s \in Servers, BecomePrimary(s)
        PROVE  Promise!Serve(s)
    <3>1. \A t \in alive : s <= t
      BY <2>6 DEF BecomePrimary, ServesItself, NoneLowerIsAlive
    <3>2. QED
      BY <2>2, <2>6, <3>1 DEF BecomePrimary
  <2>7. ASSUME NEW s \in Servers, LeakLock(s) \/ RunOutOfIds(s)
        PROVE  UNCHANGED <<alive, serving>>
    BY <2>7 DEF LeakLock, RunOutOfIds
  <2>8. CASE UNCHANGED vars
    BY <2>8 DEF vars
  <2>9. QED
    BY <2>1, <2>3, <2>4, <2>5, <2>6, <2>7, <2>8 DEF Next, Step, Promise!Next
<1>3. QED
  BY <1>1, <1>2, Invariance, PTL DEF Spec, ServesAsPromised, Promise!Spec

-----------------------------------------------------------------------------
(* The clients, which follow it.                                           *)

LEMMA ConfigIsNotEmpty == Len(Config) \in Nat /\ 1 \in 1 .. Len(Config)
<1>1. PICK s \in Servers : TRUE
  BY ServersAssumption
<1>2. PICK i \in 1 .. Len(Config) : Config[i] = s
  BY <1>1, ClientAssumption
<1>3. Len(Config) \in Nat
  BY ClientAssumption
<1>4. QED
  BY <1>2, <1>3

LEMMA ServersAreIntegers ==
    Servers \subseteq Int /\ Undecided \notin Servers /\ None \notin Servers
BY ServersAssumption, ClientAssumption DEF Undecided

(* The clients leave the election alone: whatever they do, a step of the     *)
(* system is a step of the servers, or none.                                 *)

LEMMA StepOfTheServers == [SystemNext]_systemVars => [Next]_vars
<1> SUFFICES ASSUME [SystemNext]_systemVars
             PROVE  Next \/ UNCHANGED vars
  OBVIOUS
<1>1. ASSUME NEW s \in Servers,
             CrashServer(s) \/ StopServer(s) \/ LeaveLocked(s)
      PROVE  Next
  BY <1>1 DEF CrashServer, StopServer, LeaveLocked, Next
<1>2. ASSUME NEW s \in Servers, DeterminePrimary(s) \/ AnnouncePrimary(s)
      PROVE  Next
  BY <1>2 DEF DeterminePrimary, AnnouncePrimary, Next, Step
<1>3. ASSUME NEW s \in Servers, NEW c \in Clients,
             HandleMessage(s, c) \/ CloseConnection(s, c)
      PROVE  UNCHANGED vars
  BY <1>3 DEF HandleMessage, CloseConnection
<1>4. ASSUME NEW c \in Clients,
             \/ Connect(c) \/ FollowPrimary(c) \/ GiveUpPrimary(c) \/ Misread(c)
             \/ Request(c)
      PROVE  UNCHANGED vars
  BY <1>4 DEF Connect, FollowPrimary, Switch, TryNext, NextConnection,
     ReadPrimary, LosePrimary, GiveUpPrimary, Misread, Request
<1>5. CASE UNCHANGED systemVars
  BY <1>5 DEF systemVars
<1>6. QED
  BY <1>1, <1>2, <1>3, <1>4, <1>5 DEF SystemNext, ServerStep, Mishap

\* The system implements the election on its own, so that all that is proved of
\* the servers holds of them with clients, too.
THEOREM SystemElects == SystemSpec => Spec
BY StepOfTheServers, PTL DEF SystemSpec, SystemInit, Spec

\* Whatever clients send and read, no server takes a primary above a running
\* server, and at most one running server takes itself for the primary.
THEOREM SystemNeverSplits ==
    SystemSpec => [](NoneLowerIsAlive /\ AtMostOnePrimary)
BY SystemElects, LowestIsPrimary, NoSplitBrain, PTL

\* The primaries that the clients meet are Leadership's: the lowest server that
\* runs, until it crashes.
THEOREM SystemServesAsPromised == SystemSpec => ServesAsPromised
BY SystemElects, Implements, PTL

\* With clients, too, no server goes back to a primary it has given up.
THEOREM SystemPrimaryGrows == SystemSpec => PrimaryOnlyGrows
BY SystemElects, PrimaryGrows, PTL

-----------------------------------------------------------------------------
MessageOfClient == {"REGISTER_CLIENT_UUID", "GET_PRIMARY"}

LEMMA PutIsTyped ==
    ASSUME NEW in \in [Servers -> [Clients -> Seq(MessageOfClient)]],
           NEW s \in Servers, NEW c \in Clients, NEW m \in MessageOfClient
    PROVE  Put(in, s, c, m) \in [Servers -> [Clients -> Seq(MessageOfClient)]]
<1>1. Append(in[s][c], m) \in Seq(MessageOfClient)
  OBVIOUS
<1>2. QED
  BY <1>1 DEF Put

LEMMA AnnounceIsTyped ==
    ASSUME SystemTypeOK, NEW s \in Servers, NEW cs, Announce(s, cs)
    PROVE  stream' \in [Servers -> [Clients -> Seq(Servers)]]
<1>1. \A c \in Clients : Append(stream[s][c], s) \in Seq(Servers)
  BY DEF SystemTypeOK
<1>2. [c \in Clients |-> IF c \in cs THEN Append(stream[s][c], s)
                         ELSE stream[s][c]] \in [Clients -> Seq(Servers)]
  BY <1>1 DEF SystemTypeOK
<1>3. QED
  BY <1>2 DEF SystemTypeOK, Announce

LEMMA NextSystemType ==
    SystemTypeOK /\ [SystemNext]_systemVars => SystemTypeOK'
<1> SUFFICES ASSUME SystemTypeOK, [SystemNext]_systemVars
             PROVE  SystemTypeOK'
  OBVIOUS
<1> USE DEF library, channel, tables
<1>t. TypeOK'
  BY StepOfTheServers, NextType DEF SystemTypeOK
<1>a. ASSUME NEW s \in Servers, AnnounceToSome(s)
      PROVE  stream' \in [Servers -> [Clients -> Seq(Servers)]]
  BY <1>a, AnnounceIsTyped DEF AnnounceToSome, SystemTypeOK
<1>1. ASSUME NEW s \in Servers,
             CrashServer(s) \/ StopServer(s) \/ LeaveLocked(s)
      PROVE  SystemTypeOK'
  <2>1. CASE CrashServer(s)
    <3>1. [c \in Clients |-> <<>>] \in [Clients -> Seq(MessageOfClient)]
      OBVIOUS
    <3>2. inbox' \in [Servers -> [Clients -> Seq(MessageOfClient)]]
      BY <2>1, <3>1 DEF CrashServer, SystemTypeOK, MessageOfClient
    <3>3. QED
      BY <1>t, <1>a, <2>1, <3>2 DEF CrashServer, SystemTypeOK, MessageOfClient
  <2>2. CASE StopServer(s) \/ LeaveLocked(s)
    BY <1>t, <1>a, <2>2 DEF StopServer, LeaveLocked, SystemTypeOK
  <2>3. QED
    BY <1>1, <2>1, <2>2
<1>2. ASSUME NEW s \in Servers, DeterminePrimary(s)
      PROVE  SystemTypeOK'
  BY <1>t, <1>2 DEF DeterminePrimary, SystemTypeOK
<1>3. ASSUME NEW s \in Servers, AnnouncePrimary(s)
      PROVE  SystemTypeOK'
  BY <1>t, <1>3, AnnounceIsTyped DEF AnnouncePrimary, SystemTypeOK
<1>4. ASSUME NEW s \in Servers, NEW c \in Clients, HandleMessage(s, c)
      PROVE  SystemTypeOK'
  <2>1. /\ UNCHANGED <<library, closed, upset>>
        /\ inbox' = [inbox EXCEPT ![s][c] = Tail(@)]
        /\ inbox[s][c] \in Seq(MessageOfClient) /\ inbox[s][c] # <<>>
    BY <1>4 DEF HandleMessage, SystemTypeOK, MessageOfClient
  <2>2. Tail(inbox[s][c]) \in Seq(MessageOfClient)
    BY <2>1
  <2>3. inbox' \in [Servers -> [Clients -> Seq(MessageOfClient)]]
    BY <2>1, <2>2 DEF SystemTypeOK, MessageOfClient
  <2>4. \/ UNCHANGED registered
        \/ registered' = [registered EXCEPT ![s] = registered[s] \cup {c}]
    BY <1>4 DEF HandleMessage
  <2>5. registered' \in [Servers -> SUBSET Clients]
    <3>1. registered \in [Servers -> SUBSET Clients]
      BY DEF SystemTypeOK
    <3>2. registered[s] \cup {c} \in SUBSET Clients
      BY <3>1
    <3>3. QED
      BY ONLY <2>4, <3>1, <3>2
  <2>6. \/ UNCHANGED stream
        \/ stream' = [stream EXCEPT ![s][c] = Append(@, primary_id[s])]
    BY <1>4 DEF HandleMessage
  <2>7. Append(stream[s][c], primary_id[s]) \in Seq(Servers)
    <3>1. primary_id[s] \in Servers /\ stream[s][c] \in Seq(Servers)
      BY <1>4 DEF HandleMessage, SystemTypeOK, TypeOK
    <3>2. QED
      BY <3>1
  <2>8. stream' \in [Servers -> [Clients -> Seq(Servers)]]
    <3>1. stream \in [Servers -> [Clients -> Seq(Servers)]]
      BY DEF SystemTypeOK
    <3>2. [stream[s] EXCEPT ![c] = Append(@, primary_id[s])]
            \in [Clients -> Seq(Servers)]
      BY <2>7, <3>1
    <3>3. QED
      BY ONLY <2>6, <3>1, <3>2
  <2>9. QED
    BY <1>t, <2>1, <2>3, <2>5, <2>8 DEF SystemTypeOK, MessageOfClient
<1>5. ASSUME NEW c \in Clients, Connect(c)
      PROVE  SystemTypeOK'
  <2> DEFINE in == [s \in Servers |->
                      IF s \in alive
                      THEN [inbox[s] EXCEPT ![c] = Append(@, "REGISTER_CLIENT_UUID")]
                      ELSE inbox[s]]
  <2>1. Peer(c) \in Servers
    BY ClientAssumption DEF SystemTypeOK, Peer
  <2>2. \A s \in Servers : Append(inbox[s][c], "REGISTER_CLIENT_UUID")
                             \in Seq(MessageOfClient)
    BY DEF SystemTypeOK, MessageOfClient
  <2>3. in \in [Servers -> [Clients -> Seq(MessageOfClient)]]
    BY <2>2 DEF SystemTypeOK, MessageOfClient
  <2>4. inbox' = Put(in, Peer(c), c, "GET_PRIMARY")
    BY <1>5 DEF Connect
  <2> HIDE DEF in
  <2>5. inbox' \in [Servers -> [Clients -> Seq(MessageOfClient)]]
    BY <2>1, <2>3, <2>4, PutIsTyped DEF MessageOfClient
  <2>6. QED
    BY <1>t, <1>5, <2>5 DEF Connect, SystemTypeOK, MessageOfClient
<1>6. ASSUME NEW c \in Clients, Switch(c)
      PROVE  SystemTypeOK'
  <2>1. Peer(c) \in Servers
    BY ClientAssumption DEF SystemTypeOK, Peer
  <2>2. /\ Head(stream[Peer(c)][c]) \in Servers
        /\ Tail(stream[Peer(c)][c]) \in Seq(Servers)
    BY <1>6, <2>1 DEF Switch, SystemTypeOK
  <2>3. QED
    BY <1>t, <1>6, <2>1, <2>2 DEF Switch, SystemTypeOK
<1>7. ASSUME NEW c \in Clients, NextConnection(c)
      PROVE  SystemTypeOK'
  <2>1. /\ UNCHANGED <<vars, primary, stream, tables>>
        /\ step' \in [Clients -> {"start", "ask", "read", "search", "ended",
                                  "failed"}]
    BY <1>7 DEF NextConnection, SystemTypeOK
  <2>2. at' \in [Clients -> 1 .. Len(Config)]
    <3>1. at[c] < Len(Config) => at[c] + 1 \in 1 .. Len(Config)
      BY ConfigIsNotEmpty DEF SystemTypeOK
    <3>2. \/ UNCHANGED at
          \/ at[c] < Len(Config) /\ at' = [at EXCEPT ![c] = at[c] + 1]
      BY <1>7 DEF NextConnection
    <3>3. QED
      BY <3>1, <3>2 DEF SystemTypeOK
  <2>3. inbox' \in [Servers -> [Clients -> Seq(MessageOfClient)]]
    <3>1. at[c] < Len(Config) => Config[at[c] + 1] \in Servers
      BY ClientAssumption DEF SystemTypeOK
    <3>2. \/ UNCHANGED inbox
          \/ /\ at[c] < Len(Config)
             /\ inbox' = Put(inbox, Config[at[c] + 1], c, "GET_PRIMARY")
      BY <1>7 DEF NextConnection
    <3>3. inbox \in [Servers -> [Clients -> Seq(MessageOfClient)]]
      BY DEF SystemTypeOK, MessageOfClient
    <3>4. "GET_PRIMARY" \in MessageOfClient
      BY DEF MessageOfClient
    <3>5. QED
      BY <3>1, <3>2, <3>3, <3>4, PutIsTyped
  <2>4. QED
    BY <1>t, <2>1, <2>2, <2>3 DEF SystemTypeOK, MessageOfClient
<1>8. ASSUME NEW c \in Clients, ReadPrimary(c)
      PROVE  SystemTypeOK'
  <2>1. CASE primary[c] \in Servers
    <3>1. Tail(stream[primary[c]][c]) \in Seq(Servers)
      BY <1>8, <2>1 DEF ReadPrimary, SystemTypeOK
    <3>2. QED
      BY <1>t, <1>8, <2>1, <3>1 DEF ReadPrimary, SystemTypeOK
  <2>2. CASE primary[c] \notin Servers
    BY <1>t, <1>8, <2>2 DEF ReadPrimary, SystemTypeOK
  <2>3. QED
    BY <2>1, <2>2
<1>9. ASSUME NEW c \in Clients, SearchPrimary(c)
      PROVE  /\ step' \in [Clients -> {"start", "ask", "read", "search",
                                       "ended", "failed"}]
             /\ at' \in [Clients -> 1 .. Len(Config)]
             /\ primary' \in [Clients -> Servers \cup {None}]
  BY <1>9, ConfigIsNotEmpty DEF SearchPrimary, SystemTypeOK
<1>10. ASSUME NEW c \in Clients, LosePrimary(c)
       PROVE  SystemTypeOK'
  BY <1>t, <1>9, <1>10 DEF LosePrimary, SystemTypeOK
<1>11. ASSUME NEW c \in Clients, GiveUpPrimary(c)
       PROVE  SystemTypeOK'
  <2>1. /\ SearchPrimary(c)
        /\ primary[c] \in Servers
        /\ upset' = [upset EXCEPT ![c] = @ \cup {primary[c]}]
        /\ UNCHANGED <<vars, inbox, stream, registered, closed>>
    BY <1>11 DEF GiveUpPrimary, SystemTypeOK
  <2>2. QED
    BY <1>t, <1>9, <2>1 DEF SystemTypeOK
<1>12. ASSUME NEW c \in Clients, Misread(c)
       PROVE  SystemTypeOK'
  BY <1>t, <1>7, <1>12 DEF Misread, SystemTypeOK
<1>13. ASSUME NEW s \in Servers, NEW c \in Clients, CloseConnection(s, c)
       PROVE  SystemTypeOK'
  BY <1>t, <1>13 DEF CloseConnection, SystemTypeOK
<1>14. ASSUME NEW c \in Clients, TryNext(c)
       PROVE  SystemTypeOK'
  BY <1>7, <1>14 DEF TryNext
<1>15. ASSUME NEW c \in Clients, Request(c)
       PROVE  SystemTypeOK'
  BY <1>t, <1>15 DEF Request, SystemTypeOK
<1>16. CASE UNCHANGED systemVars
  BY <1>t, <1>16 DEF systemVars, SystemTypeOK
<1>17. QED
  BY <1>1, <1>2, <1>3, <1>4, <1>5, <1>6, <1>8, <1>10, <1>11, <1>12, <1>13,
     <1>14, <1>15, <1>16
     DEF SystemNext, ServerStep, FollowPrimary, Mishap

LEMMA InitSystemType == SystemInit => SystemTypeOK
<1> SUFFICES ASSUME SystemInit
             PROVE  SystemTypeOK
  OBVIOUS
<1>1. TypeOK
  BY InitInv DEF SystemInit, IInv
<1>2. at \in [Clients -> 1 .. Len(Config)]
  BY ConfigIsNotEmpty DEF SystemInit
<1>3. QED
  BY <1>1, <1>2 DEF SystemInit, SystemTypeOK

\* The servers' and the clients' tables have their types; a client reads from
\* no connection that is not in its config file.
THEOREM SystemTypeCorrect == SystemSpec => []SystemTypeOK
BY InitSystemType, NextSystemType, PTL DEF SystemSpec

-----------------------------------------------------------------------------
(* What a client may still read can be old.  But it never names a server     *)
(* that runs and is not the lowest: who was the lowest stays so as long as   *)
(* it runs.                                                                  *)

LowestOf(p, running) == p \in running => \A t \in running : p <= t

TrueNews(q, running) == \A i \in 1 .. Len(q) : LowestOf(q[i], running)

FollowInv ==
    /\ IInv
    /\ SystemTypeOK
    /\ \A s \in Servers, c \in Clients : TrueNews(stream[s][c], alive)
    /\ \A c \in Clients : LowestOf(primary[c], alive)

LEMMA LowestStays ==
    \A a, b : b \subseteq a =>
        /\ \A p : LowestOf(p, a) => LowestOf(p, b)
        /\ \A q : TrueNews(q, a) => TrueNews(q, b)
BY DEF LowestOf, TrueNews

LEMMA NewsAppended ==
    \A q \in Seq(Servers), p \in Servers : \A a :
        TrueNews(q, a) /\ LowestOf(p, a) => TrueNews(Append(q, p), a)
<1> SUFFICES ASSUME NEW q \in Seq(Servers), NEW p \in Servers, NEW a,
                    TrueNews(q, a), LowestOf(p, a),
                    NEW i \in 1 .. Len(Append(q, p))
             PROVE  LowestOf(Append(q, p)[i], a)
  BY DEF TrueNews
<1>1. CASE i \in 1 .. Len(q)
  <2>1. Append(q, p)[i] = q[i]
    BY <1>1
  <2>2. QED
    BY <1>1, <2>1 DEF TrueNews
<1>2. CASE i = Len(q) + 1
  <2>1. Append(q, p)[i] = p
    BY <1>2
  <2>2. QED
    BY <2>1
<1>3. QED
  BY <1>1, <1>2

LEMMA NewsRead ==
    \A q \in Seq(Servers) : \A a :
        TrueNews(q, a) /\ q # <<>> =>
            LowestOf(Head(q), a) /\ TrueNews(Tail(q), a)
<1> SUFFICES ASSUME NEW q \in Seq(Servers), NEW a, TrueNews(q, a), q # <<>>
             PROVE  LowestOf(Head(q), a) /\ TrueNews(Tail(q), a)
  OBVIOUS
<1>1. 1 \in 1 .. Len(q) /\ Head(q) = q[1]
  OBVIOUS
<1>2. \A i \in 1 .. Len(Tail(q)) : i + 1 \in 1 .. Len(q) /\ Tail(q)[i] = q[i + 1]
  OBVIOUS
<1>3. QED
  BY <1>1, <1>2 DEF TrueNews

LEMMA NextFollow == FollowInv /\ [SystemNext]_systemVars => FollowInv'
<1> SUFFICES ASSUME FollowInv, [SystemNext]_systemVars
             PROVE  FollowInv'
  OBVIOUS
<1> USE DEF library, channel, tables
<1>1. IInv' /\ SystemTypeOK'
  BY StepOfTheServers, NextInv, NextSystemType DEF FollowInv
<1>2. alive' \subseteq alive
  <2>1. Next => alive' \subseteq alive
    BY DEF Next, Step, Crash, Ask, Decide, MissHeartbeat, BecomePrimary,
           LeakLock, RunOutOfIds
  <2>2. UNCHANGED vars => alive' = alive
    BY DEF vars
  <2>3. QED
    BY <2>1, <2>2, StepOfTheServers
\* All that was true news stays true: what a step has to be looked at for is
\* what it adds.
<1>3. /\ stream \in [Servers -> [Clients -> Seq(Servers)]]
      /\ primary \in [Clients -> Servers \cup {None}]
  BY DEF FollowInv, SystemTypeOK
<1>4. /\ \A s \in Servers, c \in Clients : TrueNews(stream[s][c], alive')
      /\ \A c \in Clients : LowestOf(primary[c], alive')
  BY <1>2, LowestStays DEF FollowInv
<1>5. ASSUME NEW s \in Servers, \A t \in alive : s <= t
      PROVE  LowestOf(s, alive')
  BY <1>2, <1>5 DEF LowestOf
<1>6. ASSUME UNCHANGED <<stream, primary>>
      PROVE  FollowInv'
  BY <1>1, <1>4, <1>6 DEF FollowInv
<1>7. ASSUME NEW s \in Servers, NEW cs, Announce(s, cs), LowestOf(s, alive'),
             UNCHANGED primary
      PROVE  FollowInv'
  <2>1. ASSUME NEW r \in Servers, NEW c \in Clients
        PROVE  TrueNews(stream'[r][c], alive')
    <3>1. \/ stream'[r][c] = stream[r][c]
          \/ stream'[r][c] = Append(stream[r][c], s)
      BY <1>3, <1>7 DEF Announce
    <3>2. stream[r][c] \in Seq(Servers)
      BY <1>3
    <3>3. QED
      BY <1>4, <1>7, <3>1, <3>2, NewsAppended
  <2>2. QED
    BY <1>1, <1>4, <1>7, <2>1 DEF FollowInv
\* A server that tells its clients is the lowest one, to the end of the step
\* if it crashes in it.
<1>a. ASSUME NEW s \in Servers, phase[s] = "announce"
      PROVE  LowestOf(s, alive')
  <2>1. \A t \in alive : s <= t
    BY <1>a DEF FollowInv, IInv, ServesItself, NoneLowerIsAlive
  <2>2. QED
    BY <1>5, <2>1
<1>8. ASSUME NEW s \in Servers,
             CrashServer(s) \/ StopServer(s) \/ LeaveLocked(s)
      PROVE  FollowInv'
  <2>1. UNCHANGED primary
    BY <1>8 DEF CrashServer, StopServer, LeaveLocked
  <2>2. \/ UNCHANGED stream
        \/ phase[s] = "announce" /\ \E cs \in SUBSET registered[s] : Announce(s, cs)
    BY <1>8 DEF CrashServer, StopServer, LeaveLocked, AnnounceToSome
  <2>3. QED
    BY <1>6, <1>7, <1>a, <2>1, <2>2
<1>9. ASSUME NEW s \in Servers, AnnouncePrimary(s)
      PROVE  FollowInv'
  <2>1. phase[s] = "announce"
    BY <1>9 DEF AnnouncePrimary, BecomePrimary
  <2>2. QED
    BY <1>7, <1>9, <1>a, <2>1 DEF AnnouncePrimary
<1>10. ASSUME NEW s \in Servers, DeterminePrimary(s)
       PROVE  FollowInv'
  BY <1>6, <1>10 DEF DeterminePrimary
<1>11. ASSUME NEW s \in Servers, NEW c \in Clients, HandleMessage(s, c)
       PROVE  FollowInv'
  <2>1. UNCHANGED primary
    BY <1>11 DEF HandleMessage
  <2>2. CASE UNCHANGED stream
    BY <1>6, <2>1, <2>2
  <2>3. CASE stream' = [stream EXCEPT ![s][c] = Append(@, primary_id[s])]
    <3>1. primary_id[s] \in Servers
      BY <1>11 DEF HandleMessage, FollowInv, IInv, TypeOK
    <3>2. \A t \in alive : primary_id[s] <= t
      BY DEF FollowInv, IInv, NoneLowerIsAlive
    <3>3. LowestOf(primary_id[s], alive')
      BY <1>5, <3>1, <3>2
    <3>4. ASSUME NEW r \in Servers, NEW d \in Clients
          PROVE  TrueNews(stream'[r][d], alive')
      <4>1. \/ stream'[r][d] = stream[r][d]
            \/ stream'[r][d] = Append(stream[r][d], primary_id[s])
        BY <1>3, <2>3
      <4>2. stream[r][d] \in Seq(Servers)
        BY <1>3
      <4>3. QED
        BY <1>4, <3>1, <3>3, <4>1, <4>2, NewsAppended
    <3>5. QED
      BY <1>1, <1>4, <2>1, <3>4 DEF FollowInv
  <2>4. QED
    BY <1>11, <2>2, <2>3 DEF HandleMessage
\* Whatever a client reads from a server, it may take for its primary.
<1>12. ASSUME NEW s \in Servers, NEW c \in Clients, stream[s][c] # <<>>,
              stream' = [stream EXCEPT ![s][c] = Tail(@)],
              \A d \in Clients : \/ primary'[d] = primary[d]
                                 \/ primary'[d] = Head(stream[s][c])
       PROVE  FollowInv'
  <2>1. /\ stream[s][c] \in Seq(Servers)
        /\ TrueNews(stream[s][c], alive')
    BY <1>3, <1>4
  <2>2. /\ LowestOf(Head(stream[s][c]), alive')
        /\ TrueNews(Tail(stream[s][c]), alive')
    BY <1>12, <2>1, NewsRead
  <2>3. ASSUME NEW r \in Servers, NEW d \in Clients
        PROVE  TrueNews(stream'[r][d], alive')
    <3>1. \/ stream'[r][d] = stream[r][d]
          \/ stream'[r][d] = Tail(stream[s][c])
      BY <1>3, <1>12
    <3>2. QED
      BY <1>4, <2>2, <3>1
  <2>4. ASSUME NEW d \in Clients
        PROVE  LowestOf(primary'[d], alive')
    BY <1>4, <1>12, <2>2
  <2>5. QED
    BY <1>1, <2>3, <2>4 DEF FollowInv
<1>13. ASSUME NEW c \in Clients, Switch(c)
       PROVE  FollowInv'
  <2>1. Peer(c) \in Servers
    BY ClientAssumption DEF FollowInv, SystemTypeOK, Peer
  <2>2. /\ stream[Peer(c)][c] # <<>>
        /\ stream' = [stream EXCEPT ![Peer(c)][c] = Tail(@)]
    BY <1>13 DEF Switch
  <2>3. \A d \in Clients : \/ primary'[d] = primary[d]
                           \/ primary'[d] = Head(stream[Peer(c)][c])
    BY <1>3, <1>13 DEF Switch
  <2>4. QED
    BY <1>12, <2>1, <2>2, <2>3
<1>14. ASSUME NEW c \in Clients, ReadPrimary(c)
       PROVE  FollowInv'
  <2>1. CASE primary[c] \in Servers
    <3>1. UNCHANGED primary
      BY <1>14 DEF ReadPrimary
    <3>2. /\ stream[primary[c]][c] # <<>>
          /\ stream' = [stream EXCEPT ![primary[c]][c] = Tail(@)]
      BY <1>14 DEF ReadPrimary
    <3>3. QED
      BY <1>12, <2>1, <3>1, <3>2
  <2>2. CASE primary[c] \notin Servers
    <3>1. stream' = stream /\ primary' = primary
      BY <1>3, <1>14, <2>2 DEF ReadPrimary
    <3>2. QED
      BY <1>6, <3>1
  <2>3. QED
    BY <2>1, <2>2
<1>15. ASSUME NEW c \in Clients, LosePrimary(c) \/ GiveUpPrimary(c)
       PROVE  FollowInv'
  <2>1. LowestOf(None, alive')
    BY <1>1, ServersAreIntegers DEF SystemTypeOK, TypeOK, LowestOf
  <2>2. UNCHANGED stream /\ SearchPrimary(c)
    BY <1>15 DEF LosePrimary, GiveUpPrimary
  <2>3. \A d \in Clients : primary'[d] = primary[d] \/ primary'[d] = None
    BY <1>3, <2>2 DEF SearchPrimary
  <2>4. QED
    BY <1>1, <1>4, <2>1, <2>2, <2>3 DEF FollowInv
<1>16. ASSUME NEW c \in Clients, Connect(c) \/ TryNext(c) \/ Misread(c) \/ Request(c)
       PROVE  FollowInv'
  BY <1>6, <1>16 DEF Connect, TryNext, NextConnection, Misread, Request
<1>17. ASSUME NEW s \in Servers, NEW c \in Clients, CloseConnection(s, c)
       PROVE  FollowInv'
  BY <1>6, <1>17 DEF CloseConnection
<1>18. CASE UNCHANGED systemVars
  BY <1>6, <1>18 DEF systemVars
<1>19. QED
  BY <1>8, <1>9, <1>10, <1>11, <1>13, <1>14, <1>15, <1>16, <1>17, <1>18
     DEF SystemNext, ServerStep, FollowPrimary, Mishap

\* A client is never served by a running server that is not the lowest one,
\* however late it reads what it was told.
THEOREM ClientsFollowTheLowest == SystemSpec => []ServedByTheLowest
<1>1. SystemInit => FollowInv
  <2> SUFFICES ASSUME SystemInit
               PROVE  FollowInv
    OBVIOUS
  <2>1. IInv /\ SystemTypeOK
    BY InitInv, InitSystemType DEF SystemInit
  <2>2. \A s \in Servers, c \in Clients : stream[s][c] = <<>>
    BY DEF SystemInit
  <2>3. \A c \in Clients : primary[c] = None /\ None \notin alive
    BY ServersAreIntegers DEF SystemInit, Init
  <2>4. TrueNews(<<>>, alive)
    BY DEF TrueNews
  <2>5. QED
    BY <2>1, <2>2, <2>3, <2>4 DEF FollowInv, LowestOf
<1>2. FollowInv => ServedByTheLowest
  BY DEF FollowInv, LowestOf, ServedByTheLowest
<1>3. QED
  BY <1>1, <1>2, NextFollow, PTL DEF SystemSpec

=============================================================================
