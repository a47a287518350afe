--------------------------- MODULE FailoverProofs ---------------------------
(***************************************************************************)
(* The lists of accounts and the sessions of all servers, for any servers, *)
(* clients and names, and any number of requests, ends and crashes.        *)
(***************************************************************************)
EXTENDS Failover, TLAPS

LEMMA NonesAreDistinct ==
    /\ None \notin Clients /\ None \notin Names /\ None # Delivery
    /\ Delivery \notin Clients
BY FailoverAssumptions

(* Who works on what: a round or a request is the business of the one server *)
(* that serves, of a client that is connected to it, and has the kind that   *)
(* this client's request calls for.                                          *)

OneServes == serving \subseteq live /\ \A s, t \in serving : s = t

RoundOK ==
    /\ round.kind = "none" => round = NoRound
    /\ round.kind # "none" =>
          serving # {} /\ round.name \in Names /\ round.pend \cap serving = {}
    /\ round.kind \notin {"none", "setmsgs"} =>
          round.by \in Clients /\ about[round.by] = round.name
    /\ round.kind = "create" => op[round.by] = "create"
    /\ round.kind = "login"  => /\ op[round.by] \in {"create", "login"}
                                /\ round.uuid = round.by
    /\ round.kind = "logoff" => op[round.by] \in {"logoff", "delete"}
    /\ round.kind = "remove" => op[round.by] = "delete"
    /\ round.kind = "addmsg" => op[round.by] = "send"

RequestsOK ==
    \A c \in Clients : op[c] # "none" =>
        /\ serving # {}
        /\ about[c] \in Names
        /\ \A s \in serving : c \in registered[s]

VisitOK == visit # NoVisit => visit.name \in Names /\ serving # {}

WorkInv ==
    /\ FailoverTypeOK
    /\ OneServes
    /\ RoundOK
    /\ RequestsOK
    /\ VisitOK

LEMMA PrimaryServes ==
    ASSUME OneServes, serving # {}
    PROVE  serving = {Primary} /\ Primary \in live
BY DEF OneServes, Primary

LEMMA NoRoundTyped ==
    /\ NoRound \in UpdateType
    /\ NoRound.kind = "none" /\ NoRound.name = None /\ NoRound.by = None
    /\ NoRound.pend = {}
BY DEF NoRound, UpdateType

LEMMA NoVisitTyped ==
    /\ NoVisit \in [name : Names \cup {None},
                    unsent : Seq(Messages \cup {Phantom}),
                    refused : Seq(Messages)]
    /\ NoVisit.name = None
BY DEF NoVisit

LEMMA InitWork == Init => WorkInv
<1> SUFFICES ASSUME Init
             PROVE  WorkInv
  OBVIOUS
<1>1. FailoverTypeOK
  BY FailoverAssumptions, NoRoundTyped, NoVisitTyped
     DEF Init, L!Init, FailoverTypeOK
<1>2. OneServes
  BY DEF Init, L!Init, OneServes
<1>3. round = NoRound /\ RoundOK
  BY NoRoundTyped DEF Init, RoundOK
<1>4. RequestsOK /\ VisitOK
  BY DEF Init, RequestsOK, VisitOK
<1>5. QED
  BY <1>1, <1>2, <1>3, <1>4 DEF WorkInv


(* A round begins: that of a request, the one of a request that goes on, or  *)
(* the delivery thread's.                                                    *)

LEMMA RoundStarts ==
    ASSUME WorkInv, serving # {},
           NEW by \in Clients \cup {Delivery}, NEW name \in Names,
           NEW uuid \in Clients \cup {None}, NEW msgs \in Seq(Messages),
           NEW kind \in {"create", "remove", "login", "logoff", "addmsg",
                         "setmsgs"},
           round' = Update(by, kind, name, uuid, msgs),
           UNCHANGED <<leaders, tables, faults, visit, gone, told, unsure,
                       torn, deleted, messages>>,
           adrift' \in SUBSET Clients,
           requests' \in 0 .. MaxRequests,
           \/ UNCHANGED <<op, about>>
           \/ \E c \in Clients :
                 /\ c \in registered[Primary]
                 /\ \E what \in {"create", "login", "logoff", "delete", "send"} :
                       op' = [op EXCEPT ![c] = what]
                 /\ about' = [about EXCEPT ![c] = name],
           kind # "setmsgs" => by \in Clients /\ about'[by] = name,
           kind = "create" => op'[by] = "create",
           kind = "login"  => op'[by] \in {"create", "login"} /\ uuid = by,
           kind = "logoff" => op'[by] \in {"logoff", "delete"},
           kind = "remove" => op'[by] = "delete",
           kind = "addmsg" => op'[by] = "send"
    PROVE  WorkInv'
<1> USE DEF leaders, tables, faults, histories, messages
<1>1. /\ round' \in UpdateType
      /\ round'.by = by /\ round'.kind = kind /\ round'.name = name
      /\ round'.uuid = uuid /\ round'.pend = live \ serving
  <2>1. live \ serving \in SUBSET Servers
    BY DEF WorkInv, FailoverTypeOK
  <2>2. QED
    BY <2>1 DEF Update, UpdateType
<1>p. serving = {Primary}
  BY PrimaryServes DEF WorkInv
<1>2. /\ op' \in [Clients -> {"none", "create", "login", "logoff", "delete",
                              "send"}]
      /\ about' \in [Clients -> Names \cup {None}]
      /\ RequestsOK'
  <2>1. CASE UNCHANGED <<op, about>>
    BY <2>1 DEF WorkInv, FailoverTypeOK, RequestsOK
  <2>2. ASSUME NEW c \in Clients, c \in registered[Primary],
               NEW what \in {"create", "login", "logoff", "delete", "send"},
               op' = [op EXCEPT ![c] = what],
               about' = [about EXCEPT ![c] = name]
        PROVE  /\ op' \in [Clients -> {"none", "create", "login", "logoff",
                                       "delete", "send"}]
               /\ about' \in [Clients -> Names \cup {None}]
               /\ RequestsOK'
    <3>1. /\ op' \in [Clients -> {"none", "create", "login", "logoff",
                                  "delete", "send"}]
          /\ about' \in [Clients -> Names \cup {None}]
      BY <2>2 DEF WorkInv, FailoverTypeOK
    <3>2. ASSUME NEW d \in Clients, op'[d] # "none"
          PROVE  /\ about'[d] \in Names
                 /\ \A s \in serving : d \in registered[s]
      BY <1>p, <2>2, <3>2 DEF WorkInv, FailoverTypeOK, RequestsOK
    <3>3. QED
      BY <3>1, <3>2 DEF RequestsOK
  <2>3. QED
    BY <2>1, <2>2
<1>3. FailoverTypeOK'
  BY <1>1, <1>2 DEF WorkInv, FailoverTypeOK
<1>4. OneServes' /\ VisitOK'
  BY DEF WorkInv, OneServes, VisitOK
<1>5. RoundOK'
  BY <1>1 DEF RoundOK
<1>6. QED
  BY <1>2, <1>3, <1>4, <1>5 DEF WorkInv

LEMMA BeginIsTyped ==
    ASSUME WorkInv, NEW c \in Clients, NEW n \in Names,
           NEW what \in {"create", "login", "logoff", "delete", "send"},
           Begin(c, what, n)
    PROVE  /\ serving # {} /\ round = NoRound /\ op[c] = "none"
           /\ c \in registered[Primary]
           /\ requests' \in Messages /\ requests' \in 0 .. MaxRequests
           /\ op' = [op EXCEPT ![c] = what] /\ op'[c] = what
           /\ about' = [about EXCEPT ![c] = n] /\ about'[c] = n
BY FailoverAssumptions DEF Begin, WorkInv, FailoverTypeOK, Messages

LEMMA BeginsWork ==
    ASSUME WorkInv, NEW c \in Clients, BeginRequest(c)
    PROVE  WorkInv'
<1> USE DEF histories
<1>a. /\ <<>> \in Seq(Messages) /\ adrift \in SUBSET Clients
      /\ adrift \cup {c} \in SUBSET Clients
  BY DEF WorkInv, FailoverTypeOK
<1>1. ASSUME NEW n \in Names, BeginCreate(c, n)
      PROVE  WorkInv'
  <2>1. Begin(c, "create", n)
    BY <1>1 DEF BeginCreate
  <2>2. QED
    BY <1>1, <2>1, <1>a, BeginIsTyped, RoundStarts DEF BeginCreate
<1>2. ASSUME NEW n \in Names, BeginLogin(c, n)
      PROVE  WorkInv'
  <2>1. Begin(c, "login", n)
    BY <1>2 DEF BeginLogin
  <2>2. QED
    BY <1>2, <2>1, <1>a, BeginIsTyped, RoundStarts DEF BeginLogin, Racing
<1>3. ASSUME NEW n \in Names, NEW what \in {"logoff", "delete"},
             BeginLogoff(c, what, n)
      PROVE  WorkInv'
  <2>1. Begin(c, what, n)
    BY <1>3 DEF BeginLogoff
  <2>2. /\ op'[c] \in {"logoff", "delete"}
        /\ about'[c] = n
        /\ \E w \in {"create", "login", "logoff", "delete", "send"} :
              op' = [op EXCEPT ![c] = w]
        /\ about' = [about EXCEPT ![c] = n]
        /\ serving # {} /\ c \in registered[Primary]
        /\ requests' \in 0 .. MaxRequests
    BY <2>1, BeginIsTyped
  <2>3. QED
    BY <1>3, <2>2, <1>a, RoundStarts DEF BeginLogoff
<1>4. ASSUME NEW n \in Names, BeginSend(c, n)
      PROVE  WorkInv'
  <2>1. Begin(c, "send", n)
    BY <1>4 DEF BeginSend
  <2>2. <<requests'>> \in Seq(Messages)
    BY <2>1, BeginIsTyped
  <2>3. QED
    BY <1>4, <2>1, <2>2, <1>a, BeginIsTyped, RoundStarts DEF BeginSend
<1>5. QED
  BY <1>1, <1>2, <1>3, <1>4 DEF BeginRequest

LEMMA ContinuesWork ==
    ASSUME WorkInv, NEW c \in Clients, Continue(c)
    PROVE  WorkInv'
<1> USE DEF handlers, histories
<1>a. /\ <<>> \in Seq(Messages) /\ adrift \in SUBSET Clients
      /\ adrift \cup {c} \in SUBSET Clients /\ requests \in 0 .. MaxRequests
  BY DEF WorkInv, FailoverTypeOK
<1>b. op[c] # "none" => serving # {} /\ about[c] \in Names
  BY DEF WorkInv, RequestsOK
<1>1. CASE CreateLogin(c)
  BY <1>1, <1>a, <1>b, RoundStarts DEF CreateLogin, Racing
<1>2. CASE DeleteRemove(c)
  BY <1>2, <1>a, <1>b, RoundStarts DEF DeleteRemove
<1>3. QED
  BY <1>1, <1>2 DEF Continue

LEMMA DeliveryUpdatesWork ==
    ASSUME WorkInv, DeliveryUpdate
    PROVE  WorkInv'
<1>1. /\ visit.refused \in Seq(Messages) /\ visit.name \in Names /\ serving # {}
      /\ adrift \in SUBSET Clients /\ requests \in 0 .. MaxRequests
  BY DEF WorkInv, VisitOK, FailoverTypeOK, DeliveryUpdate
<1>2. QED
  BY <1>1, RoundStarts DEF DeliveryUpdate, handlers, histories

(* A round goes on, and ends. *)

LEMMA EntrySet ==
    ASSUME NEW A, NEW B, NEW V, NEW f \in [A -> [B -> V]],
           NEW a \in A, NEW b \in B, NEW v \in V
    PROVE  /\ [f EXCEPT ![a][b] = v] \in [A -> [B -> V]]
           /\ \A x \in A, y \in B :
                 [f EXCEPT ![a][b] = v][x][y] =
                    IF x = a /\ y = b THEN v ELSE f[x][y]
<1>1. [f[a] EXCEPT ![b] = v] \in [B -> V]
  OBVIOUS
<1>2. QED
  BY <1>1

LEMMA RoundIsTyped ==
    ASSUME WorkInv, round.kind # "none"
    PROVE  /\ serving = {Primary} /\ Primary \in live /\ Primary \in Servers
           /\ round.kind \in {"create", "remove", "login", "logoff", "addmsg",
                              "setmsgs"}
           /\ round.by \in Clients \cup {Delivery, None}
           /\ round.kind # "setmsgs" =>
                 round.by \in Clients /\ about[round.by] = round.name
           /\ round.name \in Names
           /\ round.uuid \in Clients \cup {None}
           /\ round.msgs \in Seq(Messages)
           /\ round.pend \in SUBSET Servers /\ Primary \notin round.pend
           /\ round.kind = "login" => round.uuid = round.by
<1>1. serving = {Primary} /\ Primary \in live /\ Primary \in Servers
  BY PrimaryServes DEF WorkInv, RoundOK, FailoverTypeOK
<1>2. QED
  BY <1>1 DEF WorkInv, RoundOK, FailoverTypeOK, UpdateType

LEMMA ReplicatesWork ==
    ASSUME WorkInv, NEW r \in Servers, Replicate(r)
    PROVE  WorkInv'
<1> USE DEF leaders, handlers, histories, messages
<1>0. round.kind # "none"
  BY NoRoundTyped DEF Replicate, WorkInv, RoundOK
<1>1. round' = [round EXCEPT !.pend = round.pend \ {r}]
  BY DEF Replicate
<1>2. round' \in UpdateType
  BY <1>1 DEF WorkInv, FailoverTypeOK, UpdateType
<1>3. /\ round'.by = round.by /\ round'.kind = round.kind
      /\ round'.name = round.name /\ round'.uuid = round.uuid
      /\ round'.pend = round.pend \ {r}
  BY <1>1 DEF WorkInv, FailoverTypeOK, UpdateType
<1>n. /\ round.name \in Names /\ round.uuid \in Clients \cup {None}
      /\ round.msgs \in Seq(Messages)
      /\ r \in Servers /\ Primary \in Servers
  BY <1>0, RoundIsTyped
<1>t. /\ accounts \in [Servers -> [Names -> Nat]]
      /\ sessions \in [Servers -> [Names -> Clients \cup {None}]]
      /\ queue \in [Servers -> [Names -> Seq(Messages \cup {Phantom})]]
      /\ closed \in SUBSET (Servers \X Servers)
      /\ leaked \in SUBSET Servers
  BY DEF WorkInv, FailoverTypeOK
<1>a. accounts' \in [Servers -> [Names -> Nat]]
  <2>1. accounts[r][round.name] \in Nat
    BY <1>n, <1>t
  <2>2. \/ UNCHANGED accounts
        \/ \E k \in Nat : accounts' = [accounts EXCEPT ![r][round.name] = k]
    <3>1. \/ UNCHANGED accounts
          \/ accounts' = [accounts EXCEPT ![r][round.name] = @ + 1]
          \/ /\ accounts[r][round.name] > 0
             /\ accounts' = [accounts EXCEPT ![r][round.name] = @ - 1]
      BY DEF Replicate, ProcessUpdateAccounts, ProcessUpdateLogin,
             ProcessUpdateMessages
    <3>2. accounts[r][round.name] + 1 \in Nat
      BY <2>1
    <3>3. accounts[r][round.name] > 0 => accounts[r][round.name] - 1 \in Nat
      BY <2>1
    <3>4. QED
      BY <3>1, <3>2, <3>3
  <2>3. ASSUME NEW k \in Nat, accounts' = [accounts EXCEPT ![r][round.name] = k]
        PROVE  accounts' \in [Servers -> [Names -> Nat]]
    BY <1>n, <1>t, <2>3, EntrySet
  <2>4. QED
    BY <1>t, <2>2, <2>3
<1>s. sessions' \in [Servers -> [Names -> Clients \cup {None}]]
  <2>1. \/ UNCHANGED sessions
        \/ sessions' = [sessions EXCEPT ![r][round.name] = round.uuid]
        \/ sessions' = [sessions EXCEPT ![r] = Logoff(@, round.name)]
    BY DEF Replicate, ProcessUpdateAccounts, ProcessUpdateLogin,
           ProcessUpdateMessages
  <2>2. Logoff(sessions[r], round.name) \in [Names -> Clients \cup {None}]
    BY <1>n, <1>t DEF Logoff
  <2>3. CASE sessions' = [sessions EXCEPT ![r][round.name] = round.uuid]
    BY <1>n, <1>t, <2>3, EntrySet
  <2>4. CASE sessions' = [sessions EXCEPT ![r] = Logoff(@, round.name)]
    BY <1>n, <1>t, <2>2, <2>4
  <2>5. QED
    BY <1>t, <2>1, <2>3, <2>4
<1>q. queue' \in [Servers -> [Names -> Seq(Messages \cup {Phantom})]]
  <2>1. round.msgs \in Seq(Messages \cup {Phantom})
    BY <1>n
  <2>2. /\ <<Phantom>> \in Seq(Messages \cup {Phantom})
        /\ queue[r][round.name] \o round.msgs \in Seq(Messages \cup {Phantom})
    BY <1>n, <1>t, <2>1
  <2>3. \/ UNCHANGED queue
        \/ \E q \in Seq(Messages \cup {Phantom}) :
              queue' = [queue EXCEPT ![r][round.name] = q]
    BY <2>1, <2>2
       DEF Replicate, ProcessUpdateAccounts, ProcessUpdateLogin,
           ProcessUpdateMessages
  <2>4. ASSUME NEW q \in Seq(Messages \cup {Phantom}),
               queue' = [queue EXCEPT ![r][round.name] = q]
        PROVE  queue' \in [Servers -> [Names -> Seq(Messages \cup {Phantom})]]
    BY <1>n, <1>t, <2>4, EntrySet
  <2>5. QED
    BY <1>t, <2>3, <2>4
<1>4. closed' \in SUBSET (Servers \X Servers) /\ leaked' \in SUBSET Servers
  <2>1. /\ closed' = closed \/ closed' = closed \cup {<<Primary, r>>}
        /\ leaked' = leaked \/ leaked' = leaked \cup {r}
    BY DEF Replicate, ProcessUpdateAccounts, ProcessUpdateLogin,
           ProcessUpdateMessages
  <2>2. <<Primary, r>> \in Servers \X Servers
    BY <1>n
  <2>3. QED
    BY <1>n, <1>t, <2>1, <2>2
<1>5. FailoverTypeOK'
  BY <1>2, <1>a, <1>s, <1>q, <1>4 DEF WorkInv, FailoverTypeOK, Replicate
<1>6. OneServes' /\ VisitOK'
  BY DEF WorkInv, OneServes, VisitOK, Replicate
<1>7. RoundOK'
  BY <1>0, <1>3 DEF WorkInv, RoundOK, Replicate
<1>8. RequestsOK'
  BY DEF WorkInv, RequestsOK, Replicate
<1>9. QED
  BY <1>5, <1>6, <1>7, <1>8 DEF WorkInv

\* What is left to be shown of the step that ends a round is the types.
LEMMA RoundEnds ==
    ASSUME WorkInv, round' = NoRound, UNCHANGED leaders,
           visit' \in {visit, NoVisit},
           \/ UNCHANGED <<op, about, registered>>
           \/ \E c \in Clients :
                 /\ op' = [op EXCEPT ![c] = "none"]
                 /\ about' = [about EXCEPT ![c] = None]
                 /\ \A s \in Servers :
                       registered'[s] \in {registered[s], registered[s] \ {c}}
    PROVE  OneServes' /\ RoundOK' /\ RequestsOK' /\ VisitOK'
<1> USE DEF leaders
<1>1. OneServes' /\ VisitOK'
  BY DEF WorkInv, OneServes, VisitOK
<1>2. RoundOK'
  BY NoRoundTyped DEF RoundOK
<1>3. RequestsOK'
  <2>1. CASE UNCHANGED <<op, about, registered>>
    BY <2>1 DEF WorkInv, RequestsOK
  <2>2. ASSUME NEW c \in Clients,
               op' = [op EXCEPT ![c] = "none"],
               about' = [about EXCEPT ![c] = None],
               \A s \in Servers :
                  registered'[s] \in {registered[s], registered[s] \ {c}}
        PROVE  RequestsOK'
    <3>1. SUFFICES ASSUME NEW d \in Clients, op'[d] # "none"
                   PROVE  /\ serving # {}
                          /\ about'[d] \in Names
                          /\ \A s \in serving : d \in registered'[s]
      BY DEF RequestsOK
    <3>2. /\ op \in [Clients -> {"none", "create", "login", "logoff",
                                 "delete", "send"}]
          /\ about \in [Clients -> Names \cup {None}]
          /\ serving \subseteq Servers
      BY DEF WorkInv, FailoverTypeOK
    <3>3. d # c /\ op[d] # "none" /\ about'[d] = about[d]
      BY <2>2, <3>1, <3>2
    <3>4. QED
      BY <2>2, <3>2, <3>3 DEF WorkInv, RequestsOK
  <2>3. QED
    BY <2>1, <2>2
<1>4. QED
  BY <1>1, <1>2, <1>3

\* The types of the tables that the end of a round changes.
LEMMA TablesAreTyped ==
    ASSUME WorkInv, round.kind # "none"
    PROVE  /\ accounts \in [Servers -> [Names -> Nat]]
           /\ sessions \in [Servers -> [Names -> Clients \cup {None}]]
           /\ queue \in [Servers -> [Names -> Seq(Messages \cup {Phantom})]]
           /\ accepted \in [Names -> Seq(Messages)]
           /\ Primary \in Servers /\ round.name \in Names
           /\ round.by \in Clients \cup {Delivery, None}
           /\ round.msgs \in Seq(Messages)
           /\ accounts[Primary][round.name] \in Nat
<1>1. /\ Primary \in Servers /\ round.name \in Names
      /\ round.by \in Clients \cup {Delivery, None}
      /\ round.msgs \in Seq(Messages)
  BY RoundIsTyped
<1>2. /\ accounts \in [Servers -> [Names -> Nat]]
      /\ sessions \in [Servers -> [Names -> Clients \cup {None}]]
      /\ queue \in [Servers -> [Names -> Seq(Messages \cup {Phantom})]]
      /\ accepted \in [Names -> Seq(Messages)]
  BY DEF WorkInv, FailoverTypeOK
<1>3. accounts[Primary][round.name] \in Nat
  BY <1>1, <1>2
<1>4. QED
  BY <1>1, <1>2, <1>3

LEMMA RoundsWork ==
    ASSUME WorkInv, Round
    PROVE  WorkInv'
<1> USE NoRoundTyped
    DEF leaders, tables, faults, handlers, histories, messages, Acknowledged
<1>1. CASE ApplyCreate
  <2>1. accounts' \in [Servers -> [Names -> Nat]]
    <3>1. /\ accounts[Primary][round.name] + 1 \in Nat
          /\ accounts' = [accounts EXCEPT ![Primary][round.name] =
                            accounts[Primary][round.name] + 1]
      BY <1>1, TablesAreTyped DEF ApplyCreate
    <3>2. QED
      BY <1>1, <3>1, TablesAreTyped, EntrySet DEF ApplyCreate
  <2>2. FailoverTypeOK'
    BY <1>1, <2>1 DEF ApplyCreate, WorkInv, FailoverTypeOK
  <2>3. QED
    BY <1>1, <2>2, RoundEnds DEF ApplyCreate, WorkInv
<1>2. CASE ApplyLogin
  <2>1. round.by \in Clients
    BY <1>2, RoundIsTyped DEF ApplyLogin
  <2>2. sessions' \in [Servers -> [Names -> Clients \cup {None}]]
    BY <1>2, <2>1, TablesAreTyped, EntrySet DEF ApplyLogin
  <2>3. FailoverTypeOK'
    BY <1>2, <2>1, <2>2, TablesAreTyped
       DEF ApplyLogin, Respond, WorkInv, FailoverTypeOK
  <2>4. QED
    BY <1>2, <2>1, <2>3, RoundEnds DEF ApplyLogin, Respond, WorkInv
<1>3. CASE ApplyLogoff
  <2>1. round.by \in Clients
    BY <1>3, RoundIsTyped DEF ApplyLogoff
  <2>2. sessions' \in [Servers -> [Names -> Clients \cup {None}]]
    <3>1. Logoff(sessions[Primary], round.name)
            \in [Names -> Clients \cup {None}]
      BY <1>3, TablesAreTyped DEF Logoff, ApplyLogoff
    <3>2. QED
      BY <1>3, <3>1, TablesAreTyped DEF ApplyLogoff
  <2>3. FailoverTypeOK'
    BY ZenonT(30), <1>3, <2>1, <2>2
       DEF ApplyLogoff, Respond, WorkInv, FailoverTypeOK
  <2>4. QED
    BY <1>3, <2>1, <2>3, RoundEnds DEF ApplyLogoff, Respond, WorkInv
<1>4. CASE ApplyRemove
  <2>0. /\ round.kind = "remove" /\ round.by \in Clients
        /\ round.name \in Names /\ Primary \in Servers
    BY <1>4, RoundIsTyped DEF ApplyRemove
  <2>1. CASE accounts[Primary][round.name] > 0
    <3>1. accounts' \in [Servers -> [Names -> Nat]]
      <4>1. /\ accounts[Primary][round.name] - 1 \in Nat
            /\ accounts' = [accounts EXCEPT ![Primary][round.name] =
                              accounts[Primary][round.name] - 1]
        BY <1>4, <2>0, <2>1, TablesAreTyped DEF ApplyRemove
      <4>2. QED
        BY <2>0, <4>1, TablesAreTyped, EntrySet
    <3>2. FailoverTypeOK'
      <4>1. /\ UNCHANGED <<leaders, sessions, queue, registered, faults, visit,
                            gone, torn, adrift, messages, requests>>
            /\ round' = NoRound
            /\ op' = [op EXCEPT ![round.by] = "none"]
            /\ about' = [about EXCEPT ![round.by] = None]
            /\ told' = [told EXCEPT ![round.by] = None]
            /\ unsure' = unsure \ {round.by}
            /\ deleted' = deleted \cup {round.name}
        BY <1>4, <2>1 DEF ApplyRemove, Respond
      <4>2. QED
        BY <2>0, <3>1, <4>1 DEF WorkInv, FailoverTypeOK
    <3>3. QED
      BY <1>4, <2>0, <2>1, <3>2, RoundEnds DEF ApplyRemove, Respond, WorkInv
  <2>2. CASE accounts[Primary][round.name] = 0
    <3>1. FailoverTypeOK'
      <4>1. /\ UNCHANGED <<leaders, accounts, sessions, queue, closed, stuck,
                            visit, gone, told, torn, deleted, adrift,
                            messages, requests>>
            /\ round' = NoRound
            /\ op' = [op EXCEPT ![round.by] = "none"]
            /\ about' = [about EXCEPT ![round.by] = None]
            /\ leaked' = leaked \cup {Primary}
            /\ registered' = [registered EXCEPT ![Primary] = @ \ {round.by}]
            /\ unsure' = unsure \cup {round.by}
        BY <1>4, <2>2 DEF ApplyRemove
      <4>2. QED
        BY <2>0, <4>1 DEF WorkInv, FailoverTypeOK
    <3>2. \A s \in Servers : registered'[s] \in {registered[s],
                                                 registered[s] \ {round.by}}
      BY <1>4, <2>0, <2>2 DEF ApplyRemove, WorkInv, FailoverTypeOK
    <3>3. QED
      BY <1>4, <2>0, <2>2, <3>1, <3>2, RoundEnds DEF ApplyRemove, WorkInv
  <2>3. QED
    BY <1>4, <2>1, <2>2 DEF ApplyRemove
<1>5. CASE ApplySend
  <2>0. round.kind = "addmsg" /\ round.by \in Clients
    BY <1>5, RoundIsTyped DEF ApplySend
  <2>1. queue' \in [Servers -> [Names -> Seq(Messages \cup {Phantom})]]
    <3>1. queue[Primary][round.name] \o round.msgs
            \in Seq(Messages \cup {Phantom})
      <4>1. round.msgs \in Seq(Messages \cup {Phantom})
        BY <2>0, TablesAreTyped
      <4>2. queue[Primary][round.name] \in Seq(Messages \cup {Phantom})
        BY <2>0, TablesAreTyped
      <4>3. QED
        BY ONLY <4>1, <4>2
    <3>2. QED
      BY SMTT(30), <1>5, <2>0, <3>1, TablesAreTyped, EntrySet DEF ApplySend
  <2>2. accepted' \in [Names -> Seq(Messages)]
    <3>1. accepted[round.name] \o round.msgs \in Seq(Messages)
      BY <2>0, TablesAreTyped
    <3>2. QED
      BY <1>5, <2>0, <3>1, TablesAreTyped DEF ApplySend
  <2>3. FailoverTypeOK'
    BY <1>5, <2>0, <2>1, <2>2 DEF ApplySend, WorkInv, FailoverTypeOK
  <2>4. QED
    BY <1>5, <2>0, <2>3, RoundEnds DEF ApplySend, WorkInv
<1>6. QED
  BY <1>1, <1>2, <1>3, <1>4, <1>5, ReplicatesWork DEF Round

LEMMA DeliveryWorks ==
    ASSUME WorkInv, Deliver
    PROVE  WorkInv'
<1> USE NoRoundTyped, NoVisitTyped
    DEF leaders, tables, faults, handlers, histories, messages
<1>1. ASSUME NEW n \in Names, DeliveryVisit(n)
      PROVE  WorkInv'
  <2>1. Primary \in Servers /\ serving # {}
    BY <1>1, PrimaryServes DEF DeliveryVisit, WorkInv, FailoverTypeOK
  <2>2. queue[Primary][n] \in Seq(Messages \cup {Phantom})
    BY <2>1 DEF WorkInv, FailoverTypeOK
  <2>3. /\ visit' \in [name : Names \cup {None},
                       unsent : Seq(Messages \cup {Phantom}),
                       refused : Seq(Messages)]
        /\ VisitOK'
    <3>0. UNCHANGED serving
      BY <1>1 DEF DeliveryVisit
    <3>1. CASE UNCHANGED visit
      BY <3>0, <3>1 DEF WorkInv, FailoverTypeOK, VisitOK
    <3>2. CASE visit' = [name |-> n, unsent |-> queue[Primary][n],
                         refused |-> <<>>]
      BY <2>1, <2>2, <3>0, <3>2 DEF VisitOK
    <3>3. QED
      BY <1>1, <3>1, <3>2 DEF DeliveryVisit
  <2>4. stuck' \in SUBSET Servers
    BY <1>1, <2>1 DEF DeliveryVisit, WorkInv, FailoverTypeOK
  <2>5. FailoverTypeOK'
    BY <1>1, <2>3, <2>4 DEF DeliveryVisit, WorkInv, FailoverTypeOK
  <2>6. QED
    BY <1>1, <2>3, <2>5
       DEF DeliveryVisit, WorkInv, OneServes, RoundOK, RequestsOK
<1>2. CASE DeliverySend
  <2>1. /\ visit.name \in Names /\ serving # {}
        /\ visit.refused \in Seq(Messages)
        /\ visit.unsent \in Seq(Messages \cup {Phantom})
        /\ visit.unsent # <<>>
        /\ delivered \in [Names -> Seq(Messages)]
    BY <1>2 DEF DeliverySend, WorkInv, VisitOK, FailoverTypeOK, NoVisit
  <2>2. /\ Tail(visit.unsent) \in Seq(Messages \cup {Phantom})
        /\ Head(visit.unsent) # Phantom => Head(visit.unsent) \in Messages
    BY <2>1
  <2>3. \/ visit' = [visit EXCEPT !.unsent = Tail(@)]
        \/ /\ Head(visit.unsent) # Phantom
           /\ visit' = [visit EXCEPT !.unsent = Tail(@),
                          !.refused = Append(@, Head(visit.unsent))]
    BY <1>2 DEF DeliverySend
  <2>4. /\ visit' \in [name : Names \cup {None},
                       unsent : Seq(Messages \cup {Phantom}),
                       refused : Seq(Messages)]
        /\ visit'.name = visit.name
    <3>1. visit \in [name : Names \cup {None},
                     unsent : Seq(Messages \cup {Phantom}),
                     refused : Seq(Messages)]
      BY DEF WorkInv, FailoverTypeOK
    <3>2. Head(visit.unsent) # Phantom =>
            Append(visit.refused, Head(visit.unsent)) \in Seq(Messages)
      BY <2>1, <2>2
    <3>3. QED
      BY <2>2, <2>3, <3>1, <3>2
  <2>5. delivered' \in [Names -> Seq(Messages)]
    <3>1. \/ UNCHANGED delivered
          \/ /\ Head(visit.unsent) # Phantom
             /\ delivered' = [delivered EXCEPT ![visit.name] =
                                Append(@, Head(visit.unsent))]
      BY <1>2 DEF DeliverySend
    <3>2. Head(visit.unsent) # Phantom =>
            Append(delivered[visit.name], Head(visit.unsent)) \in Seq(Messages)
      BY <2>1, <2>2
    <3>3. QED
      BY <2>1, <3>1, <3>2
  <2>6. FailoverTypeOK'
    BY <1>2, <2>4, <2>5 DEF DeliverySend, WorkInv, FailoverTypeOK
  <2>7. QED
    BY <1>2, <2>1, <2>4, <2>6
       DEF DeliverySend, WorkInv, OneServes, RoundOK, RequestsOK, VisitOK
<1>3. CASE DeliveryApply
  <2>1. /\ Primary \in Servers /\ round.name \in Names
        /\ round.msgs \in Seq(Messages)
        /\ queue \in [Servers -> [Names -> Seq(Messages \cup {Phantom})]]
    BY <1>3, TablesAreTyped DEF DeliveryApply, DeliveryEnds, Acknowledged
  <2>2. round.msgs \in Seq(Messages \cup {Phantom})
    BY <2>1
  <2>3. queue' \in [Servers -> [Names -> Seq(Messages \cup {Phantom})]]
    BY <1>3, <2>1, <2>2, EntrySet DEF DeliveryApply
  <2>4. FailoverTypeOK'
    BY <1>3, <2>3 DEF DeliveryApply, DeliveryEnds, WorkInv, FailoverTypeOK
  <2>5. QED
    BY <1>3, <2>4, RoundEnds DEF DeliveryApply, DeliveryEnds, WorkInv
<1>4. QED
  BY <1>1, <1>2, <1>3, DeliveryUpdatesWork DEF Deliver

LEMMA CrashesWork ==
    ASSUME WorkInv, NEW s \in Servers, CrashServer(s)
    PROVE  WorkInv'
<1> USE NoRoundTyped, NoVisitTyped
    DEF tables, faults, messages
<1>1. /\ live' = live \ {s} /\ serving' = serving \ {s}
      /\ OneServes'
  BY DEF CrashServer, L!Crash, WorkInv, OneServes
<1>2. CASE s \notin serving
  <2>1. /\ serving' = serving
        /\ UNCHANGED <<tables, faults, round, op, about, visit, gone, told,
                       unsure, torn, adrift, requests, deleted, messages>>
    BY <1>1, <1>2 DEF CrashServer
  <2>2. QED
    BY <1>1, <2>1 DEF WorkInv, FailoverTypeOK, RoundOK, RequestsOK, VisitOK
<1>3. CASE s \in serving
  <2>1. /\ round' = NoRound /\ visit' = NoVisit
        /\ op' = [c \in Clients |-> "none"]
        /\ about' = [c \in Clients |-> None]
        /\ unsure' = unsure \cup {c \in Clients : op[c] # "none"}
        /\ UNCHANGED <<tables, faults, gone, told, requests, deleted, messages>>
    BY <1>3 DEF CrashServer
  <2>2. torn' \in SUBSET Names
    <3>1. \/ UNCHANGED torn
          \/ round.kind \in AccountKinds /\ torn' = torn \cup {round.name}
      BY <1>3 DEF CrashServer
    <3>2. QED
      BY <3>1, RoundIsTyped DEF AccountKinds, WorkInv, FailoverTypeOK
  <2>3. adrift' \in SUBSET Clients
    <3>1. \/ UNCHANGED adrift
          \/ /\ round.kind \in LoginKinds
             /\ adrift' = adrift \cup ({round.by, sessions[s][round.name]}
                                         \ {None})
      BY <1>3 DEF CrashServer
    <3>2. round.kind \in LoginKinds =>
            /\ round.by \in Clients
            /\ sessions[s][round.name] \in Clients \cup {None}
      <4>1. sessions \in [Servers -> [Names -> Clients \cup {None}]]
        BY DEF WorkInv, FailoverTypeOK
      <4>2. round.kind \in LoginKinds =>
              round.by \in Clients /\ round.name \in Names
        BY RoundIsTyped DEF LoginKinds
      <4>3. QED
        BY <4>1, <4>2
    <3>3. QED
      BY ZenonT(30), <3>1, <3>2 DEF WorkInv, FailoverTypeOK
  <2>4. FailoverTypeOK'
    BY <1>1, <2>1, <2>2, <2>3 DEF WorkInv, FailoverTypeOK
  <2>5. RoundOK' /\ RequestsOK' /\ VisitOK'
    BY <2>1 DEF RoundOK, RequestsOK, VisitOK
  <2>6. QED
    BY <1>1, <2>4, <2>5 DEF WorkInv
<1>4. QED
  BY <1>2, <1>3

LEMMA NextWork == WorkInv /\ [Next]_vars => WorkInv'
<1> SUFFICES ASSUME WorkInv, [Next]_vars
             PROVE  WorkInv'
  OBVIOUS
<1> USE DEF leaders, tables, faults, handlers, histories, messages
<1>1. ASSUME NEW s \in Servers, BecomePrimary(s)
      PROVE  WorkInv'
  <2>1. /\ serving = {} /\ serving' = {s} /\ s \in live /\ live' = live
        /\ UNCHANGED <<tables, faults, round, handlers, visit, gone, told,
                       histories, messages>>
    BY <1>1 DEF BecomePrimary, L!Serve
  <2>2. round.kind = "none" /\ visit = NoVisit
    BY <2>1 DEF WorkInv, RoundOK, VisitOK
  <2>3. FailoverTypeOK'
    BY <2>1 DEF WorkInv, FailoverTypeOK
  <2>4. QED
    BY <2>1, <2>2, <2>3 DEF WorkInv, OneServes, RoundOK, RequestsOK, VisitOK
<1>2. ASSUME NEW c \in Clients, Close(c)
      PROVE  WorkInv'
  <2>1. adrift' \in SUBSET Clients /\ gone' \in SUBSET Clients
    BY <1>2 DEF Close, WorkInv, FailoverTypeOK
  <2>2. FailoverTypeOK'
    BY <1>2, <2>1 DEF Close, WorkInv, FailoverTypeOK
  <2>3. QED
    BY <1>2, <2>2 DEF Close, WorkInv, OneServes, RoundOK, RequestsOK, VisitOK
<1>3. ASSUME NEW s \in Servers, NEW c \in Clients, HangUp(s, c)
      PROVE  WorkInv'
  <2>1. registered' = [registered EXCEPT ![s] = @ \ {c}]
    BY <1>3 DEF HangUp
  <2>2. sessions' \in [Servers -> [Names -> Clients \cup {None}]]
    <3>1. \/ UNCHANGED sessions
          \/ \E n \in Names :
                sessions' = [sessions EXCEPT ![s] = Logoff(@, n)]
      BY <1>3 DEF HangUp
    <3>2. \A n \in Names : Logoff(sessions[s], n)
                             \in [Names -> Clients \cup {None}]
      BY DEF Logoff, WorkInv, FailoverTypeOK
    <3>3. sessions \in [Servers -> [Names -> Clients \cup {None}]]
      BY DEF WorkInv, FailoverTypeOK
    <3>4. QED
      BY <3>1, <3>2, <3>3
  <2>3. registered' \in [Servers -> SUBSET Clients]
    BY <2>1 DEF WorkInv, FailoverTypeOK
  <2>4. FailoverTypeOK'
    BY <1>3, <2>2, <2>3 DEF HangUp, WorkInv, FailoverTypeOK
  <2>5. RequestsOK'
    <3>1. /\ UNCHANGED <<serving, op, about>>
          /\ s \in serving => op[c] = "none"
      BY <1>3 DEF HangUp
    <3>2. SUFFICES ASSUME NEW d \in Clients, op[d] # "none",
                          NEW t \in serving
                   PROVE  d \in registered'[t]
      BY <3>1 DEF WorkInv, RequestsOK
    <3>3. t \in Servers /\ d \in registered[t]
      BY <3>2 DEF WorkInv, RequestsOK, FailoverTypeOK
    <3>4. registered \in [Servers -> SUBSET Clients]
      BY DEF WorkInv, FailoverTypeOK
    <3>5. QED
      BY <2>1, <3>1, <3>2, <3>3, <3>4
  <2>6. QED
    BY <1>3, <2>4, <2>5 DEF HangUp, WorkInv, OneServes, RoundOK, VisitOK
<1>4. CASE UNCHANGED vars
  BY <1>4
     DEF vars, WorkInv, FailoverTypeOK, OneServes, RoundOK, RequestsOK, VisitOK
<1>5. QED
  BY <1>1, <1>2, <1>3, <1>4, BeginsWork, ContinuesWork, RoundsWork,
     DeliveryWorks, CrashesWork
     DEF Next

LEMMA WorkInvariance == Spec => []WorkInv
BY InitWork, NextWork, PTL DEF Spec

\* The tables of all servers, the round and the history always have their
\* types, however many servers crash, and whoever serves next.
THEOREM FailoverTypeCorrect == Spec => []FailoverTypeOK
BY WorkInvariance, PTL DEF WorkInv

-----------------------------------------------------------------------------
(* The lists of accounts.  What a server's list was before the round that is *)
(* in progress is the same on all servers that are left, so a round that is  *)
(* cut off by a crash leaves only its own name in doubt.                     *)

copies == <<live, serving, accounts, sessions, registered, closed, gone, told,
            unsure, torn, deleted>>

\* A round is opened; nothing is changed yet.
Opens ==
    /\ round = NoRound
    /\ round'.kind # "none"
    /\ round'.pend = live \ serving
    /\ UNCHANGED copies

\* What the messages are about leaves accounts and sessions alone.
PassesMessages ==
    /\ round.kind \in {"addmsg", "setmsgs"}
    /\ round' = NoRound
    /\ \/ UNCHANGED <<op, about>>
       \/ /\ op[round.by] = "send" /\ round.by \in Clients
          /\ op' = [op EXCEPT ![round.by] = "none"]
          /\ about' = [about EXCEPT ![round.by] = None]
    /\ UNCHANGED <<copies, adrift>>

Rests == UNCHANGED <<copies, round, op, about, adrift>>

LEMMA RequestOpens ==
    ASSUME NEW c \in Clients, BeginRequest(c) \/ Continue(c)
    PROVE  Opens /\ adrift \subseteq adrift'
<1> USE NoRoundTyped
    DEF Opens, copies, leaders, tables, faults, histories, Begin, Update
<1>1. ASSUME NEW n \in Names, BeginCreate(c, n) \/ BeginLogin(c, n)
      PROVE  Opens /\ adrift \subseteq adrift'
  BY <1>1 DEF BeginCreate, BeginLogin, Racing
<1>2. ASSUME NEW n \in Names,
             \/ BeginLogoff(c, "logoff", n) \/ BeginLogoff(c, "delete", n)
             \/ BeginSend(c, n)
      PROVE  Opens /\ adrift \subseteq adrift'
  BY <1>2 DEF BeginLogoff, BeginSend
<1>3. CASE Continue(c)
  BY <1>3 DEF Continue, CreateLogin, DeleteRemove, Racing
<1>4. QED
  BY <1>1, <1>2, <1>3 DEF BeginRequest

LEMMA StepsOnCopies ==
    ASSUME WorkInv, [Next]_vars
    PROVE  \/ \E s \in Servers : CrashServer(s) \/ BecomePrimary(s)
           \/ \E c \in Clients : BeginRequest(c) \/ Continue(c) \/ Close(c)
           \/ \E s \in Servers, c \in Clients : HangUp(s, c)
           \/ \E r \in Servers : Replicate(r)
           \/ ApplyCreate \/ ApplyLogin \/ ApplyLogoff \/ ApplyRemove
           \/ Opens /\ UNCHANGED <<op, about, adrift>>
                    /\ round'.kind = "setmsgs"
           \/ PassesMessages
           \/ Rests
<1> USE DEF copies, leaders, tables, faults, histories, handlers
<1>1. ApplySend => PassesMessages
  BY RoundIsTyped DEF ApplySend, Acknowledged, PassesMessages, WorkInv, RoundOK
<1>2. DeliveryApply => PassesMessages
  BY DEF DeliveryApply, DeliveryEnds, Acknowledged, PassesMessages
<1>3. DeliveryUpdate => /\ Opens /\ UNCHANGED <<op, about, adrift>>
                        /\ round'.kind = "setmsgs"
  BY DEF DeliveryUpdate, Opens, Update
<1>4. ASSUME NEW n \in Names, DeliveryVisit(n)
      PROVE  Rests
  BY <1>4 DEF DeliveryVisit, Rests
<1>5. DeliverySend => Rests
  BY DEF DeliverySend, Rests
<1>6. UNCHANGED vars => Rests
  BY DEF vars, Rests
<1>7. QED
  BY <1>1, <1>2, <1>3, <1>4, <1>5, <1>6 DEF Next, Round, Deliver

Ahead(r, n) ==
    IF round.name # n \/ r \in serving \cup round.pend THEN 0
    ELSE IF round.kind = "create" THEN 1
    ELSE IF round.kind = "remove" THEN -1
    ELSE 0

Before(r, n) == accounts[r][n] - Ahead(r, n)

AccountsFollow ==
    closed = {} =>
        \A r, s \in live, n \in Names \ torn : Before(r, n) = Before(s, n)

AccountsInv == WorkInv /\ AccountsFollow

LEMMA AccountsAreNumbers ==
    ASSUME WorkInv, NEW r \in live, NEW n \in Names
    PROVE  accounts[r][n] \in Nat /\ r \in Servers
BY DEF WorkInv, FailoverTypeOK

LEMMA NextFollowAccounts == AccountsInv /\ [Next]_vars => AccountsFollow'
<1> SUFFICES ASSUME AccountsInv, [Next]_vars, closed' = {}
             PROVE  \A r, s \in live', n \in Names \ torn' :
                       Before(r, n)' = Before(s, n)'
  BY DEF AccountsFollow
<1> USE NoRoundTyped DEF copies, leaders, tables, faults, histories, handlers
<1>w. WorkInv /\ WorkInv'
  BY NextWork DEF AccountsInv
<1>1. ASSUME closed = {}, UNCHANGED <<live, torn>>,
             \A r \in live, n \in Names \ torn : Before(r, n)' = Before(r, n)
      PROVE  \A r, s \in live', n \in Names \ torn' :
                Before(r, n)' = Before(s, n)'
  BY <1>1 DEF AccountsInv, AccountsFollow
<1>2. CASE Opens
  <2>1. \A r \in live, n \in Names : Ahead(r, n) = 0 /\ Ahead(r, n)' = 0
    BY <1>2, NonesAreDistinct DEF Opens, Ahead, NoRound
  <2>2. \A r \in live, n \in Names : Before(r, n)' = Before(r, n)
    BY <1>2, <2>1 DEF Before, Opens
  <2>3. QED
    BY <1>1, <1>2, <2>2 DEF Opens
<1>3. ASSUME UNCHANGED <<live, serving, accounts, torn, closed>>,
             round.kind \notin AccountKinds, round'.kind \notin AccountKinds
      PROVE  \A r, s \in live', n \in Names \ torn' :
                Before(r, n)' = Before(s, n)'
  <2>1. \A r \in live, n \in Names : Ahead(r, n) = 0 /\ Ahead(r, n)' = 0
    BY <1>3 DEF Ahead, AccountKinds
  <2>2. QED
    BY <1>1, <1>3, <2>1 DEF Before
<1>4. CASE Rests
  BY <1>1, <1>4 DEF Rests, Before, Ahead
<1>5. CASE PassesMessages \/ ApplyLogin \/ ApplyLogoff
  BY <1>3, <1>5
     DEF PassesMessages, ApplyLogin, ApplyLogoff, Acknowledged, AccountKinds
<1>6. ASSUME NEW s, NEW c, Close(c) \/ HangUp(s, c)
      PROVE  \A r, t \in live', n \in Names \ torn' :
                Before(r, n)' = Before(t, n)'
  BY <1>1, <1>6 DEF Close, HangUp, Before, Ahead
<1>7. ASSUME NEW r \in Servers, Replicate(r)
      PROVE  \A q, s \in live', n \in Names \ torn' :
                Before(q, n)' = Before(s, n)'
  <2>1. /\ r \in round.pend /\ r \in live
        /\ round'.name = round.name /\ round'.kind = round.kind
        /\ round'.pend = round.pend \ {r}
        /\ UNCHANGED <<live, serving, torn>>
    BY <1>7, <1>w DEF Replicate, WorkInv, FailoverTypeOK, UpdateType
  <2>2. /\ closed = {}
        /\ \/ ProcessUpdateAccounts(r, round) \/ ProcessUpdateLogin(r, round)
           \/ ProcessUpdateMessages(r, round)
    BY <1>7
       DEF Replicate, ProcessUpdateAccounts, ProcessUpdateLogin,
           ProcessUpdateMessages
  <2>3. round.kind # "none" /\ round.name \in Names /\ r \notin serving
    BY <1>w, <2>1 DEF WorkInv, RoundOK
  <2>4. /\ accounts \in [Servers -> [Names -> Nat]]
        /\ live \subseteq Servers
    BY <1>w DEF WorkInv, FailoverTypeOK
  <2>5. accounts' = [accounts EXCEPT ![r][round.name] =
          IF round.kind = "create" THEN accounts[r][round.name] + 1
          ELSE IF round.kind = "remove" THEN accounts[r][round.name] - 1
          ELSE accounts[r][round.name]]
    <3>1. CASE ProcessUpdateAccounts(r, round)
      BY <3>1, <2>2 DEF ProcessUpdateAccounts
    <3>2. CASE ProcessUpdateLogin(r, round) \/ ProcessUpdateMessages(r, round)
      BY <3>2, <2>4, <2>3 DEF ProcessUpdateLogin, ProcessUpdateMessages
    <3>3. QED
      BY <2>2, <3>1, <3>2
  <2>6. ASSUME NEW q \in live, NEW n \in Names \ torn
        PROVE  Before(q, n)' = Before(q, n)
    <3>1. CASE q = r /\ n = round.name
      BY <2>1, <2>3, <2>4, <2>5, <3>1 DEF Before, Ahead
    <3>2. CASE ~(q = r /\ n = round.name)
      <4>1. accounts'[q][n] = accounts[q][n]
        BY <2>4, <2>5, <3>2
      <4>2. Ahead(q, n)' = Ahead(q, n)
        BY <2>1, <3>2 DEF Ahead
      <4>3. QED
        BY <4>1, <4>2 DEF Before
    <3>3. QED
      BY <3>1, <3>2
  <2>7. QED
    BY <1>1, <2>1, <2>2, <2>6
<1>8. ASSUME round' = NoRound, UNCHANGED <<live, serving, torn, closed>>,
             round.kind \in AccountKinds, round.pend \cap live = {},
             accounts' = [accounts EXCEPT ![Primary][round.name] =
                            IF round.kind = "create" THEN @ + 1 ELSE @ - 1]
      PROVE  \A r, s \in live', n \in Names \ torn' :
                Before(r, n)' = Before(s, n)'
  \* All others are ahead already, by what the primary makes up for now.
  <2>1. /\ serving = {Primary} /\ Primary \in live /\ Primary \in Servers
        /\ round.name \in Names
    BY <1>w, <1>8, RoundIsTyped DEF AccountKinds
  <2>2. accounts \in [Servers -> [Names -> Nat]] /\ live \subseteq Servers
    BY <1>w DEF WorkInv, FailoverTypeOK
  <2>3. ASSUME NEW r \in live, NEW n \in Names \ torn
        PROVE  Before(r, n)' = IF n # round.name THEN Before(r, n)
                               ELSE IF round.kind = "create"
                               THEN Before(r, n) + 1 ELSE Before(r, n) - 1
    <3>1. Before(r, n)' = accounts'[r][n]
      BY <1>8, <2>2, NonesAreDistinct DEF Before, Ahead, NoRound
    <3>2. CASE n # round.name
      BY <1>8, <2>1, <2>2, <3>1, <3>2 DEF Before, Ahead
    <3>3. CASE n = round.name /\ r = Primary
      BY <1>8, <2>1, <2>2, <3>1, <3>3 DEF Before, Ahead
    <3>4. CASE n = round.name /\ r # Primary
      BY <1>8, <2>1, <2>2, <3>1, <3>4 DEF Before, Ahead, AccountKinds
    <3>5. QED
      BY <3>2, <3>3, <3>4
  <2>4. QED
    BY <1>8, <2>3 DEF AccountsInv, AccountsFollow
<1>9. CASE ApplyCreate
  BY <1>8, <1>9 DEF ApplyCreate, Acknowledged, AccountKinds
<1>10. CASE ApplyRemove
  <2>1. CASE accounts[Primary][round.name] > 0
    BY <1>8, <1>10, <2>1 DEF ApplyRemove, Acknowledged, AccountKinds
  <2>2. CASE accounts[Primary][round.name] = 0
    \* A replica that has removed the account had it, unlike the primary.
    <3>1. /\ UNCHANGED <<live, serving, torn, closed, accounts>>
          /\ round' = NoRound /\ round.kind = "remove"
          /\ round.pend \cap live = {}
      BY <1>10, <2>2 DEF ApplyRemove, Acknowledged
    <3>2. /\ serving = {Primary} /\ Primary \in live /\ round.name \in Names
      BY <1>w, <3>1, RoundIsTyped
    <3>3. CASE round.name \in torn
      <4>1. \A r \in live, n \in Names \ torn :
               Ahead(r, n) = 0 /\ Ahead(r, n)' = 0
        BY <3>1, <3>3, NonesAreDistinct DEF Ahead, NoRound
      <4>2. QED
        BY <1>1, <3>1, <4>1 DEF Before
    <3>4. CASE round.name \notin torn
      <4>1. ASSUME NEW r \in live, r # Primary
            PROVE  FALSE
        <5>1. Ahead(r, round.name) = -1 /\ Ahead(Primary, round.name) = 0
          BY <3>1, <3>2, <4>1 DEF Ahead
        <5>2. Before(r, round.name) = Before(Primary, round.name)
          BY <3>1, <3>2, <3>4, <4>1 DEF AccountsInv, AccountsFollow
        <5>3. accounts[r][round.name] \in Nat
          BY <1>w, <3>2, <4>1, AccountsAreNumbers
        <5>4. QED
          BY <2>2, <5>1, <5>2, <5>3 DEF Before
      <4>2. QED
        BY <3>1, <4>1
    <3>5. QED
      BY <3>3, <3>4
  <2>3. QED
    BY <1>10, <2>1, <2>2 DEF ApplyRemove
<1>11. ASSUME NEW s \in Servers, CrashServer(s)
       PROVE  \A r, t \in live', n \in Names \ torn' :
                 Before(r, n)' = Before(t, n)'
  <2>1. /\ live' = live \ {s} /\ serving' = serving \ {s}
        /\ UNCHANGED <<accounts, closed>>
    BY <1>11 DEF CrashServer, L!Crash
  <2>2. torn \subseteq torn'
    BY <1>11 DEF CrashServer
  <2>3. CASE s \notin serving
    <3>1. UNCHANGED <<serving, round, torn>>
      BY <1>11, <2>1, <2>3 DEF CrashServer
    <3>2. \A r \in live', n \in Names : Before(r, n)' = Before(r, n)
      BY <2>1, <3>1 DEF Before, Ahead
    <3>3. QED
      BY <2>1, <3>1, <3>2 DEF AccountsInv, AccountsFollow
  <2>4. CASE s \in serving
    <3>1. /\ round' = NoRound
          /\ round.kind \in AccountKinds => round.name \in torn'
      BY <1>11, <2>4 DEF CrashServer
    <3>2. \A r \in live', n \in Names \ torn' :
             Ahead(r, n) = 0 /\ Ahead(r, n)' = 0
      BY <3>1, NonesAreDistinct DEF Ahead, NoRound, AccountKinds
    <3>3. \A r \in live', n \in Names \ torn' : Before(r, n)' = Before(r, n)
      BY <2>1, <3>2 DEF Before
    <3>4. QED
      BY <2>1, <2>2, <3>3 DEF AccountsInv, AccountsFollow
  <2>5. QED
    BY <2>3, <2>4
<1>12. ASSUME NEW s \in Servers, BecomePrimary(s)
       PROVE  \A r, t \in live', n \in Names \ torn' :
                 Before(r, n)' = Before(t, n)'
  <2>1. /\ serving = {} /\ UNCHANGED <<live, accounts, torn, closed, round>>
    BY <1>12 DEF BecomePrimary, L!Serve
  <2>2. round.kind \notin AccountKinds
    BY <1>w, <2>1 DEF WorkInv, RoundOK, AccountKinds
  <2>3. \A r \in live, n \in Names : Ahead(r, n) = 0 /\ Ahead(r, n)' = 0
    BY <2>1, <2>2 DEF Ahead, AccountKinds
  <2>4. QED
    BY <1>1, <2>1, <2>3 DEF Before
<1>13. QED
  BY <1>w, <1>2, <1>4, <1>5, <1>6, <1>7, <1>9, <1>10, <1>11, <1>12,
     RequestOpens, StepsOnCopies

LEMMA AccountsInvariance == Spec => []AccountsInv
<1>1. Init => AccountsFollow
  <2> SUFFICES ASSUME Init
               PROVE  AccountsFollow
    OBVIOUS
  <2>1. \A r \in Servers, n \in Names : Ahead(r, n) = 0
    BY NonesAreDistinct DEF Init, Ahead, NoRound
  <2>2. QED
    BY <2>1 DEF Init, L!Init, AccountsFollow, Before
<1>2. QED
  BY <1>1, InitWork, NextWork, NextFollowAccounts, PTL DEF Spec, AccountsInv

\* The lists of accounts of all servers left are equal, but for the name whose
\* round is in progress, or was when a primary crashed: a crash between any two
\* messages of a round leaves no other account in doubt.
THEOREM AccountsStayEqual == Spec => []AccountsAgree
<1>1. AccountsInv => AccountsAgree
  <2> SUFFICES ASSUME AccountsInv, closed = {},
                      NEW r \in live, NEW s \in live, NEW n \in Names \ torn,
                      ~(round.kind \in AccountKinds /\ round.name = n)
               PROVE  accounts[r][n] = accounts[s][n]
    BY DEF AccountsAgree
  <2>1. Ahead(r, n) = 0 /\ Ahead(s, n) = 0
    BY DEF Ahead, AccountKinds
  <2>2. Before(r, n) = Before(s, n)
    BY DEF AccountsInv, AccountsFollow
  <2>3. accounts[r][n] \in Nat /\ accounts[s][n] \in Nat
    BY AccountsAreNumbers DEF AccountsInv
  <2>4. QED
    BY <2>1, <2>2, <2>3 DEF Before
<1>2. QED
  BY <1>1, AccountsInvariance, PTL

-----------------------------------------------------------------------------
(* The sessions.  A client is sure if it runs and no crash has left its      *)
(* session on some servers only.  A sure client's session is on all servers  *)
(* or on none, but for those that the round in progress has reached.         *)

Sure == Clients \ (gone \cup adrift)

InLoginRound(n) == round.kind \in LoginKinds /\ round.name = n

Reached(s) == s \notin serving \cup round.pend

SessionsFollow ==
    \A c \in Sure, n \in Names, s, t \in live :
        /\ InLoginRound(n) => ~Reached(s) /\ ~Reached(t)
        /\ sessions[s][n] = c
        => sessions[t][n] = c

\* What a replica has after the round has reached it.
ReachedAreTold ==
    \A s \in live : round.kind \in LoginKinds /\ Reached(s) =>
        /\ sessions[s][round.name] \in
              IF round.kind = "login" THEN {round.by, None} ELSE {None}
        /\ round.kind = "login" /\ round.by \notin gone =>
              sessions[s][round.name] = round.by

FollowInv ==
    /\ WorkInv
    /\ closed = {} => SessionsFollow /\ ReachedAreTold

LEMMA SessionsAreTyped ==
    ASSUME WorkInv
    PROVE  /\ sessions \in [Servers -> [Names -> Clients \cup {None}]]
           /\ registered \in [Servers -> SUBSET Clients]
           /\ live \subseteq Servers /\ serving \subseteq live
BY DEF WorkInv, FailoverTypeOK, OneServes

LEMMA SessionsReplicated ==
    ASSUME WorkInv, NEW r \in Servers, Replicate(r), closed' = {}
    PROVE  /\ closed = {} /\ r \in live /\ ~Reached(r) /\ r \notin serving
           /\ round'.kind = round.kind /\ round'.name = round.name
           /\ round'.by = round.by /\ round'.uuid = round.uuid
           /\ round'.pend = round.pend \ {r}
           /\ round.kind # "none" /\ round.name \in Names
           /\ UNCHANGED <<live, serving, registered, op, about, gone, told,
                          unsure, torn, deleted, adrift>>
           /\ \A s \in Servers, n \in Names :
                 sessions'[s][n] = IF s = r /\ InLoginRound(n)
                                   THEN IF round.kind = "login" THEN round.by
                                        ELSE None
                                   ELSE sessions[s][n]
<1> USE DEF leaders, handlers, histories
<1>1. /\ r \in live /\ r \in round.pend
      /\ round'.kind = round.kind /\ round'.name = round.name
      /\ round'.by = round.by /\ round'.uuid = round.uuid
      /\ round'.pend = round.pend \ {r}
      /\ UNCHANGED <<live, serving, registered, op, about, gone, told,
                     unsure, torn, deleted, adrift>>
  BY DEF Replicate, WorkInv, FailoverTypeOK, UpdateType
<1>2. /\ closed = {}
      /\ \/ ProcessUpdateAccounts(r, round) \/ ProcessUpdateLogin(r, round)
         \/ ProcessUpdateMessages(r, round)
  BY DEF Replicate, ProcessUpdateAccounts, ProcessUpdateLogin,
         ProcessUpdateMessages
<1>3. /\ round.kind # "none" /\ round.name \in Names /\ r \notin serving
      /\ round.kind = "login" => round.uuid = round.by
      /\ ~Reached(r)
  BY <1>1, NoRoundTyped DEF WorkInv, RoundOK, Reached
<1>4. ASSUME NEW s \in Servers, NEW n \in Names
      PROVE  sessions'[s][n] = IF s = r /\ InLoginRound(n)
                               THEN IF round.kind = "login" THEN round.by
                                    ELSE None
                               ELSE sessions[s][n]
  <2>1. CASE ProcessUpdateLogin(r, round)
    <3>1. CASE round.kind = "login"
      BY <1>3, <2>1, <3>1, SessionsAreTyped
         DEF ProcessUpdateLogin, InLoginRound, LoginKinds
    <3>2. CASE round.kind = "logoff"
      BY <1>3, <2>1, <3>2, SessionsAreTyped
         DEF ProcessUpdateLogin, InLoginRound, LoginKinds, Logoff
    <3>3. QED
      BY <2>1, <3>1, <3>2 DEF ProcessUpdateLogin
  <2>2. CASE ProcessUpdateAccounts(r, round) \/ ProcessUpdateMessages(r, round)
    BY <2>2
       DEF ProcessUpdateAccounts, ProcessUpdateMessages, InLoginRound,
           LoginKinds
  <2>3. QED
    BY <1>2, <2>1, <2>2
<1>5. QED
  BY <1>1, <1>2, <1>3, <1>4

LEMMA SessionsApplied ==
    ASSUME WorkInv, ApplyLogin \/ ApplyLogoff
    PROVE  /\ round.kind \in LoginKinds /\ round' = NoRound
           /\ round.kind = "login" => ApplyLogin
           /\ round.kind = "logoff" => ApplyLogoff
           /\ \A s \in live : s = Primary \/ Reached(s)
           /\ serving = {Primary} /\ Primary \in live
           /\ round.name \in Names /\ round.by \in Clients
           /\ UNCHANGED <<live, serving, registered, closed, gone, torn,
                          deleted, adrift, accounts>>
           /\ \A s \in Servers, n \in Names :
                 sessions'[s][n] = IF s = Primary /\ n = round.name
                                   THEN IF round.kind = "login" THEN round.by
                                        ELSE None
                                   ELSE sessions[s][n]
<1> USE DEF leaders, faults, Acknowledged
<1>1. round.kind \in {"login", "logoff"} /\ round.pend \cap live = {}
  BY DEF ApplyLogin, ApplyLogoff
<1>2. /\ serving = {Primary} /\ Primary \in live /\ Primary \in Servers
      /\ round.name \in Names /\ round.by \in Clients
  BY <1>1, RoundIsTyped
<1>3. \A s \in live : s = Primary \/ Reached(s)
  BY <1>1, <1>2 DEF Reached
<1>4. /\ round' = NoRound
      /\ UNCHANGED <<live, serving, registered, closed, gone, torn, deleted,
                     adrift, accounts>>
  BY DEF ApplyLogin, ApplyLogoff
<1>5. /\ round.kind = "login" => ApplyLogin
      /\ round.kind = "logoff" => ApplyLogoff
  BY DEF ApplyLogin, ApplyLogoff
<1>6. ASSUME NEW s \in Servers, NEW n \in Names
      PROVE  sessions'[s][n] = IF s = Primary /\ n = round.name
                               THEN IF round.kind = "login" THEN round.by
                                    ELSE None
                               ELSE sessions[s][n]
  <2>1. CASE round.kind = "login"
    <3>1. sessions' = [sessions EXCEPT ![Primary][round.name] = round.by]
      BY <1>5, <2>1 DEF ApplyLogin
    <3>2. QED
      BY <1>2, <2>1, <3>1, SessionsAreTyped
  <2>2. CASE round.kind = "logoff"
    <3>1. sessions' = [sessions EXCEPT ![Primary] =
                         Logoff(sessions[Primary], round.name)]
      BY <1>5, <2>2 DEF ApplyLogoff
    <3>2. QED
      BY <1>2, <2>2, <3>1, SessionsAreTyped DEF Logoff
  <2>3. QED
    BY <1>1, <2>1, <2>2
<1>7. QED
  BY <1>1, <1>2, <1>3, <1>4, <1>5, <1>6 DEF LoginKinds

LEMMA SessionsHungUp ==
    ASSUME WorkInv, NEW s \in Servers, NEW c \in Clients, HangUp(s, c)
    PROVE  /\ c \in gone
           /\ UNCHANGED <<live, serving, accounts, closed, round, op, about,
                          gone, told, unsure, torn, deleted, adrift>>
           /\ registered' = [registered EXCEPT ![s] = registered[s] \ {c}]
           /\ s \in serving => round.kind \notin LoginKinds
           /\ \A t \in Servers, n \in Names :
                 \/ sessions'[t][n] = sessions[t][n]
                 \/ t = s /\ sessions[s][n] = c /\ sessions'[s][n] = None
           /\ \/ \A n \in Names : sessions[s][n] # c
              \/ \E n \in Names : sessions[s][n] = c /\ sessions'[s][n] = None
<1> USE DEF leaders, faults, handlers, histories
<1>1. /\ c \in gone
      /\ UNCHANGED <<live, serving, accounts, closed, round, op, about, gone,
                     told, unsure, torn, deleted, adrift>>
      /\ registered' = [registered EXCEPT ![s] = registered[s] \ {c}]
      /\ s \in serving => round.kind \notin LoginKinds
  BY DEF HangUp
<1>2. CASE UNCHANGED sessions /\ \A n \in Names : sessions[s][n] # c
  BY <1>1, <1>2
<1>3. ASSUME NEW n \in Names, sessions[s][n] = c,
             sessions' = [sessions EXCEPT ![s] = Logoff(sessions[s], n)]
      PROVE  /\ \A t \in Servers, m \in Names :
                   \/ sessions'[t][m] = sessions[t][m]
                   \/ t = s /\ sessions[s][m] = c /\ sessions'[s][m] = None
             /\ sessions'[s][n] = None
  BY <1>3, SessionsAreTyped DEF Logoff
<1>4. QED
  BY <1>1, <1>2, <1>3 DEF HangUp

LEMMA RoundsEndQuietly ==
    ASSUME WorkInv, PassesMessages \/ ApplyCreate \/ ApplyRemove
    PROVE  /\ round.kind \notin LoginKinds /\ round.kind # "none"
           /\ round' = NoRound
           /\ UNCHANGED <<live, serving, sessions, gone, adrift>>
           /\ closed' = closed
BY DEF PassesMessages, ApplyCreate, ApplyRemove, Acknowledged, LoginKinds,
       copies, leaders, faults, histories

LEMMA NextFollowSessions ==
    FollowInv /\ [Next]_vars /\ closed' = {} =>
        SessionsFollow' /\ ReachedAreTold'
<1> SUFFICES ASSUME FollowInv, [Next]_vars, closed' = {}
             PROVE  SessionsFollow' /\ ReachedAreTold'
  OBVIOUS
<1> USE NoRoundTyped
<1>w. /\ WorkInv
      /\ sessions \in [Servers -> [Names -> Clients \cup {None}]]
      /\ live \subseteq Servers /\ serving \subseteq live
      /\ None \notin Clients
  BY SessionsAreTyped, NonesAreDistinct DEF FollowInv
\* Without an update of the sessions in progress, a step that changes none of
\* them makes at most fewer clients sure, and fewer servers live.
<1>1. ASSUME closed = {}, UNCHANGED sessions, live' \subseteq live,
             Sure' \subseteq Sure,
             round.kind \notin LoginKinds
      PROVE  SessionsFollow'
  BY <1>1 DEF FollowInv, SessionsFollow, InLoginRound
<1>2. ASSUME round'.kind \notin LoginKinds
      PROVE  ReachedAreTold'
  BY <1>2 DEF ReachedAreTold
<1>3. CASE Opens /\ adrift \subseteq adrift'
  <2>1. /\ closed = {} /\ UNCHANGED sessions /\ live' = live
        /\ round.kind = "none"
    BY <1>3 DEF Opens, copies
  <2>2. Sure' \subseteq Sure
    BY <1>3 DEF Sure, Opens, copies
  <2>3. \A s \in live' : ~Reached(s)'
    BY <1>3 DEF Opens, Reached, copies
  <2>4. QED
    BY <1>1, <2>1, <2>2, <2>3 DEF LoginKinds, ReachedAreTold
<1>4. CASE PassesMessages \/ ApplyCreate \/ ApplyRemove
  <2>1. /\ round.kind \notin LoginKinds /\ round'.kind \notin LoginKinds
        /\ UNCHANGED <<live, sessions, gone, adrift, closed>>
    BY <1>w, <1>4, RoundsEndQuietly DEF LoginKinds
  <2>2. Sure' \subseteq Sure
    BY <2>1 DEF Sure
  <2>3. QED
    BY <1>1, <1>2, <2>1, <2>2
<1>5. CASE Rests
  BY <1>5
     DEF Rests, copies, FollowInv, SessionsFollow, ReachedAreTold, Sure,
         InLoginRound, Reached
<1>6. ASSUME NEW c \in Clients, Close(c)
      PROVE  SessionsFollow' /\ ReachedAreTold'
  <2>1. /\ UNCHANGED <<live, serving, sessions, round, closed>>
        /\ gone \subseteq gone' /\ adrift \subseteq adrift'
    BY <1>6 DEF Close, leaders, tables, faults
  <2>2. Sure' \subseteq Sure
    BY <2>1 DEF Sure
  <2>3. SessionsFollow'
    BY <2>1, <2>2 DEF FollowInv, SessionsFollow, InLoginRound, Reached
  <2>4. ReachedAreTold'
    BY <2>1 DEF FollowInv, ReachedAreTold, Reached
  <2>5. QED
    BY <2>3, <2>4
<1>7. ASSUME NEW s \in Servers, NEW d \in Clients, HangUp(s, d)
      PROVE  SessionsFollow' /\ ReachedAreTold'
  <2>1. /\ d \in gone
        /\ UNCHANGED <<live, serving, closed, round, gone, adrift>>
        /\ \A t \in Servers, n \in Names :
              \/ sessions'[t][n] = sessions[t][n]
              \/ sessions[t][n] = d /\ sessions'[t][n] = None
    BY <1>w, <1>7, SessionsHungUp
  \* A sure client has not ended, so it loses no session.
  <2>2. \A c \in Clients \ gone, t \in live, n \in Names :
           sessions'[t][n] = c <=> sessions[t][n] = c
    BY <1>w, <2>1
  <2>3. SessionsFollow'
    BY <2>1, <2>2
       DEF FollowInv, SessionsFollow, Sure, InLoginRound, Reached
  <2>4. ReachedAreTold'
    <3>1. round.kind \in LoginKinds =>
             round.name \in Names /\ round.by \in Clients
      BY <1>w, RoundIsTyped DEF LoginKinds
    <3>2. QED
      BY <1>w, <2>1, <2>2, <3>1 DEF FollowInv, ReachedAreTold, Reached
  <2>5. QED
    BY <2>3, <2>4
<1>8. ASSUME NEW r \in Servers, Replicate(r)
      PROVE  SessionsFollow' /\ ReachedAreTold'
  <2>1. /\ closed = {} /\ r \in live /\ ~Reached(r) /\ r \notin serving
        /\ round'.kind = round.kind /\ round'.name = round.name
        /\ round'.by = round.by
        /\ round'.pend = round.pend \ {r}
        /\ UNCHANGED <<live, serving, gone, adrift>>
        /\ round.name \in Names
        /\ \A s \in Servers, n \in Names :
              sessions'[s][n] = IF s = r /\ InLoginRound(n)
                                THEN IF round.kind = "login" THEN round.by
                                     ELSE None
                                ELSE sessions[s][n]
    BY <1>w, <1>8, SessionsReplicated
  <2>2. /\ Reached(r)'
        /\ \A s \in live \ {r} : Reached(s)' <=> Reached(s)
    BY <2>1 DEF Reached
  <2>3. SessionsFollow'
    <3>1. SUFFICES ASSUME NEW c \in Sure, NEW n \in Names,
                          NEW s \in live, NEW t \in live,
                          InLoginRound(n) => ~Reached(s)' /\ ~Reached(t)',
                          sessions'[s][n] = c
                   PROVE  sessions'[t][n] = c
      BY <2>1 DEF SessionsFollow, Sure, InLoginRound
    <3>2. /\ sessions'[s][n] = sessions[s][n]
          /\ sessions'[t][n] = sessions[t][n]
      BY <1>w, <2>1, <2>2, <3>1
    <3>3. InLoginRound(n) => ~Reached(s) /\ ~Reached(t)
      BY <2>1, <2>2, <3>1
    <3>4. QED
      BY <2>1, <3>1, <3>2, <3>3 DEF FollowInv, SessionsFollow
  <2>4. ReachedAreTold'
    BY <1>w, <2>1, <2>2
       DEF FollowInv, ReachedAreTold, InLoginRound, LoginKinds
  <2>5. QED
    BY <2>3, <2>4
<1>9. CASE ApplyLogin \/ ApplyLogoff
  <2>1. /\ round.kind \in LoginKinds /\ round' = NoRound
        /\ \A s \in live : s = Primary \/ Reached(s)
        /\ Primary \in live
        /\ round.name \in Names /\ round.by \in Clients
        /\ UNCHANGED <<live, closed, gone, adrift>>
        /\ \A s \in Servers, n \in Names :
              sessions'[s][n] = IF s = Primary /\ n = round.name
                                THEN IF round.kind = "login" THEN round.by
                                     ELSE None
                                ELSE sessions[s][n]
    BY <1>w, <1>9, SessionsApplied
  <2>2. ReachedAreTold'
    BY <1>2, <2>1 DEF LoginKinds
  <2>3. SUFFICES ASSUME NEW c \in Sure, NEW n \in Names,
                        NEW s \in live, NEW t \in live, sessions'[s][n] = c
                 PROVE  sessions'[t][n] = c
    BY <2>1, <2>2 DEF SessionsFollow, Sure
  <2>4. CASE n # round.name
    BY <1>w, <2>1, <2>3, <2>4 DEF FollowInv, SessionsFollow, InLoginRound
  <2>5. CASE n = round.name
    \* It is the client that has logged in, and everybody left has been told.
    <3>1. round.kind = "login" /\ c = round.by
      BY <1>w, <2>1, <2>3, <2>5 DEF FollowInv, ReachedAreTold, Sure
    <3>2. QED
      BY <1>w, <2>1, <2>5, <3>1 DEF FollowInv, ReachedAreTold, Sure
  <2>6. QED
    BY <2>4, <2>5
<1>10. ASSUME NEW p \in Servers, CrashServer(p)
       PROVE  SessionsFollow' /\ ReachedAreTold'
  <2>1. /\ live' = live \ {p} /\ serving' = serving \ {p}
        /\ UNCHANGED <<sessions, closed, gone>> /\ adrift \subseteq adrift'
    BY <1>10 DEF CrashServer, L!Crash, tables, faults
  <2>2. CASE p \notin serving
    <3>1. UNCHANGED <<serving, round, adrift>>
      BY <1>10, <2>1, <2>2 DEF CrashServer
    <3>2. QED
      BY <2>1, <3>1
         DEF FollowInv, SessionsFollow, ReachedAreTold, Sure, InLoginRound,
             Reached
  <2>3. CASE p \in serving
    <3>1. /\ round' = NoRound
          /\ round.kind \in LoginKinds =>
                adrift' = adrift \cup ({round.by, sessions[p][round.name]}
                                         \ {None})
      BY <1>10, <2>3 DEF CrashServer
    <3>2. ReachedAreTold'
      BY <1>2, <3>1 DEF LoginKinds
    <3>3. SUFFICES ASSUME NEW c \in Sure', NEW n \in Names,
                          NEW s \in live', NEW t \in live',
                          sessions[s][n] = c
                   PROVE  sessions[t][n] = c
      BY <2>1, <3>2 DEF SessionsFollow
    <3>4. c \in Sure /\ c # None
      BY <1>w, <2>1, <3>3 DEF Sure
    <3>5. ~InLoginRound(n)
      \* Such a session would have made c one that is adrift now.
      <4>1. SUFFICES ASSUME InLoginRound(n)
                     PROVE  FALSE
        OBVIOUS
      <4>2. c # round.by /\ c # sessions[p][n]
        BY <3>1, <3>3, <3>4, <4>1 DEF InLoginRound, Sure
      <4>3. CASE Reached(s)
        BY <2>1, <3>3, <3>4, <4>1, <4>2, <4>3
           DEF FollowInv, ReachedAreTold, InLoginRound
      <4>4. CASE ~Reached(s)
        <5>1. ~Reached(p) /\ p \in live
          BY <1>w, <2>3 DEF Reached
        <5>2. QED
          BY <2>1, <3>3, <3>4, <4>2, <4>4, <5>1 DEF FollowInv, SessionsFollow
      <4>5. QED
        BY <4>3, <4>4
    <3>6. QED
      BY <2>1, <3>3, <3>4, <3>5 DEF FollowInv, SessionsFollow
  <2>4. QED
    BY <2>2, <2>3
<1>11. ASSUME NEW s \in Servers, BecomePrimary(s)
       PROVE  SessionsFollow' /\ ReachedAreTold'
  <2>1. /\ serving = {}
        /\ UNCHANGED <<live, sessions, closed, round, gone, adrift>>
    BY <1>11 DEF BecomePrimary, L!Serve, tables, faults, histories
  <2>2. round.kind = "none"
    BY <1>w, <2>1 DEF WorkInv, RoundOK
  <2>3. Sure' \subseteq Sure
    BY <2>1 DEF Sure
  <2>4. QED
    BY <1>1, <1>2, <2>1, <2>2, <2>3 DEF LoginKinds
<1>12. QED
  BY <1>w, <1>3, <1>4, <1>5, <1>6, <1>7, <1>8, <1>9, <1>10, <1>11,
     StepsOnCopies, RequestOpens

LEMMA FollowInvariance == Spec => []FollowInv
<1>1. Init => SessionsFollow /\ ReachedAreTold
  BY NoRoundTyped, NonesAreDistinct
     DEF Init, L!Init, SessionsFollow, ReachedAreTold, Sure, LoginKinds
<1>2. FollowInv /\ [Next]_vars => FollowInv'
  BY NextWork, NextFollowSessions DEF FollowInv
<1>3. QED
  BY <1>1, <1>2, InitWork, PTL DEF Spec, FollowInv

-----------------------------------------------------------------------------
(* A client that no crash has set adrift has one session at most, and none   *)
(* while it works on a request that begins or has ended it; what it is       *)
(* logged in to it is connected to.                                          *)

LoggingIn == round.kind = "login"

OneSession ==
    \A c \in Clients \ adrift, s \in live, n, m \in Names :
        sessions[s][n] = c /\ sessions[s][m] = c => n = m

NoneBeforeLogin ==
    \A c \in Sure, s \in live, n \in Names :
        op[c] \in {"create", "login"} /\ sessions[s][n] = c =>
            LoggingIn /\ round.by = c /\ round.name = n

NoneBeforeRemoval ==
    \A c \in Clients \ adrift, s \in serving, n \in Names :
        op[c] = "delete" /\ sessions[s][n] = c =>
            round.kind = "logoff" /\ round.by = c /\ round.name = n

\* A replica forgets the clients that have ended only.
ReplicasAreConnected ==
    \A s \in live \ serving : Clients \ gone \subseteq registered[s]

\* A client that ends while it is being logged in is adrift.
EndedLoginsAreAdrift == LoggingIn /\ round.by \in gone => round.by \in adrift

Connected ==
    \A s \in live, n \in Names :
        sessions[s][n] # None => sessions[s][n] \in registered[s] \cup adrift

OwnInv ==
    /\ FollowInv
    /\ ReplicasAreConnected
    /\ EndedLoginsAreAdrift
    /\ closed = {} =>
          OneSession /\ NoneBeforeLogin /\ NoneBeforeRemoval /\ Connected

LEMMA NextConnected ==
    WorkInv /\ ReplicasAreConnected /\ [Next]_vars => ReplicasAreConnected'
<1> SUFFICES ASSUME WorkInv, ReplicasAreConnected, [Next]_vars
             PROVE  ReplicasAreConnected'
  OBVIOUS
<1> USE DEF leaders, tables, faults, copies
<1>1. ASSUME UNCHANGED registered, gone \subseteq gone',
             live' \ serving' \subseteq live \ serving
      PROVE  ReplicasAreConnected'
  BY <1>1 DEF ReplicasAreConnected
<1>2. ASSUME NEW s \in Servers, CrashServer(s) \/ BecomePrimary(s)
      PROVE  ReplicasAreConnected'
  BY <1>1, <1>2
     DEF CrashServer, L!Crash, BecomePrimary, L!Serve
<1>3. ASSUME NEW c \in Clients, Close(c)
      PROVE  ReplicasAreConnected'
  BY <1>1, <1>3 DEF Close
<1>4. CASE Opens \/ Rests \/ PassesMessages
  BY <1>1, <1>4 DEF Opens, Rests, PassesMessages
<1>5. CASE ApplyCreate \/ ApplyLogin \/ ApplyLogoff
  BY <1>1, <1>5 DEF ApplyCreate, ApplyLogin, ApplyLogoff
<1>6. ASSUME NEW r \in Servers, Replicate(r)
      PROVE  ReplicasAreConnected'
  BY <1>1, <1>6 DEF Replicate
<1>7. CASE ApplyRemove
  <2>1. serving = {Primary} /\ UNCHANGED <<live, serving, gone>>
    BY <1>7, RoundIsTyped DEF ApplyRemove, Acknowledged
  <2>2. \A s \in live \ {Primary} : registered'[s] = registered[s]
    BY <1>7, SessionsAreTyped DEF ApplyRemove
  <2>3. QED
    BY <2>1, <2>2 DEF ReplicasAreConnected
<1>8. ASSUME NEW s \in Servers, NEW c \in Clients, HangUp(s, c)
      PROVE  ReplicasAreConnected'
  <2>1. /\ c \in gone /\ UNCHANGED <<live, serving, gone>>
        /\ registered' = [registered EXCEPT ![s] = registered[s] \ {c}]
    BY <1>8, SessionsHungUp
  <2>2. QED
    BY <2>1, SessionsAreTyped DEF ReplicasAreConnected
<1>9. QED
  BY <1>2, <1>3, <1>4, <1>5, <1>6, <1>7, <1>8, StepsOnCopies, RequestOpens

LEMMA NextAdrift ==
    WorkInv /\ EndedLoginsAreAdrift /\ [Next]_vars => EndedLoginsAreAdrift'
<1> SUFFICES ASSUME WorkInv, EndedLoginsAreAdrift, [Next]_vars, LoggingIn',
                    round'.by \in gone'
             PROVE  round'.by \in adrift'
  BY DEF EndedLoginsAreAdrift
<1> USE NoRoundTyped DEF leaders, tables, faults, histories, copies
<1>1. ASSUME LoggingIn, round'.by = round.by,
             adrift \subseteq adrift', round'.by \in gone
      PROVE  round'.by \in adrift'
  BY <1>1 DEF EndedLoginsAreAdrift
<1>2. ASSUME NEW c \in Clients, BeginRequest(c) \/ Continue(c)
      PROVE  round'.by \in adrift'
  <2>1. CASE CreateLogin(c) \/ \E n \in Names : BeginLogin(c, n)
    BY <2>1 DEF CreateLogin, BeginLogin, Racing, Update
  <2>2. CASE ~(CreateLogin(c) \/ \E n \in Names : BeginLogin(c, n))
    <3>1. round'.kind # "login"
      BY <1>2, <2>2
         DEF BeginRequest, Continue, BeginCreate, BeginLogoff, BeginSend,
             DeleteRemove, Update
    <3>2. QED
      BY <3>1 DEF LoggingIn
  <2>3. QED
    BY <2>1, <2>2
<1>3. ASSUME NEW c \in Clients, Close(c)
      PROVE  round'.by \in adrift'
  BY <1>3 DEF Close, LoggingIn, EndedLoginsAreAdrift
<1>4. ASSUME NEW s \in Servers, CrashServer(s)
      PROVE  round'.by \in adrift'
  <2>1. CASE s \in serving
    BY <1>4, <2>1 DEF CrashServer, LoggingIn
  <2>2. CASE s \notin serving
    BY <1>1, <1>4, <2>2 DEF CrashServer, LoggingIn
  <2>3. QED
    BY <2>1, <2>2
<1>5. ASSUME NEW s \in Servers, BecomePrimary(s)
      PROVE  round'.by \in adrift'
  BY <1>1, <1>5 DEF BecomePrimary, LoggingIn
<1>6. ASSUME NEW s \in Servers, NEW c \in Clients, HangUp(s, c)
      PROVE  round'.by \in adrift'
  BY <1>1, <1>6 DEF HangUp, LoggingIn
<1>7. ASSUME NEW r \in Servers, Replicate(r)
      PROVE  round'.by \in adrift'
  <2>1. round'.kind = round.kind /\ round'.by = round.by
    BY <1>7 DEF Replicate, WorkInv, FailoverTypeOK, UpdateType
  <2>2. QED
    BY <1>1, <1>7, <2>1 DEF Replicate, LoggingIn
<1>8. CASE \/ ApplyCreate \/ ApplyLogin \/ ApplyLogoff \/ ApplyRemove
           \/ PassesMessages
  BY <1>8
     DEF ApplyCreate, ApplyLogin, ApplyLogoff, ApplyRemove, PassesMessages,
         LoggingIn
<1>9. CASE Rests \/ round'.kind = "setmsgs"
  BY <1>1, <1>9 DEF Rests, LoggingIn
<1>10. QED
  BY <1>2, <1>3, <1>4, <1>5, <1>6, <1>7, <1>8, <1>9, StepsOnCopies

\* What only grows, or shrinks.
LEMMA Monotone ==
    ASSUME WorkInv, [Next]_vars
    PROVE  /\ live' \subseteq live /\ closed \subseteq closed'
           /\ gone \subseteq gone' /\ adrift \subseteq adrift'
           /\ torn \subseteq torn' /\ deleted \subseteq deleted'
           /\ Sure' \subseteq Sure
<1> DEFINE Goal == /\ live' \subseteq live /\ closed \subseteq closed'
                   /\ gone \subseteq gone' /\ adrift \subseteq adrift'
                   /\ torn \subseteq torn' /\ deleted \subseteq deleted'
<1> USE DEF leaders, tables, faults, histories, copies
<1>1. ASSUME NEW s \in Servers, CrashServer(s) \/ BecomePrimary(s)
      PROVE  Goal
  BY <1>1 DEF CrashServer, L!Crash, BecomePrimary, L!Serve
<1>2. ASSUME NEW c \in Clients, BeginRequest(c) \/ Continue(c) \/ Close(c)
      PROVE  Goal
  BY <1>2, RequestOpens DEF Opens, Close
<1>3. ASSUME NEW s \in Servers, NEW c \in Clients, HangUp(s, c)
      PROVE  Goal
  BY <1>3, SessionsHungUp
<1>4. ASSUME NEW r \in Servers, Replicate(r)
      PROVE  Goal
  <2>1. closed \subseteq closed'
    BY <1>4
       DEF Replicate, ProcessUpdateAccounts, ProcessUpdateLogin,
           ProcessUpdateMessages
  <2>2. QED
    BY <1>4, <2>1 DEF Replicate
<1>5. ASSUME ApplyCreate \/ ApplyLogin \/ ApplyLogoff \/ ApplyRemove
      PROVE  Goal
  BY <1>5 DEF ApplyCreate, ApplyLogin, ApplyLogoff, ApplyRemove
<1>6. ASSUME Opens /\ UNCHANGED <<op, about, adrift>>
      PROVE  Goal
  BY <1>6 DEF Opens
<1>7. ASSUME PassesMessages \/ Rests
      PROVE  Goal
  BY <1>7 DEF PassesMessages, Rests
<1>8. Goal
  <2> HIDE DEF Goal
  <2> QED
    BY <1>1, <1>2, <1>3, <1>4, <1>5, <1>6, <1>7, StepsOnCopies
<1>9. QED
  BY <1>8 DEF Sure

\* The only step that gives a client a session is one of its login's round.
LEMMA SessionsAreGained ==
    ASSUME WorkInv, [Next]_vars, closed' = {}, NEW s \in live', NEW n \in Names,
           NEW c \in Clients, sessions'[s][n] = c, sessions[s][n] # c
    PROVE  /\ LoggingIn /\ round.by = c /\ round.name = n
           /\ UNCHANGED <<live, serving, registered, adrift, gone, torn, deleted>>
           /\ \/ /\ s \notin serving /\ LoggingIn' /\ UNCHANGED <<op, about>>
                 /\ round'.by = c /\ round'.name = n
                 /\ ~Reached(s) /\ Replicate(s)
              \/ ApplyLogin /\ serving = {s} /\ op'[c] = "none"
<1> DEFINE Goal ==
    /\ LoggingIn /\ round.by = c /\ round.name = n
    /\ UNCHANGED <<live, serving, registered, adrift, gone, torn, deleted>>
    /\ \/ /\ s \notin serving /\ LoggingIn' /\ UNCHANGED <<op, about>>
          /\ round'.by = c /\ round'.name = n
          /\ ~Reached(s) /\ Replicate(s)
       \/ ApplyLogin /\ serving = {s} /\ op'[c] = "none"
<1> USE DEF leaders, tables, faults, histories, copies
<1>0. s \in live /\ s \in Servers /\ c # None
  BY Monotone, SessionsAreTyped, NonesAreDistinct
<1>1. ASSUME UNCHANGED sessions
      PROVE  Goal
  BY <1>1
<1>2. ASSUME NEW p \in Servers, CrashServer(p) \/ BecomePrimary(p)
      PROVE  Goal
  BY <1>1, <1>2 DEF CrashServer, BecomePrimary
<1>3. ASSUME NEW d \in Clients, BeginRequest(d) \/ Continue(d) \/ Close(d)
      PROVE  Goal
  BY <1>1, <1>3, RequestOpens DEF Opens, Close
<1>4. ASSUME NEW p \in Servers, NEW d \in Clients, HangUp(p, d)
      PROVE  Goal
  BY <1>0, <1>4, SessionsHungUp
<1>5. ASSUME NEW r \in Servers, Replicate(r)
      PROVE  Goal
  <2>1. /\ r \notin serving /\ ~Reached(r)
        /\ round'.kind = round.kind /\ round'.name = round.name
        /\ round'.by = round.by
        /\ UNCHANGED <<live, serving, registered, op, about, gone, torn,
                       deleted, adrift>>
        /\ sessions'[s][n] = IF s = r /\ InLoginRound(n)
                             THEN IF round.kind = "login" THEN round.by
                                  ELSE None
                             ELSE sessions[s][n]
    BY <1>0, <1>5, SessionsReplicated
  <2>2. s = r /\ InLoginRound(n) /\ round.kind = "login" /\ round.by = c
    BY <1>0, <2>1
  <2>3. QED
    BY <1>5, <2>1, <2>2 DEF InLoginRound, LoggingIn
<1>6. ASSUME ApplyLogin \/ ApplyLogoff
      PROVE  Goal
  <2>1. /\ round.kind = "login" => ApplyLogin
        /\ serving = {Primary}
        /\ UNCHANGED <<live, serving, registered, closed, gone, torn, deleted,
                       adrift>>
        /\ sessions'[s][n] = IF s = Primary /\ n = round.name
                             THEN IF round.kind = "login" THEN round.by
                                  ELSE None
                             ELSE sessions[s][n]
    BY <1>0, <1>6, SessionsApplied
  <2>2. s = Primary /\ n = round.name /\ round.kind = "login" /\ round.by = c
    BY <1>0, <2>1
  <2>3. op'[c] = "none"
    BY <2>1, <2>2 DEF ApplyLogin, Respond, WorkInv, FailoverTypeOK
  <2>4. QED
    BY <2>1, <2>2, <2>3 DEF LoggingIn
<1>7. ASSUME ApplyCreate \/ ApplyRemove \/ PassesMessages
      PROVE  Goal
  BY <1>1, <1>7, RoundsEndQuietly
<1>8. ASSUME Opens \/ Rests
      PROVE  Goal
  BY <1>1, <1>8 DEF Opens, Rests
<1>9. Goal
  <2> HIDE DEF Goal
  <2> QED
    BY <1>2, <1>3, <1>4, <1>5, <1>6, <1>7, <1>8, StepsOnCopies
<1>10. QED
  BY <1>9

\* A request begins with BeginRequest.
LEMMA RequestsBegin ==
    ASSUME WorkInv, [Next]_vars, NEW c \in Clients,
           op'[c] # op[c], op'[c] # "none"
    PROVE  BeginRequest(c)
<1> USE DEF leaders, tables, faults, histories, copies, handlers, Begin
<1>0. op \in [Clients -> {"none", "create", "login", "logoff", "delete",
                          "send"}]
  BY DEF WorkInv, FailoverTypeOK
<1>1. ASSUME UNCHANGED op
      PROVE  FALSE
  BY <1>1
<1>2. ASSUME NEW d, op' = [op EXCEPT ![d] = "none"]
      PROVE  FALSE
  BY <1>0, <1>2
<1>3. ASSUME NEW p \in Servers, CrashServer(p) \/ BecomePrimary(p)
      PROVE  FALSE
  BY <1>1, <1>3 DEF CrashServer, BecomePrimary
<1>4. ASSUME NEW d \in Clients, BeginRequest(d)
      PROVE  d = c
  <2>1. \E what : op' = [op EXCEPT ![d] = what]
    BY <1>4
       DEF BeginRequest, BeginCreate, BeginLogin, BeginLogoff, BeginSend
  <2>2. QED
    BY <1>0, <2>1
<1>5. ASSUME NEW d \in Clients, Continue(d) \/ Close(d)
      PROVE  FALSE
  BY <1>1, <1>5 DEF Continue, CreateLogin, DeleteRemove, Close
<1>6. ASSUME NEW s \in Servers, NEW d \in Clients, HangUp(s, d)
      PROVE  FALSE
  BY <1>1, <1>6 DEF HangUp
<1>7. ASSUME NEW r \in Servers, Replicate(r)
      PROVE  FALSE
  BY <1>1, <1>7 DEF Replicate
<1>8. CASE ApplyCreate \/ ApplyLogin \/ ApplyLogoff \/ ApplyRemove
  BY <1>1, <1>2, <1>8
     DEF ApplyCreate, ApplyLogin, ApplyLogoff, ApplyRemove, Respond
<1>9. CASE PassesMessages \/ Rests
  BY <1>1, <1>2, <1>9 DEF PassesMessages, Rests
<1>10. QED
  BY <1>1, <1>3, <1>4, <1>5, <1>6, <1>7, <1>8, <1>9, StepsOnCopies

\* A round goes on until it is applied, or the primary crashes.
LEMMA RoundsGoOn ==
    ASSUME WorkInv, [Next]_vars, round.kind # "none"
    PROVE  \/ /\ round'.kind = round.kind /\ round'.by = round.by
              /\ round'.name = round.name
           \/ /\ \A c \in Clients : op'[c] = "none"
              /\ round.kind \in AccountKinds => round.name \in torn'
           \/ ApplyCreate \/ ApplyLogin \/ ApplyLogoff \/ ApplyRemove
           \/ PassesMessages
<1> DEFINE Goal == \/ /\ round'.kind = round.kind /\ round'.by = round.by
                      /\ round'.name = round.name
                   \/ /\ \A c \in Clients : op'[c] = "none"
                      /\ round.kind \in AccountKinds => round.name \in torn'
                   \/ ApplyCreate \/ ApplyLogin \/ ApplyLogoff \/ ApplyRemove
                   \/ PassesMessages
<1> USE DEF copies
<1>1. ASSUME NEW p \in Servers, CrashServer(p) \/ BecomePrimary(p)
      PROVE  Goal
  BY <1>1 DEF CrashServer, BecomePrimary
<1>2. ASSUME NEW d \in Clients, Close(d)
      PROVE  Goal
  BY <1>2 DEF Close
<1>3. ASSUME NEW p \in Servers, NEW d \in Clients, HangUp(p, d)
      PROVE  Goal
  BY <1>3 DEF HangUp
<1>4. ASSUME NEW r \in Servers, Replicate(r)
      PROVE  Goal
  BY <1>4 DEF Replicate, WorkInv, FailoverTypeOK, UpdateType
<1>5. ASSUME ApplyCreate \/ ApplyLogin \/ ApplyLogoff \/ ApplyRemove
      PROVE  Goal
  BY <1>5
<1>6. ASSUME Rests \/ PassesMessages
      PROVE  Goal
  BY <1>6 DEF Rests
<1>7. ASSUME Opens
      PROVE  Goal
  BY <1>7, NoRoundTyped DEF Opens
<1>8. Goal
  <2> HIDE DEF Goal
  <2> QED
    BY <1>1, <1>2, <1>3, <1>4, <1>5, <1>6, <1>7, StepsOnCopies, RequestOpens
<1>9. QED
  BY <1>8

LEMMA LoginsGoOn ==
    ASSUME WorkInv, [Next]_vars, round.kind \in LoginKinds
    PROVE  \/ /\ round'.kind = round.kind /\ round'.by = round.by
              /\ round'.name = round.name
           \/ \A c \in Clients : op'[c] = "none"
           \/ ApplyLogin /\ op'[round.by] = "none"
           \/ ApplyLogoff
<1>1. ApplyLogin => op'[round.by] = "none"
  BY SMTT(30), RoundIsTyped
     DEF ApplyLogin, Acknowledged, Respond, WorkInv, FailoverTypeOK
<1>2. round.kind # "none" /\ ~(ApplyCreate \/ ApplyRemove \/ PassesMessages)
  BY RoundsEndQuietly DEF LoginKinds
<1>3. QED
  BY <1>1, <1>2, RoundsGoOn

\* A new round is that of a request, or the delivery thread's.
LEMMA RoundsBegin ==
    ASSUME WorkInv, [Next]_vars, round'.kind # "none"
    PROVE  \/ /\ round'.kind = round.kind /\ round'.by = round.by
              /\ round'.name = round.name
           \/ Opens /\ \E c \in Clients : BeginRequest(c) \/ Continue(c)
           \/ Opens /\ round'.kind = "setmsgs"
<1> DEFINE Goal == \/ /\ round'.kind = round.kind /\ round'.by = round.by
                      /\ round'.name = round.name
                   \/ Opens /\ \E c \in Clients : BeginRequest(c) \/ Continue(c)
                   \/ Opens /\ round'.kind = "setmsgs"
<1> USE DEF copies
<1>1. ASSUME NEW p \in Servers, CrashServer(p) \/ BecomePrimary(p)
      PROVE  Goal
  BY <1>1, NoRoundTyped DEF CrashServer, BecomePrimary
<1>2. ASSUME NEW d \in Clients, Close(d)
      PROVE  Goal
  BY <1>2 DEF Close
<1>3. ASSUME NEW p \in Servers, NEW d \in Clients, HangUp(p, d)
      PROVE  Goal
  BY <1>3 DEF HangUp
<1>4. ASSUME NEW r \in Servers, Replicate(r)
      PROVE  Goal
  BY <1>4 DEF Replicate, WorkInv, FailoverTypeOK, UpdateType
<1>5. ASSUME \/ ApplyCreate \/ ApplyLogin \/ ApplyLogoff \/ ApplyRemove
             \/ PassesMessages
      PROVE  Goal
  BY <1>5, NoRoundTyped
     DEF ApplyCreate, ApplyLogin, ApplyLogoff, ApplyRemove, PassesMessages
<1>6. ASSUME Rests
      PROVE  Goal
  BY <1>6 DEF Rests
<1>7. ASSUME NEW c \in Clients, BeginRequest(c) \/ Continue(c)
      PROVE  Goal
  BY <1>7, RequestOpens
<1>8. ASSUME Opens, round'.kind = "setmsgs"
      PROVE  Goal
  BY <1>8
<1>9. Goal
  <2> HIDE DEF Goal
  <2> QED
    BY <1>1, <1>2, <1>3, <1>4, <1>5, <1>6, <1>7, <1>8, StepsOnCopies
<1>10. QED
  BY <1>9

\* A server that begins to serve has nothing to do yet.
LEMMA NewPrimariesAreIdle ==
    ASSUME WorkInv, [Next]_vars, NEW s \in serving', s \notin serving
    PROVE  round'.kind = "none" /\ \A c \in Clients : op'[c] = "none"
<1> USE DEF leaders, copies
<1>1. ASSUME serving' \subseteq serving
      PROVE  FALSE
  BY <1>1
<1>2. ASSUME NEW p \in Servers, BecomePrimary(p)
      PROVE  round'.kind = "none" /\ \A c \in Clients : op'[c] = "none"
  BY <1>2
     DEF BecomePrimary, L!Serve, handlers, WorkInv, RequestsOK, RoundOK
<1>3. ASSUME NEW p \in Servers, CrashServer(p)
      PROVE  FALSE
  BY <1>1, <1>3 DEF CrashServer, L!Crash
<1>4. ASSUME NEW d \in Clients, BeginRequest(d) \/ Continue(d) \/ Close(d)
      PROVE  FALSE
  BY <1>1, <1>4, RequestOpens DEF Opens, Close
<1>5. ASSUME NEW p \in Servers, NEW d \in Clients, HangUp(p, d)
      PROVE  FALSE
  BY <1>1, <1>5 DEF HangUp
<1>6. ASSUME NEW r \in Servers, Replicate(r)
      PROVE  FALSE
  BY <1>1, <1>6 DEF Replicate
<1>7. ASSUME ApplyCreate \/ ApplyLogin \/ ApplyLogoff \/ ApplyRemove
      PROVE  FALSE
  BY <1>1, <1>7 DEF ApplyCreate, ApplyLogin, ApplyLogoff, ApplyRemove
<1>8. ASSUME Opens \/ PassesMessages \/ Rests
      PROVE  FALSE
  BY <1>1, <1>8 DEF Opens, PassesMessages, Rests
<1>9. QED
  BY <1>2, <1>3, <1>4, <1>5, <1>6, <1>7, <1>8, StepsOnCopies

LEMMA NextOneSession ==
    OwnInv /\ [Next]_vars /\ closed' = {} => OneSession'
<1> SUFFICES ASSUME OwnInv, [Next]_vars, closed' = {},
                    NEW c \in Clients, c \notin adrift',
                    NEW s \in live', NEW n \in Names, NEW m \in Names,
                    sessions'[s][n] = c, sessions'[s][m] = c
             PROVE  n = m
  BY DEF OneSession
<1>w. WorkInv
  BY DEF OwnInv, FollowInv
<1>1. /\ s \in live /\ c \notin adrift /\ closed = {}
      /\ OneSession /\ NoneBeforeLogin
  BY <1>w, Monotone DEF OwnInv
\* What the client gains is the session of its login, and it had none before.
<1>2. ASSUME NEW k \in Names, sessions'[s][k] = c, sessions[s][k] # c
      PROVE  /\ round.name = k
             /\ \A j \in Names : sessions[s][j] # c
  <2>1. LoggingIn /\ round.by = c /\ round.name = k
    BY <1>w, <1>2, SessionsAreGained
  <2>2. c \in Sure /\ op[c] \in {"create", "login"}
    BY <1>w, <1>1, <2>1
       DEF OwnInv, EndedLoginsAreAdrift, Sure, WorkInv, RoundOK, LoggingIn
  <2>3. QED
    BY <1>1, <1>2, <2>1, <2>2 DEF NoneBeforeLogin
<1>3. QED
  BY <1>1, <1>2 DEF OneSession

LEMMA NextNoneBeforeLogin ==
    OwnInv /\ [Next]_vars /\ closed' = {} => NoneBeforeLogin'
<1> SUFFICES ASSUME OwnInv, [Next]_vars, closed' = {},
                    NEW c \in Sure', NEW s \in live', NEW n \in Names,
                    op'[c] \in {"create", "login"}, sessions'[s][n] = c
             PROVE  LoggingIn' /\ round'.by = c /\ round'.name = n
  BY DEF NoneBeforeLogin, LoggingIn
<1>w. WorkInv
  BY DEF OwnInv, FollowInv
<1>1. /\ s \in live /\ c \in Sure /\ c \in Clients /\ closed = {}
      /\ NoneBeforeLogin
      /\ SessionsFollow
  BY <1>w, Monotone DEF OwnInv, FollowInv, Sure
<1>2. CASE sessions[s][n] # c
  BY <1>w, <1>1, <1>2, SessionsAreGained
<1>3. CASE sessions[s][n] = c /\ op[c] = op'[c]
  <2>1. LoggingIn /\ round.by = c /\ round.name = n
    BY <1>1, <1>3 DEF NoneBeforeLogin
  <2>2. ~ApplyLogoff
    BY <2>1 DEF ApplyLogoff, Acknowledged, LoggingIn
  <2>3. QED
    BY <1>w, <1>1, <2>1, <2>2, LoginsGoOn DEF LoginKinds, LoggingIn
<1>4. CASE sessions[s][n] = c /\ op[c] # op'[c]
  \* Only a client that is not logged in begins to log in.
  <2>1. BeginRequest(c)
    BY <1>w, <1>1, <1>4, RequestsBegin
  <2>2. PICK m \in Names : BeginCreate(c, m) \/ BeginLogin(c, m)
    <3>1. ASSUME NEW m \in Names, NEW what \in {"logoff", "delete", "send"},
                 op' = [op EXCEPT ![c] = what]
          PROVE  FALSE
      BY <1>w, <1>1, <3>1 DEF WorkInv, FailoverTypeOK
    <3>2. QED
      BY <2>1, <3>1 DEF BeginRequest, BeginLogoff, BeginSend, Begin
  <2>3. round = NoRound /\ serving # {} /\ ~LoggedIn(c)
    BY <2>2 DEF BeginCreate, BeginLogin, Begin
  <2>4. Primary \in live
    BY <1>w, <2>3, PrimaryServes DEF WorkInv
  <2>5. sessions[Primary][n] = c
    BY <1>1, <1>4, <2>3, <2>4, NoRoundTyped
       DEF SessionsFollow, InLoginRound, LoginKinds
  <2>6. QED
    BY <2>3, <2>5 DEF LoggedIn
<1>5. QED
  BY <1>2, <1>3, <1>4

LEMMA NextNoneBeforeRemoval ==
    OwnInv /\ [Next]_vars /\ closed' = {} => NoneBeforeRemoval'
<1> SUFFICES ASSUME OwnInv, [Next]_vars, closed' = {},
                    NEW c \in Clients, c \notin adrift',
                    NEW s \in serving', NEW n \in Names,
                    op'[c] = "delete", sessions'[s][n] = c
             PROVE  round'.kind = "logoff" /\ round'.by = c /\ round'.name = n
  BY DEF NoneBeforeRemoval
<1>w. WorkInv /\ WorkInv'
  BY NextWork DEF OwnInv, FollowInv
<1>1. /\ s \in live' /\ s \in live /\ c \notin adrift /\ closed = {}
      /\ OneSession /\ NoneBeforeRemoval
  BY <1>w, Monotone DEF OwnInv, WorkInv, OneServes
<1>2. s \in serving
  BY <1>w, NewPrimariesAreIdle
<1>3. sessions[s][n] = c
  <2>1. SUFFICES ASSUME sessions[s][n] # c
                 PROVE  FALSE
    OBVIOUS
  <2>2. op'[c] = "none"
    BY <1>w, <1>1, <1>2, <2>1, SessionsAreGained
  <2>3. QED
    BY <2>2
<1>4. CASE op[c] = "delete"
  <2>1. round.kind = "logoff" /\ round.by = c /\ round.name = n
    BY <1>1, <1>2, <1>3, <1>4 DEF NoneBeforeRemoval
  <2>2. ~ApplyLogin
    BY <2>1 DEF ApplyLogin, Acknowledged
  <2>3. ~ApplyLogoff
    <3>1. SUFFICES ASSUME ApplyLogoff
                   PROVE  sessions'[s][n] = None
      BY NonesAreDistinct
    <3>2. s = Primary /\ s \in Servers
      BY <1>w, <1>1, <1>2, <3>1, SessionsApplied, SessionsAreTyped
    <3>3. QED
      BY <1>w, <2>1, <3>1, <3>2, SessionsApplied
  <2>4. QED
    BY <1>w, <2>1, <2>2, <2>3, LoginsGoOn DEF LoginKinds
<1>5. CASE op[c] # "delete"
  <2>1. BeginRequest(c)
    BY <1>w, <1>5, RequestsBegin
  <2>2. PICK m \in Names : BeginLogoff(c, "delete", m)
    <3>1. ASSUME NEW what \in {"create", "login", "logoff", "send"},
                 op' = [op EXCEPT ![c] = what]
          PROVE  FALSE
      BY <1>w, <3>1 DEF WorkInv, FailoverTypeOK
    <3>2. QED
      BY <2>1, <3>1
         DEF BeginRequest, BeginCreate, BeginLogin, BeginLogoff, BeginSend,
             Begin
  <2>3. /\ sessions[Primary][m] = c /\ serving # {}
        /\ round'.kind = "logoff" /\ round'.by = c /\ round'.name = m
    BY <2>2 DEF BeginLogoff, Begin, Update
  <2>4. s = Primary
    BY <1>w, <1>2, <2>3, PrimaryServes DEF WorkInv
  <2>5. QED
    BY <1>1, <1>3, <2>3, <2>4 DEF OneSession
<1>6. QED
  BY <1>4, <1>5

\* A server forgets a client when the client has ended, or, if it is the
\* primary, when the client's removal of an account fails.
LEMMA ConnectionsAreLost ==
    ASSUME WorkInv, [Next]_vars, NEW s \in live, NEW c \in registered[s],
           c \notin registered'[s]
    PROVE  \/ HangUp(s, c)
           \/ ApplyRemove /\ c = round.by /\ s \in serving
<1> DEFINE Goal == \/ HangUp(s, c)
                   \/ ApplyRemove /\ c = round.by /\ s \in serving
<1> USE DEF tables, copies
<1>0. registered \in [Servers -> SUBSET Clients] /\ s \in Servers
  BY SessionsAreTyped
<1>1. ASSUME UNCHANGED registered
      PROVE  Goal
  BY <1>1
<1>2. ASSUME NEW p \in Servers, CrashServer(p) \/ BecomePrimary(p)
      PROVE  Goal
  BY <1>1, <1>2 DEF CrashServer, BecomePrimary
<1>3. ASSUME NEW d \in Clients, BeginRequest(d) \/ Continue(d) \/ Close(d)
      PROVE  Goal
  BY <1>1, <1>3, RequestOpens DEF Opens, Close
<1>4. ASSUME NEW p \in Servers, NEW d \in Clients, HangUp(p, d)
      PROVE  Goal
  BY <1>0, <1>4, SessionsHungUp
<1>5. ASSUME NEW r \in Servers, Replicate(r)
      PROVE  Goal
  BY <1>1, <1>5 DEF Replicate
<1>6. ASSUME ApplyCreate \/ ApplyLogin \/ ApplyLogoff
      PROVE  Goal
  BY <1>1, <1>6 DEF ApplyCreate, ApplyLogin, ApplyLogoff
<1>7. ASSUME ApplyRemove
      PROVE  Goal
  <2>1. serving = {Primary}
    BY <1>7, RoundIsTyped DEF ApplyRemove, Acknowledged
  <2>2. \/ UNCHANGED registered
        \/ registered' = [registered EXCEPT ![Primary] = @ \ {round.by}]
    BY <1>7 DEF ApplyRemove
  <2>3. QED
    BY <1>0, <1>7, <2>1, <2>2
<1>8. ASSUME Opens \/ PassesMessages \/ Rests
      PROVE  Goal
  BY <1>1, <1>8 DEF Opens, PassesMessages, Rests
<1>9. Goal
  <2> HIDE DEF Goal
  <2> QED
    BY <1>2, <1>3, <1>4, <1>5, <1>6, <1>7, <1>8, StepsOnCopies
<1>10. QED
  BY <1>9

LEMMA NextSessionsConnected ==
    OwnInv /\ [Next]_vars /\ closed' = {} => Connected'
<1> SUFFICES ASSUME OwnInv, [Next]_vars, closed' = {},
                    NEW s \in live', NEW n \in Names, NEW c,
                    c = sessions'[s][n], c # None, c \notin adrift'
             PROVE  c \in registered'[s]
  BY DEF Connected
<1>w. WorkInv /\ WorkInv'
  BY NextWork DEF OwnInv, FollowInv
<1>1. /\ s \in live /\ s \in Servers /\ c \in Clients /\ c \notin adrift
      /\ closed = {}
      /\ OneSession /\ NoneBeforeRemoval /\ Connected
  <2>1. /\ s \in live /\ s \in Servers /\ c \notin adrift /\ closed = {}
    BY <1>w, Monotone, SessionsAreTyped
  <2>2. sessions' \in [Servers -> [Names -> Clients \cup {None}]]
    BY <1>w DEF WorkInv, FailoverTypeOK
  <2>3. QED
    BY <2>1, <2>2 DEF OwnInv
<1>2. CASE sessions[s][n] # c
  <2>1. /\ LoggingIn /\ round.by = c
        /\ UNCHANGED <<serving, registered, gone>>
    BY <1>w, <1>1, <1>2, SessionsAreGained
  <2>2. c \notin gone
    BY <1>1, <2>1 DEF OwnInv, EndedLoginsAreAdrift
  <2>3. CASE s \in serving
    BY <1>w, <2>1, <2>3 DEF WorkInv, RoundOK, RequestsOK, LoggingIn
  <2>4. CASE s \notin serving
    BY <1>1, <2>1, <2>2, <2>4 DEF OwnInv, ReplicasAreConnected
  <2>5. QED
    BY <2>3, <2>4
<1>3. CASE sessions[s][n] = c
  <2>1. c \in registered[s]
    BY <1>1, <1>3 DEF Connected
  <2>2. ~HangUp(s, c)
    \* It would have ended this session, c's only one.
    BY <1>w, <1>1, <1>3, SessionsHungUp DEF OneSession
  <2>3. ~(ApplyRemove /\ c = round.by /\ s \in serving)
    <3>1. SUFFICES ASSUME ApplyRemove, c = round.by, s \in serving
                   PROVE  FALSE
      OBVIOUS
    <3>2. round.kind = "remove" /\ op[c] = "delete"
      BY <1>w, <3>1 DEF ApplyRemove, Acknowledged, WorkInv, RoundOK
    <3>3. QED
      BY <1>1, <1>3, <3>1, <3>2 DEF NoneBeforeRemoval
  <2>4. QED
    BY <1>w, <1>1, <2>1, <2>2, <2>3, ConnectionsAreLost
<1>4. QED
  BY <1>2, <1>3

LEMMA NextOwn == OwnInv /\ [Next]_vars => OwnInv'
<1> SUFFICES ASSUME OwnInv, [Next]_vars
             PROVE  OwnInv'
  OBVIOUS
<1>1. FollowInv'
  BY NextWork, NextFollowSessions DEF OwnInv, FollowInv
<1>2. ReplicasAreConnected' /\ EndedLoginsAreAdrift'
  BY NextConnected, NextAdrift DEF OwnInv, FollowInv
<1>3. closed' = {} =>
         OneSession' /\ NoneBeforeLogin' /\ NoneBeforeRemoval' /\ Connected'
  BY NextOneSession, NextNoneBeforeLogin, NextNoneBeforeRemoval,
     NextSessionsConnected
<1>4. QED
  BY <1>1, <1>2, <1>3 DEF OwnInv

LEMMA OwnInvariance == Spec => []OwnInv
<1>1. Init /\ FollowInv => OwnInv
  <2> SUFFICES ASSUME Init, FollowInv
               PROVE  OwnInv
    OBVIOUS
  <2>1. \A s \in live, n \in Names : sessions[s][n] = None /\ None \notin Clients
    BY NonesAreDistinct DEF Init, L!Init
  <2>2. /\ round.kind = "none"
        /\ \A s \in live : registered[s] = Clients
    BY NoRoundTyped DEF Init, L!Init
  <2>3. OneSession /\ NoneBeforeLogin /\ Connected
    BY <2>1 DEF OneSession, NoneBeforeLogin, Connected, Sure
  <2>4. NoneBeforeRemoval /\ ReplicasAreConnected /\ EndedLoginsAreAdrift
    BY <2>1, <2>2 DEF Init, L!Init, NoneBeforeRemoval, ReplicasAreConnected,
                      EndedLoginsAreAdrift, LoggingIn
  <2>5. QED
    BY <2>3, <2>4 DEF OwnInv
<1>2. QED
  BY <1>1, FollowInvariance, NextOwn, PTL DEF Spec

\* A session without a connection, which ends the delivery thread of the server
\* that gets to serve, is left only by a client that ended while it was being
\* logged in, or whose session a crash has left on some servers only.
THEOREM SessionsStayConnected == Spec => []SessionsHaveConnections
<1>1. OwnInv => SessionsHaveConnections
  BY DEF OwnInv, Connected, SessionsHaveConnections
<1>2. QED
  BY <1>1, OwnInvariance, PTL

-----------------------------------------------------------------------------
(* What a client was told.  A session is worth something as long as its      *)
(* account is there: so the account is followed from the create or login     *)
(* that is about to use it to the removal that ends it.                      *)

Kept == Names \ (deleted \cup torn)

OneCreate ==
    \A c, d \in Clients : op[c] = "create" /\ op[d] = "create" => c = d

\* A create keeps account_list_lock: no account is removed, and nobody else logs
\* in, until the client it was made for is logged in.
CreatesBlock ==
    \A c \in Clients : op[c] = "create" =>
        /\ round.kind # "remove"
        /\ LoggingIn => round.by = c
        /\ \A s \in serving :
              accounts[s][about[c]] > 0 \/ round.kind = "create"

LoginsHaveAccounts ==
    LoggingIn => \A s \in serving : accounts[s][round.name] > 0

CreatesInv == WorkInv /\ OneCreate /\ CreatesBlock /\ LoginsHaveAccounts

HasAccount ==
    \A s \in live, n \in Kept :
        sessions[s][n] # None =>
            accounts[s][n] > 0 \/ (round.kind = "remove" /\ round.name = n)

DeletesHaveAccounts ==
    \A c \in Clients : op[c] = "delete" /\ about[c] \in Kept =>
        \A s \in serving : accounts[s][about[c]] > 0

CreatedIsFree ==
    \A c \in Clients : op[c] = "create" /\ about[c] \in Kept =>
        \A s \in serving : sessions[s][about[c]] = None

\* The primary is the last one to make the change.
PrimaryIsLast ==
    \A s \in serving :
        /\ LoggingIn /\ round.name \in Kept => sessions[s][round.name] = None
        /\ round.kind = "logoff" => sessions[s][round.name] = round.by

TrustedIsTrue ==
    \A c \in Clients \ (gone \cup unsure), n \in Kept :
        op[c] \in {"none", "send"} /\ told[c] = n =>
            \A s \in live : sessions[s][n] = c

SurviveInv ==
    /\ AccountsInv
    /\ FollowInv
    /\ CreatesInv
    /\ closed = {} =>
          /\ HasAccount /\ DeletesHaveAccounts /\ CreatedIsFree
          /\ PrimaryIsLast /\ TrustedIsTrue

\* Which steps open which rounds.
LEMMA KindsBegin ==
    ASSUME NEW c \in Clients, BeginRequest(c) \/ Continue(c)
    PROVE  /\ round'.kind = "login" =>
                  CreateLogin(c) \/ \E n \in Names : BeginLogin(c, n)
           /\ round'.kind = "logoff" =>
                  \E n \in Names : \/ BeginLogoff(c, "logoff", n)
                                   \/ BeginLogoff(c, "delete", n)
           /\ round'.kind = "remove" => DeleteRemove(c)
<1>1. ASSUME NEW n \in Names, BeginCreate(c, n) \/ BeginSend(c, n)
      PROVE  round'.kind \in {"create", "addmsg"}
  BY <1>1 DEF BeginCreate, BeginSend, Update
<1>2. ASSUME NEW n \in Names,
             BeginLogoff(c, "logoff", n) \/ BeginLogoff(c, "delete", n)
      PROVE  round'.kind = "logoff"
  BY <1>2 DEF BeginLogoff, Update
<1>3. ASSUME CreateLogin(c) \/ \E n \in Names : BeginLogin(c, n)
      PROVE  round'.kind = "login"
  BY <1>3 DEF CreateLogin, BeginLogin, Update
<1>4. ASSUME DeleteRemove(c)
      PROVE  round'.kind = "remove"
  BY <1>4 DEF DeleteRemove, Update
<1>5. QED
  BY <1>1, <1>2, <1>3, <1>4 DEF BeginRequest, Continue

\* How a create and a delete begin.
LEMMA OperationsBegin ==
    ASSUME WorkInv, [Next]_vars, NEW c \in Clients,
           op'[c] # op[c], op'[c] \in {"create", "delete"}
    PROVE  \E n \in Names :
              /\ about'[c] = n
              /\ op'[c] = "create" => BeginCreate(c, n)
              /\ op'[c] = "delete" => BeginLogoff(c, "delete", n)
<1>1. BeginRequest(c)
  BY RequestsBegin
<1>2. /\ op \in [Clients -> {"none", "create", "login", "logoff", "delete",
                             "send"}]
      /\ about \in [Clients -> Names \cup {None}]
  BY DEF WorkInv, FailoverTypeOK
<1>3. ASSUME NEW n \in Names, NEW what, Begin(c, what, n)
      PROVE  op'[c] = what /\ about'[c] = n
  BY <1>2, <1>3 DEF Begin
<1>4. PICK n \in Names :
         \/ BeginCreate(c, n) \/ BeginLogin(c, n)
         \/ BeginLogoff(c, "logoff", n) \/ BeginLogoff(c, "delete", n)
         \/ BeginSend(c, n)
  BY <1>1 DEF BeginRequest
<1>5. /\ BeginCreate(c, n) => op'[c] = "create" /\ about'[c] = n
      /\ BeginLogin(c, n) => op'[c] = "login"
      /\ BeginLogoff(c, "logoff", n) => op'[c] = "logoff"
      /\ BeginLogoff(c, "delete", n) => op'[c] = "delete" /\ about'[c] = n
      /\ BeginSend(c, n) => op'[c] = "send"
  BY <1>3 DEF BeginCreate, BeginLogin, BeginLogoff, BeginSend
<1>6. QED
  BY <1>4, <1>5

LEMMA AboutStays ==
    ASSUME WorkInv, [Next]_vars, NEW c \in Clients,
           op'[c] = op[c], op[c] # "none"
    PROVE  about'[c] = about[c]
<1> USE DEF copies, handlers
<1>0. /\ op \in [Clients -> {"none", "create", "login", "logoff", "delete",
                             "send"}]
      /\ about \in [Clients -> Names \cup {None}]
  BY DEF WorkInv, FailoverTypeOK
<1>1. ASSUME UNCHANGED about
      PROVE  about'[c] = about[c]
  BY <1>1
<1>2. ASSUME NEW d, op' = [op EXCEPT ![d] = "none"],
             about' = [about EXCEPT ![d] = None]
      PROVE  about'[c] = about[c]
  BY <1>0, <1>2
<1>3. ASSUME NEW p \in Servers, CrashServer(p) \/ BecomePrimary(p)
      PROVE  about'[c] = about[c]
  BY <1>3 DEF CrashServer, BecomePrimary
<1>4. ASSUME NEW d \in Clients, BeginRequest(d)
      PROVE  about'[c] = about[c]
  <2>1. op[d] = "none" /\ \E n : about' = [about EXCEPT ![d] = n]
    BY <1>4
       DEF BeginRequest, BeginCreate, BeginLogin, BeginLogoff, BeginSend, Begin
  <2>2. QED
    BY <1>0, <2>1
<1>5. ASSUME NEW d \in Clients, Continue(d) \/ Close(d)
      PROVE  about'[c] = about[c]
  BY <1>5 DEF Continue, CreateLogin, DeleteRemove, Close
<1>6. ASSUME NEW s \in Servers, NEW d \in Clients, HangUp(s, d)
      PROVE  about'[c] = about[c]
  BY <1>6 DEF HangUp
<1>7. ASSUME NEW r \in Servers, Replicate(r)
      PROVE  about'[c] = about[c]
  BY <1>7 DEF Replicate
<1>8. CASE ApplyCreate \/ ApplyLogin \/ ApplyLogoff \/ ApplyRemove
  BY <1>1, <1>2, <1>8
     DEF ApplyCreate, ApplyLogin, ApplyLogoff, ApplyRemove, Respond
<1>9. CASE PassesMessages \/ Rests
  BY <1>1, <1>2, <1>9 DEF PassesMessages, Rests
<1>10. QED
  BY <1>1, <1>3, <1>4, <1>5, <1>6, <1>7, <1>8, <1>9, StepsOnCopies

\* An account that a server had is gone after a removal only: on a replica
\* when the update reaches it, on the primary at the end of the round.
LEMMA AccountsShrink ==
    ASSUME WorkInv, [Next]_vars, NEW s \in live, NEW n \in Names,
           accounts[s][n] > 0, ~(accounts'[s][n] > 0)
    PROVE  /\ round.kind = "remove" /\ round.name = n
           /\ \/ /\ s \notin serving
                 /\ round'.kind = "remove" /\ round'.name = n
              \/ n \in deleted'
<1> DEFINE Goal == /\ round.kind = "remove" /\ round.name = n
                   /\ \/ /\ s \notin serving
                         /\ round'.kind = "remove" /\ round'.name = n
                      \/ n \in deleted'
<1> USE DEF tables, copies
<1>0. /\ accounts \in [Servers -> [Names -> Nat]] /\ s \in Servers
      /\ round \in UpdateType
  BY DEF WorkInv, FailoverTypeOK
<1>1. ASSUME UNCHANGED accounts
      PROVE  Goal
  BY <1>1
<1>2. ASSUME NEW p \in Servers, CrashServer(p) \/ BecomePrimary(p)
      PROVE  Goal
  BY <1>1, <1>2 DEF CrashServer, BecomePrimary
<1>3. ASSUME NEW d \in Clients, BeginRequest(d) \/ Continue(d) \/ Close(d)
      PROVE  Goal
  BY <1>1, <1>3, RequestOpens DEF Opens, Close
<1>4. ASSUME NEW p \in Servers, NEW d \in Clients, HangUp(p, d)
      PROVE  Goal
  BY <1>1, <1>4, SessionsHungUp
<1>5. ASSUME NEW r \in Servers, Replicate(r)
      PROVE  Goal
  <2>1. /\ r \notin serving /\ round'.kind = round.kind
        /\ round'.name = round.name
    BY <1>0, <1>5, NoRoundTyped DEF Replicate, UpdateType, WorkInv, RoundOK
  <2>2. CASE round.kind = "create"
             /\ accounts' = [accounts EXCEPT ![r][round.name] = @ + 1]
    <3>1. accounts'[s][n] \in {accounts[s][n], accounts[s][n] + 1}
      BY <1>0, <2>2
    <3>2. QED
      BY <1>0, <3>1
  <2>3. CASE round.kind = "remove"
             /\ accounts' = [accounts EXCEPT ![r][round.name] = @ - 1]
    <3>1. s = r /\ n = round.name
      BY <1>0, <2>3
    <3>2. QED
      BY <2>1, <2>3, <3>1
  <2>4. QED
    BY <1>1, <1>5, <2>2, <2>3
       DEF Replicate, ProcessUpdateAccounts, ProcessUpdateLogin,
           ProcessUpdateMessages
<1>6. ASSUME ApplyCreate
      PROVE  Goal
  <2>1. accounts'[s][n] \in {accounts[s][n], accounts[s][n] + 1}
    BY <1>0, <1>6 DEF ApplyCreate
  <2>2. QED
    BY <1>0, <2>1
<1>7. ASSUME ApplyLogin \/ ApplyLogoff
      PROVE  Goal
  BY <1>1, <1>7 DEF ApplyLogin, ApplyLogoff
<1>8. ASSUME ApplyRemove
      PROVE  Goal
  <2>1. /\ accounts' = [accounts EXCEPT ![Primary][round.name] = @ - 1]
        /\ deleted' = deleted \cup {round.name}
        /\ round.kind = "remove"
    BY <1>1, <1>8 DEF ApplyRemove, Acknowledged
  <2>2. n = round.name
    BY <1>0, <2>1
  <2>3. QED
    BY <2>1, <2>2
<1>9. ASSUME Opens \/ PassesMessages \/ Rests
      PROVE  Goal
  BY <1>1, <1>9 DEF Opens, PassesMessages, Rests
<1>10. Goal
  <2> HIDE DEF Goal
  <2> QED
    BY <1>2, <1>3, <1>4, <1>5, <1>6, <1>7, <1>8, <1>9, StepsOnCopies
<1>11. QED
  BY <1>10

\* A session ends with its client, or in a round about its account.
LEMMA SessionsAreLost ==
    ASSUME WorkInv, [Next]_vars, closed' = {}, NEW s \in live, NEW n \in Names,
           NEW c \in Clients, sessions[s][n] = c, sessions'[s][n] # c
    PROVE  \/ c \in gone /\ (s \in serving => round.kind \notin LoginKinds)
           \/ InLoginRound(n) /\ (s \notin serving \/ round' = NoRound)
<1> DEFINE Goal ==
    \/ c \in gone /\ (s \in serving => round.kind \notin LoginKinds)
    \/ InLoginRound(n) /\ (s \notin serving \/ round' = NoRound)
<1> USE DEF tables, copies
<1>0. s \in Servers
  BY SessionsAreTyped
<1>1. ASSUME UNCHANGED sessions
      PROVE  Goal
  BY <1>1
<1>2. ASSUME NEW p \in Servers, CrashServer(p) \/ BecomePrimary(p)
      PROVE  Goal
  BY <1>1, <1>2 DEF CrashServer, BecomePrimary
<1>3. ASSUME NEW d \in Clients, BeginRequest(d) \/ Continue(d) \/ Close(d)
      PROVE  Goal
  BY <1>1, <1>3, RequestOpens DEF Opens, Close
<1>4. ASSUME NEW p \in Servers, NEW d \in Clients, HangUp(p, d)
      PROVE  Goal
  BY <1>0, <1>4, SessionsHungUp
<1>5. ASSUME NEW r \in Servers, Replicate(r)
      PROVE  Goal
  BY <1>0, <1>5, SessionsReplicated
<1>6. ASSUME ApplyLogin \/ ApplyLogoff
      PROVE  Goal
  <2>1. s = Primary /\ n = round.name
    BY <1>0, <1>6, SessionsApplied
  <2>2. QED
    BY <1>6, <2>1, SessionsApplied DEF InLoginRound
<1>7. ASSUME ApplyCreate \/ ApplyRemove \/ PassesMessages
      PROVE  Goal
  BY <1>1, <1>7, RoundsEndQuietly
<1>8. ASSUME Opens \/ Rests
      PROVE  Goal
  BY <1>1, <1>8 DEF Opens, Rests
<1>9. Goal
  <2> HIDE DEF Goal
  <2> QED
    BY <1>2, <1>3, <1>4, <1>5, <1>6, <1>7, <1>8, StepsOnCopies
<1>10. QED
  BY <1>9

\* What an idle client knows it was told by the last step, a login of its own,
\* or knew before.
LEMMA NewsOfAccounts ==
    ASSUME WorkInv, [Next]_vars, NEW c \in Clients, c \notin unsure',
           told'[c] # None, op'[c] \in {"none", "send"}
    PROVE  \/ ApplyLogin /\ round.by = c /\ told'[c] = round.name
           \/ told'[c] = told[c] /\ c \notin unsure /\ op[c] \in {"none", "send"}
<1> DEFINE Goal ==
    \/ ApplyLogin /\ round.by = c /\ told'[c] = round.name
    \/ told'[c] = told[c] /\ c \notin unsure /\ op[c] \in {"none", "send"}
<1> USE DEF handlers, histories, copies
<1>0. /\ op \in [Clients -> {"none", "create", "login", "logoff", "delete",
                             "send"}]
      /\ told \in [Clients -> Names \cup {None}]
  BY DEF WorkInv, FailoverTypeOK
<1>1. ASSUME UNCHANGED <<told, unsure, op>>
      PROVE  Goal
  BY <1>1
<1>2. ASSUME NEW p \in Servers, CrashServer(p) \/ BecomePrimary(p)
      PROVE  Goal
  BY <1>0, <1>2 DEF CrashServer, BecomePrimary
<1>3. ASSUME NEW d \in Clients, BeginRequest(d)
      PROVE  Goal
  <2>1. /\ op[d] = "none" /\ \E what : op' = [op EXCEPT ![d] = what]
        /\ UNCHANGED <<told, unsure>>
    BY <1>3
       DEF BeginRequest, BeginCreate, BeginLogin, BeginLogoff, BeginSend, Begin
  <2>2. QED
    BY <1>0, <2>1
<1>4. ASSUME NEW d \in Clients, Continue(d) \/ Close(d)
      PROVE  Goal
  BY <1>1, <1>4 DEF Continue, CreateLogin, DeleteRemove, Close
<1>5. ASSUME NEW s \in Servers, NEW d \in Clients, HangUp(s, d)
      PROVE  Goal
  BY <1>1, <1>5 DEF HangUp
<1>6. ASSUME NEW r \in Servers, Replicate(r)
      PROVE  Goal
  BY <1>1, <1>6 DEF Replicate
<1>7. ASSUME NEW d \in Clients, NEW n, Respond(d, n)
      PROVE  IF c = d THEN told'[c] = n
             ELSE told'[c] = told[c] /\ op'[c] = op[c]
                  /\ (c \in unsure' <=> c \in unsure)
  BY <1>0, <1>7 DEF Respond
<1>8. ASSUME ApplyCreate \/ ApplyLogin \/ ApplyLogoff
      PROVE  Goal
  <2>1. round.by \in Clients
    BY <1>8, RoundIsTyped
       DEF ApplyCreate, ApplyLogin, ApplyLogoff, Acknowledged
  <2>2. CASE ApplyCreate
    BY <1>1, <2>2 DEF ApplyCreate
  <2>3. CASE ApplyLogin
    <3>1. Respond(round.by, round.name)
      BY <2>3 DEF ApplyLogin
    <3>2. QED
      BY <1>7, <2>1, <2>3, <3>1
  <2>4. CASE ApplyLogoff
    <3>1. \/ Respond(round.by, None)
          \/ UNCHANGED <<told, unsure, op>>
      BY <2>4 DEF ApplyLogoff
    <3>2. QED
      BY <1>1, <1>7, <2>1, <3>1
  <2>5. QED
    BY <1>8, <2>2, <2>3, <2>4
<1>9. ASSUME ApplyRemove
      PROVE  Goal
  <2>1. round.by \in Clients
    BY <1>9, RoundIsTyped DEF ApplyRemove, Acknowledged
  <2>2. CASE Respond(round.by, None)
    BY <1>7, <2>1, <2>2
  <2>3. CASE /\ op' = [op EXCEPT ![round.by] = "none"]
             /\ unsure' = unsure \cup {round.by} /\ UNCHANGED told
    BY <1>0, <2>1, <2>3
  <2>4. QED
    BY <1>9, <2>2, <2>3 DEF ApplyRemove
<1>10. ASSUME PassesMessages
       PROVE  Goal
  BY <1>0, <1>10 DEF PassesMessages
<1>11. ASSUME (Opens /\ UNCHANGED <<op, about, adrift>>) \/ Rests
       PROVE  Goal
  BY <1>1, <1>11 DEF Opens, Rests
<1>12. Goal
  <2> HIDE DEF Goal
  <2> QED
    BY <1>2, <1>3, <1>4, <1>5, <1>6, <1>8, <1>9, <1>10, <1>11, StepsOnCopies
<1>13. QED
  BY <1>12

LEMMA NextCreates == CreatesInv /\ [Next]_vars => CreatesInv'
<1> SUFFICES ASSUME CreatesInv, [Next]_vars
             PROVE  CreatesInv'
  OBVIOUS
<1>w. /\ WorkInv /\ WorkInv'
      /\ serving \subseteq live /\ live \subseteq Servers
      /\ OneCreate /\ CreatesBlock /\ LoginsHaveAccounts
  BY NextWork, SessionsAreTyped DEF CreatesInv
<1>o. op \in [Clients -> {"none", "create", "login", "logoff", "delete",
                          "send"}]
  BY <1>w DEF WorkInv, FailoverTypeOK
\* A server that served before has the account still, unless it was removed.
<1>1. ASSUME NEW s \in serving, NEW n \in Names, accounts[s][n] > 0,
             round.kind # "remove"
      PROVE  accounts'[s][n] > 0
  BY <1>w, <1>1, AccountsShrink
<1>2. OneCreate'
  <2>1. SUFFICES ASSUME NEW c \in Clients, NEW d \in Clients, c # d,
                        op'[c] = "create", op'[d] = "create"
                 PROVE  FALSE
    BY DEF OneCreate
  <2>2. ASSUME NEW a \in Clients, NEW b \in Clients, a # b,
               op'[a] = "create", op[a] # "create", op'[b] = "create"
        PROVE  FALSE
    <3>1. PICK n \in Names : BeginCreate(a, n)
      BY <1>w, <2>2, OperationsBegin
    <3>2. op[b] # "create" /\ op' = [op EXCEPT ![a] = "create"]
      BY <3>1 DEF BeginCreate, AccountLockIsFree, Begin
    <3>3. QED
      BY <1>o, <2>2, <3>2
  <2>3. QED
    BY <1>w, <2>1, <2>2 DEF OneCreate
<1>3. CreatesBlock'
  <2>1. SUFFICES ASSUME NEW c \in Clients, op'[c] = "create"
                 PROVE  /\ round'.kind # "remove"
                        /\ round'.kind = "login" => round'.by = c
                        /\ \A s \in serving' :
                              accounts'[s][about'[c]] > 0
                                \/ round'.kind = "create"
    BY DEF CreatesBlock, LoggingIn
  <2>2. CASE op[c] # "create"
    <3>1. PICK n \in Names : BeginCreate(c, n)
      BY <1>w, <2>1, <2>2, OperationsBegin
    <3>2. QED
      BY <3>1 DEF BeginCreate, Update
  <2>3. CASE op[c] = "create"
    <3>1. /\ about'[c] = about[c] /\ about[c] \in Names
          /\ round.kind # "remove" /\ ~AccountLockIsFree
          /\ round.kind = "login" => round.by = c
          /\ \A s \in serving :
                accounts[s][about[c]] > 0 \/ round.kind = "create"
      BY <1>w, <2>1, <2>3, AboutStays
         DEF CreatesBlock, LoggingIn, AccountLockIsFree, WorkInv, RequestsOK
    <3>2. /\ round'.kind # "remove"
          /\ round'.kind = "login" => round'.by = c
      <4>1. SUFFICES ASSUME round'.kind \in {"remove", "login"},
                            ~(round'.kind = round.kind /\ round'.by = round.by)
                     PROVE  round'.kind = "login" /\ round'.by = c
        BY <3>1
      <4>2. PICK d \in Clients : BeginRequest(d) \/ Continue(d)
        BY <1>w, <4>1, RoundsBegin
      <4>3. CreateLogin(d)
        BY <3>1, <4>1, <4>2, KindsBegin DEF BeginLogin, DeleteRemove
      <4>4. round'.kind = "login" /\ round'.by = d /\ op[d] = "create"
        BY <4>3 DEF CreateLogin, Update
      <4>5. QED
        BY <1>w, <2>3, <4>4 DEF OneCreate
    <3>3. ASSUME NEW s \in serving'
          PROVE  accounts'[s][about'[c]] > 0 \/ round'.kind = "create"
      <4>1. s \in serving
        BY <1>w, <2>1, <3>3, NewPrimariesAreIdle
      <4>2. CASE accounts[s][about[c]] > 0
        BY <1>1, <3>1, <4>1, <4>2
      <4>3. CASE round.kind = "create"
        <5>1. \/ round'.kind = "create" \/ ApplyCreate
          <6>1. /\ ~(ApplyLogin \/ ApplyLogoff \/ ApplyRemove)
                /\ ~PassesMessages
            BY <4>3
               DEF ApplyLogin, ApplyLogoff, ApplyRemove, PassesMessages,
                   Acknowledged
          <6>2. QED
            BY <1>w, <2>1, <4>3, <6>1, RoundsGoOn
        <5>2. ASSUME ApplyCreate
              PROVE  accounts'[s][about[c]] > 0
          <6>1. round.by = c /\ round.name = about[c] /\ s = Primary
            BY <1>w, <2>3, <4>1, <4>3, RoundIsTyped
               DEF OneCreate, WorkInv, RoundOK
          <6>2. accounts \in [Servers -> [Names -> Nat]] /\ s \in Servers
            BY <1>w, <4>1 DEF WorkInv, FailoverTypeOK
          <6>3. accounts'[s][about[c]] = accounts[s][about[c]] + 1
            BY <3>1, <5>2, <6>1, <6>2 DEF ApplyCreate
          <6>4. accounts[s][about[c]] \in Nat
            BY <3>1, <6>2
          <6>5. QED
            BY <6>3, <6>4
        <5>3. QED
          BY <3>1, <5>1, <5>2
      <4>4. QED
        BY <3>1, <4>1, <4>2, <4>3
    <3>4. QED
      BY <3>2, <3>3
  <2>4. QED
    BY <2>2, <2>3
<1>4. LoginsHaveAccounts'
  <2>1. SUFFICES ASSUME round'.kind = "login", NEW s \in serving'
                 PROVE  accounts'[s][round'.name] > 0
    BY DEF LoginsHaveAccounts, LoggingIn
  <2>2. s \in serving /\ round'.name \in Names
    BY <1>w, <2>1, NewPrimariesAreIdle DEF WorkInv, RoundOK
  <2>3. CASE round.kind = "login" /\ round'.name = round.name
    BY <1>1, <1>w, <2>2, <2>3 DEF LoginsHaveAccounts, LoggingIn
  <2>4. CASE ~(round.kind = "login" /\ round'.name = round.name)
    <3>1. PICK d \in Clients : Opens /\ (BeginRequest(d) \/ Continue(d))
      BY <1>w, <2>1, <2>4, RoundsBegin
    <3>2. round.kind = "none" /\ UNCHANGED accounts
      BY <3>1, NoRoundTyped DEF Opens, copies
    <3>3. accounts[s][round'.name] > 0
      <4>1. CASE CreateLogin(d)
        BY <1>w, <2>2, <3>2, <4>1 DEF CreateLogin, Update, CreatesBlock
      <4>2. ASSUME NEW n \in Names, BeginLogin(d, n)
            PROVE  accounts[s][round'.name] > 0
        <5>1. accounts[Primary][n] > 0 /\ round'.name = n
          BY <4>2 DEF BeginLogin, Available, Update
        <5>2. s = Primary
          BY <1>w, <2>2, PrimaryServes DEF WorkInv
        <5>3. QED
          BY <5>1, <5>2
      <4>3. QED
        BY <2>1, <3>1, <4>1, <4>2, KindsBegin
    <3>4. QED
      BY <3>2, <3>3
  <2>5. QED
    BY <2>3, <2>4
<1>5. QED
  BY <1>w, <1>2, <1>3, <1>4 DEF CreatesInv

LEMMA NextHasAccount ==
    SurviveInv /\ [Next]_vars /\ closed' = {} => HasAccount'
<1> SUFFICES ASSUME SurviveInv, [Next]_vars, closed' = {},
                    NEW s \in live', NEW n \in Kept', sessions'[s][n] # None
             PROVE  \/ accounts'[s][n] > 0
                    \/ round'.kind = "remove" /\ round'.name = n
  BY DEF HasAccount
<1>w. /\ WorkInv /\ WorkInv' /\ AccountsFollow
      /\ LoginsHaveAccounts
  BY NextWork DEF SurviveInv, AccountsInv, CreatesInv
<1>1. /\ s \in live /\ n \in Kept /\ n \in Names /\ n \notin torn
      /\ n \notin deleted' /\ n \notin torn' /\ closed = {}
      /\ HasAccount /\ DeletesHaveAccounts
  BY <1>w, Monotone DEF SurviveInv, Kept
<1>2. ASSUME accounts[s][n] > 0
      PROVE  \/ accounts'[s][n] > 0
             \/ round'.kind = "remove" /\ round'.name = n
  BY <1>w, <1>1, <1>2, AccountsShrink
<1>3. CASE sessions'[s][n] # sessions[s][n]
  \* A login has got here: its account is on the primary, hence here.
  <2>1. sessions'[s][n] \in Clients
    BY <1>w, <1>1 DEF WorkInv, FailoverTypeOK, OneServes
  <2>2. LoggingIn /\ round.name = n
    BY <1>w, <1>1, <1>3, <2>1, SessionsAreGained
  <2>3. Primary \in serving /\ Primary \in live /\ accounts[Primary][n] > 0
    BY <1>w, <2>2, RoundIsTyped DEF LoginsHaveAccounts, LoggingIn
  <2>4. Before(s, n) = Before(Primary, n)
    BY <1>w, <1>1, <2>3 DEF AccountsFollow
  <2>5. Ahead(s, n) = 0 /\ Ahead(Primary, n) = 0
    BY <2>2 DEF Ahead, LoggingIn
  <2>6. accounts[s][n] \in Nat /\ accounts[Primary][n] \in Nat
    BY <1>w, <1>1, <2>3, AccountsAreNumbers
  <2>7. QED
    BY <1>2, <2>3, <2>4, <2>5, <2>6 DEF Before
<1>4. CASE sessions[s][n] # None /\ ~(accounts[s][n] > 0)
  <2>1. round.kind = "remove" /\ round.name = n
    BY <1>1, <1>4 DEF HasAccount
  <2>2. ~(ApplyCreate \/ ApplyLogin \/ ApplyLogoff \/ PassesMessages)
    BY <2>1
       DEF ApplyCreate, ApplyLogin, ApplyLogoff, PassesMessages, Acknowledged
  <2>3. ~ApplyRemove
    <3>1. SUFFICES ASSUME ApplyRemove
                   PROVE  n \in deleted'
      BY <1>1
    <3>2. /\ op[round.by] = "delete" /\ about[round.by] = n
          /\ round.by \in Clients /\ Primary \in serving
      BY <1>w, <2>1, RoundIsTyped DEF WorkInv, RoundOK
    <3>3. accounts[Primary][n] > 0
      BY <1>1, <3>2 DEF DeletesHaveAccounts
    <3>4. QED
      BY <2>1, <3>1, <3>3 DEF ApplyRemove
  <2>4. n \notin torn'
    BY <1>1
  <2>5. QED
    BY <1>w, <2>1, <2>2, <2>3, <2>4, RoundsGoOn DEF AccountKinds
<1>5. QED
  BY <1>2, <1>3, <1>4

LEMMA NextDeletesHaveAccounts ==
    SurviveInv /\ [Next]_vars /\ closed' = {} => DeletesHaveAccounts'
<1> SUFFICES ASSUME SurviveInv, [Next]_vars, closed' = {},
                    NEW c \in Clients, op'[c] = "delete", about'[c] \in Kept',
                    NEW s \in serving'
             PROVE  accounts'[s][about'[c]] > 0
  BY DEF DeletesHaveAccounts
<1>w. WorkInv
  BY DEF SurviveInv, CreatesInv
<1>1. /\ about'[c] \in Kept /\ about'[c] \in Names /\ about'[c] \notin deleted'
      /\ s \in serving /\ s \in live /\ closed = {}
      /\ HasAccount /\ DeletesHaveAccounts
  BY <1>w, Monotone, NewPrimariesAreIdle, SessionsAreTyped DEF SurviveInv, Kept
<1>2. CASE op[c] = "delete"
  BY <1>w, <1>1, <1>2, AboutStays, AccountsShrink DEF DeletesHaveAccounts
<1>3. CASE op[c] # "delete"
  <2>1. PICK n \in Names : about'[c] = n /\ BeginLogoff(c, "delete", n)
    BY <1>w, <1>3, OperationsBegin
  <2>2. /\ sessions[Primary][n] = c /\ round = NoRound /\ UNCHANGED accounts
    BY <2>1 DEF BeginLogoff, Begin, tables
  <2>3. s = Primary
    BY <1>w, <1>1, PrimaryServes DEF WorkInv
  <2>4. QED
    BY <1>1, <2>1, <2>2, <2>3, NoRoundTyped, NonesAreDistinct DEF HasAccount
<1>4. QED
  BY <1>2, <1>3

LEMMA NextCreatedIsFree ==
    SurviveInv /\ [Next]_vars /\ closed' = {} => CreatedIsFree'
<1> SUFFICES ASSUME SurviveInv, [Next]_vars, closed' = {},
                    NEW c \in Clients, op'[c] = "create", about'[c] \in Kept',
                    NEW s \in serving', sessions'[s][about'[c]] # None
             PROVE  FALSE
  BY DEF CreatedIsFree
<1> DEFINE n == about'[c]
           d == sessions'[s][n]
<1>w. WorkInv /\ WorkInv'
  BY NextWork DEF SurviveInv, CreatesInv
<1>1. /\ n \in Kept /\ n \in Names
      /\ s \in serving /\ s \in live /\ s \in live' /\ closed = {}
      /\ d \in Clients
      /\ HasAccount /\ CreatedIsFree /\ CreatesBlock
  <2>1. /\ n \in Kept /\ n \in Names /\ s \in serving /\ closed = {}
    BY <1>w, Monotone, NewPrimariesAreIdle DEF SurviveInv, Kept
  <2>2. s \in live' /\ sessions' \in [Servers -> [Names -> Clients \cup {None}]]
    BY <1>w DEF WorkInv, OneServes, FailoverTypeOK
  <2>3. s \in live /\ s \in Servers
    BY <1>w, <2>1, SessionsAreTyped
  <2>4. QED
    BY <2>1, <2>2, <2>3 DEF SurviveInv, CreatesInv
<1>2. ASSUME NEW m \in Names, BeginCreate(c, m), m = n
      PROVE  FALSE
  <2>1. /\ accounts[Primary][n] = 0 /\ round = NoRound
        /\ sessions' = sessions
    BY <1>2 DEF BeginCreate, Begin, tables
  <2>2. s = Primary
    BY <1>w, <1>1, PrimaryServes DEF WorkInv
  <2>3. QED
    BY <1>1, <2>1, <2>2, NoRoundTyped DEF HasAccount
<1>3. op[c] = "create" /\ about[c] = n
  BY <1>w, <1>2, OperationsBegin, AboutStays
<1>4. sessions[s][n] = None
  BY <1>1, <1>3 DEF CreatedIsFree
<1>5. LoggingIn /\ round.by = d /\ op'[d] = "none"
  BY <1>w, <1>1, <1>4, SessionsAreGained
<1>6. round.by = c
  BY <1>1, <1>3, <1>5 DEF CreatesBlock
<1>7. QED
  BY <1>5, <1>6

LEMMA NextPrimaryIsLast ==
    SurviveInv /\ [Next]_vars /\ closed' = {} => PrimaryIsLast'
<1> SUFFICES ASSUME SurviveInv, [Next]_vars, closed' = {}, NEW s \in serving'
             PROVE  /\ round'.kind = "login" /\ round'.name \in Kept' =>
                          sessions'[s][round'.name] = None
                    /\ round'.kind = "logoff" =>
                          sessions'[s][round'.name] = round'.by
  BY DEF PrimaryIsLast, LoggingIn
<1> DEFINE n == round'.name
<1>w. WorkInv /\ WorkInv'
  BY NextWork DEF SurviveInv, CreatesInv
<1>s. /\ sessions' \in [Servers -> [Names -> Clients \cup {None}]]
      /\ s \in live' /\ s \in Servers
  BY <1>w DEF WorkInv, OneServes, FailoverTypeOK
<1>1. CASE round'.kind = "login" /\ n \in Kept'
  <2>1. /\ n \in Kept /\ n \in Names
        /\ s \in serving /\ s \in live /\ s = Primary
        /\ CreatedIsFree /\ PrimaryIsLast
    BY <1>w, <1>1, Monotone, NewPrimariesAreIdle, PrimaryServes
       DEF SurviveInv, Kept, WorkInv, OneServes
  <2>2. SUFFICES ASSUME sessions'[s][n] # None
                 PROVE  FALSE
    BY <1>1
  <2>3. sessions'[s][n] \in Clients
    BY <1>s, <2>1, <2>2
  <2>4. sessions'[s][n] = sessions[s][n]
    <3>1. SUFFICES ASSUME sessions'[s][n] # sessions[s][n]
                   PROVE  FALSE
      OBVIOUS
    <3>2. ApplyLogin
      BY <1>w, <1>s, <2>1, <2>3, <3>1, SessionsAreGained
    <3>3. QED
      BY <1>1, <3>2, NoRoundTyped DEF ApplyLogin
  <2>5. CASE round.kind = "login" /\ n = round.name
    BY <2>1, <2>2, <2>4, <2>5 DEF PrimaryIsLast, LoggingIn
  <2>6. CASE ~(round.kind = "login" /\ n = round.name)
    <3>1. PICK d \in Clients : BeginRequest(d) \/ Continue(d)
      BY <1>w, <1>1, <2>6, RoundsBegin
    <3>2. CASE CreateLogin(d)
      BY <2>1, <2>2, <2>4, <3>2 DEF CreateLogin, Update, CreatedIsFree
    <3>3. ASSUME NEW m \in Names, BeginLogin(d, m)
          PROVE  FALSE
      BY <2>1, <2>2, <2>4, <3>3 DEF BeginLogin, Available, Update
    <3>4. QED
      BY <1>1, <3>1, <3>2, <3>3, KindsBegin
  <2>7. QED
    BY <2>5, <2>6
<1>2. CASE round'.kind = "logoff"
  <2>1. /\ n \in Names /\ round'.by \in Clients
        /\ s \in serving /\ s \in live /\ s = Primary
        /\ PrimaryIsLast
    BY <1>w, <1>2, Monotone, NewPrimariesAreIdle, PrimaryServes
       DEF SurviveInv, WorkInv, OneServes, RoundOK
  <2>2. CASE round.kind = "logoff" /\ n = round.name /\ round'.by = round.by
    <3>1. sessions[s][n] = round'.by
      BY <2>1, <2>2 DEF PrimaryIsLast
    <3>2. round' # NoRound
      BY <1>2, NoRoundTyped
    <3>3. QED
      BY <1>w, <1>2, <2>1, <2>2, <3>1, <3>2, SessionsAreLost
         DEF LoginKinds
  <2>3. CASE ~(round.kind = "logoff" /\ n = round.name
                 /\ round'.by = round.by)
    <3>1. PICK d \in Clients : BeginRequest(d) \/ Continue(d)
      BY <1>w, <1>2, <2>3, RoundsBegin
    <3>2. PICK m \in Names : \/ BeginLogoff(d, "logoff", m)
                             \/ BeginLogoff(d, "delete", m)
      BY <1>2, <3>1, KindsBegin
    <3>3. /\ sessions[Primary][m] = d /\ sessions' = sessions
          /\ round'.name = m /\ round'.by = d
      BY <3>2 DEF BeginLogoff, Update, tables
    <3>4. QED
      BY <1>2, <2>1, <3>3
  <2>4. QED
    BY <2>2, <2>3
<1>3. QED
  BY <1>1, <1>2

LEMMA NextTrusted ==
    SurviveInv /\ [Next]_vars /\ closed' = {} => TrustedIsTrue'
<1> SUFFICES ASSUME SurviveInv, [Next]_vars, closed' = {},
                    NEW c \in Clients \ (gone' \cup unsure'), NEW n \in Kept',
                    op'[c] \in {"none", "send"}, told'[c] = n, NEW s \in live'
             PROVE  sessions'[s][n] = c
  BY DEF TrustedIsTrue
<1>w. WorkInv
  BY DEF SurviveInv, CreatesInv
<1>1. /\ c \in Clients /\ c \notin gone /\ n \in Kept /\ n \in Names
      /\ n # None /\ s \in live /\ s \in Servers /\ closed = {}
      /\ ReachedAreTold /\ PrimaryIsLast /\ TrustedIsTrue
  BY <1>w, Monotone, SessionsAreTyped, NonesAreDistinct
     DEF SurviveInv, FollowInv, Kept
<1>2. CASE ApplyLogin /\ round.by = c /\ n = round.name
  <2>1. round.kind = "login"
    BY <1>2 DEF ApplyLogin, Acknowledged
  <2>2. /\ s = Primary \/ Reached(s)
        /\ sessions'[s][n] = IF s = Primary THEN c ELSE sessions[s][n]
    BY <1>w, <1>1, <1>2, <2>1, SessionsApplied
  <2>3. QED
    BY <1>1, <1>2, <2>1, <2>2 DEF ReachedAreTold, LoginKinds
<1>3. CASE told[c] = n /\ c \notin unsure /\ op[c] \in {"none", "send"}
  <2>1. \A t \in live : sessions[t][n] = c
    BY <1>1, <1>3 DEF TrustedIsTrue
  <2>2. ~InLoginRound(n)
    \* A login finds nobody there, a logoff is its owner's.
    <3>1. SUFFICES ASSUME InLoginRound(n)
                   PROVE  FALSE
      OBVIOUS
    <3>2. Primary \in serving /\ sessions[Primary][n] = c
      BY <1>w, <2>1, <3>1, RoundIsTyped, NoRoundTyped
         DEF InLoginRound, LoginKinds
    <3>3. round.kind # "login"
      BY <1>1, <3>1, <3>2, NonesAreDistinct
         DEF PrimaryIsLast, InLoginRound, LoggingIn
    <3>4. round.by = c /\ round.kind = "logoff"
      BY <1>1, <3>1, <3>2, <3>3
         DEF PrimaryIsLast, InLoginRound, LoginKinds
    <3>5. QED
      BY <1>w, <1>3, <3>4 DEF WorkInv, RoundOK
  <2>3. QED
    BY <1>w, <1>1, <2>1, <2>2, SessionsAreLost
<1>4. QED
  BY <1>w, <1>1, <1>2, <1>3, NewsOfAccounts

LEMMA NextSurvive == SurviveInv /\ [Next]_vars => SurviveInv'
<1> SUFFICES ASSUME SurviveInv, [Next]_vars
             PROVE  SurviveInv'
  OBVIOUS
<1>1. AccountsInv' /\ FollowInv' /\ CreatesInv'
  BY NextWork, NextFollowAccounts, NextFollowSessions, NextCreates
     DEF SurviveInv, AccountsInv, FollowInv
<1>2. closed' = {} =>
         /\ HasAccount' /\ DeletesHaveAccounts' /\ CreatedIsFree'
         /\ PrimaryIsLast' /\ TrustedIsTrue'
  BY NextHasAccount, NextDeletesHaveAccounts, NextCreatedIsFree,
     NextPrimaryIsLast, NextTrusted
<1>3. QED
  BY <1>1, <1>2 DEF SurviveInv

LEMMA SurviveInvariance == Spec => []SurviveInv
<1>1. Init /\ AccountsInv /\ FollowInv => SurviveInv
  <2> SUFFICES ASSUME Init, AccountsInv, FollowInv
               PROVE  SurviveInv
    OBVIOUS
  <2>1. /\ round.kind = "none" /\ serving = {} /\ live \subseteq Servers
        /\ \A c \in Clients : op[c] = "none" /\ told[c] = None
        /\ \A s \in live, n \in Names : sessions[s][n] = None
    BY NoRoundTyped DEF Init, L!Init
  <2>2. CreatesInv
    BY <2>1
       DEF CreatesInv, OneCreate, CreatesBlock, LoginsHaveAccounts, LoggingIn,
           AccountsInv
  <2>3. HasAccount /\ DeletesHaveAccounts /\ CreatedIsFree /\ PrimaryIsLast
    BY <2>1
       DEF HasAccount, DeletesHaveAccounts, CreatedIsFree, PrimaryIsLast, Kept
  <2>4. TrustedIsTrue
    BY <2>1, NonesAreDistinct DEF TrustedIsTrue, Kept
  <2>5. QED
    BY <2>2, <2>3, <2>4 DEF SurviveInv
<1>2. QED
  BY <1>1, AccountsInvariance, FollowInvariance, NextSurvive, PTL DEF Spec

\* A client that was told it is logged in to n keeps n on every server that is
\* left, however many primaries crash and wherever in their rounds: unless n is
\* deleted, or a crash has cut n's creation or removal.
THEOREM SessionsOutliveCrashes == Spec => []SessionsSurvive
<1>1. SurviveInv => SessionsSurvive
  BY DEF SurviveInv, TrustedIsTrue, SessionsSurvive, Kept
<1>2. QED
  BY <1>1, SurviveInvariance, PTL

=============================================================================
