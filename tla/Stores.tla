------------------------------- MODULE Stores -------------------------------
(***************************************************************************)
(* The tables of one server that outlive it: src/utils/account_list.py and *)
(* src/utils/undelivered_messages.py, each a table in memory and a log     *)
(* file, changed in this order, one call at a time (account_list_lock and  *)
(* undelivered_msg_lock).  The calls are those of a primary and those of a *)
(* replica, which does what it is sent without looking at the tables.  The *)
(* server can be killed between any two writes and be started again from   *)
(* what the files hold.  The third table, logged_in_accounts.py, empties   *)
(* its file at the start and never reads it.                               *)
(*                                                                         *)
(* A line of a file is written as a whole.  What is written to a truncated *)
(* file reaches it when it is flushed; a kill before that leaves any prefix*)
(* of it.                                                                  *)
(***************************************************************************)
EXTENDS Integers, Sequences, FiniteSets, SequencesExt

CONSTANTS
    Names,     \* account names
    Plain,     \* Plain[n]: n without the spaces around it
    Before,    \* names with a space before them (the client allows one, as
    After,     \* it does after them: it checks username.strip())
    Nobody,    \* the empty name
    Texts,     \* texts of messages
    Trim,      \* Trim[t]: t without the spaces after it
    Empty,     \* the empty text
    MaxCalls,  \* how many calls change a table
    MaxKills   \* how often the server is killed

ASSUME StoresAssumptions ==
    /\ Plain \in [Names -> Names] /\ Nobody \notin Names
    /\ Before \subseteq Names /\ After \subseteq Names
    /\ \A n \in Names : Plain[n] = n <=> n \notin Before \cup After
    /\ \A n \in Names : Plain[Plain[n]] = Plain[n]
    /\ Trim \in [Texts -> Texts] /\ Empty \in Texts /\ Trim[Empty] = Empty
    /\ \A t \in Texts : Trim[Trim[t]] = Trim[t]
    /\ MaxCalls \in Nat /\ MaxKills \in Nat

VARIABLES
    up,          \* the server is running
    accounts,    \* the list of accounts in memory
    accountLog,  \* the names on the lines of its file
    accountCall, \* the call that is changing it
    doubled,     \* names removed while they were in the list twice, which have
                 \* places in the list that the file does not know
    queue,       \* queue[n]: the undelivered messages of n in memory
    messageLog,  \* the lines of its file, with recipient, sender and text
    messageCall, \* the call that is changing it
    calls, kills \* how many there have been

accountVars == <<accounts, accountLog, accountCall, doubled>>
messageVars == <<queue, messageLog, messageCall>>
vars == <<up, accountVars, messageVars, calls, kills>>

\* What a call does next, whom it is about, and the lines it has yet to write.
\* A message call writes the lines of the others first, and then its own; the
\* messages it replaces are kept, for the properties only, until they are gone
\* from the file.
NoCall == [next |-> "none", name |-> Nobody, lines |-> <<>>, own |-> <<>>,
           was |-> <<>>]

Phantom == [from |-> Nobody, text |-> Empty]

Init ==
    /\ up = TRUE
    /\ accounts = <<>> /\ accountLog = <<>> /\ accountCall = NoCall
    /\ doubled = {}
    /\ queue = [n \in Names |-> <<>>] /\ messageLog = <<>>
    /\ messageCall = NoCall
    /\ calls = 0 /\ kills = 0

Call ==
    /\ up
    /\ calls < MaxCalls
    /\ calls' = calls + 1
    /\ UNCHANGED <<up, kills>>

\* The elements of s at the positions in I, in order.  The k-th of them is found
\* by counting, in the place of the recursion of SelectSeq.
Nth(I, k) == CHOOSE i \in I : Cardinality({j \in I : j <= i}) = k

Selected(s, I) == [k \in 1 .. Cardinality(I) |-> s[Nth(I, k)]]

-----------------------------------------------------------------------------
(* AccountList.  The first word of a line is compared with the name.        *)

\* A primary has not found n in its list.  A replica may have it: the create of a
\* primary that failed reached it and not the next primary, which creates n again.
CreateAccount(n) ==
    /\ Call
    /\ accountCall = NoCall
    /\ accounts' = Append(accounts, n)
    /\ accountCall' = [NoCall EXCEPT !.next = "append", !.name = n]
    /\ UNCHANGED <<accountLog, doubled, messageVars>>

AppendAccount ==
    /\ up
    /\ accountCall.next = "append"
    /\ accountLog' = Append(accountLog, accountCall.name)
    /\ accountCall' = NoCall
    /\ UNCHANGED <<up, accounts, doubled, messageVars, calls, kills>>

\* list.remove raises ValueError for a name that is not in the list.  It takes the
\* first of two from the list; the filter below takes both from the file.
RemoveAccount(n) ==
    /\ Call
    /\ accountCall = NoCall
    /\ Contains(accounts, n)
    /\ accounts' = RemoveFirst(accounts, n)
    /\ accountCall' = [NoCall EXCEPT !.next = "truncate", !.name = n]
    /\ doubled' = IF Contains(accounts', n) THEN doubled \cup {n}
                  ELSE doubled \ {n}
    /\ UNCHANGED <<accountLog, messageVars>>

\* Mutant: the filter the wrong way round.
SameAccounts(n) ==
    Selected(accountLog, {i \in DOMAIN accountLog : Plain[accountLog[i]] = n})

OtherAccounts(n) ==
    Selected(accountLog, {i \in DOMAIN accountLog : Plain[accountLog[i]] # n})

TruncateAccounts ==
    /\ up
    /\ accountCall.next = "truncate"
    /\ accountLog' = <<>>
    /\ accountCall' = [accountCall EXCEPT
                         !.next = "flush",
                         !.lines = OtherAccounts(accountCall.name)]
    /\ UNCHANGED <<up, accounts, doubled, messageVars, calls, kills>>

FlushAccounts ==
    /\ up
    /\ accountCall.next = "flush"
    /\ accountLog' = accountCall.lines
    /\ accountCall' = NoCall
    /\ UNCHANGED <<up, accounts, doubled, messageVars, calls, kills>>

-----------------------------------------------------------------------------
(* UndeliveredMessages.                                                     *)

Line(to, msg) == [to |-> to, from |-> msg.from, text |-> msg.text]

\* A primary has found the recipient in its list of accounts; a replica does not
\* look.
AddMessage(to, from, text) ==
    /\ Call
    /\ messageCall = NoCall
    /\ LET msg == [from |-> from, text |-> text]
       IN  /\ queue' = [queue EXCEPT ![to] = Append(@, msg)]
           /\ messageCall' = [NoCall EXCEPT !.next = "append", !.name = to,
                                            !.own = <<Line(to, msg)>>]
    /\ UNCHANGED <<messageLog, accountVars>>

AppendMessage ==
    /\ up
    /\ messageCall.next = "append"
    /\ messageLog' = messageLog \o messageCall.own
    /\ messageCall' = NoCall
    /\ UNCHANGED <<up, queue, accountVars, calls, kills>>

RealAlways(msg) == TRUE \* mutant: what a replica stores for an empty list too

Real(msg) == msg.from # Nobody /\ msg.text # Empty

MessageType == [from : Names \cup {Nobody}, text : Texts]

RealMessages == {msg \in MessageType : Real(msg)}

RealOnes(msgs) == Selected(msgs, {i \in DOMAIN msgs : Real(msgs[i])})

\* What the recipient has refused of its queue, the messages from some one on.
Refused(n) ==
    LET sent == RealOnes(queue[n])
    IN  {SubSeq(sent, k, Len(sent)) : k \in 1 .. Len(sent) + 1}

Preceded(msg, msgs) == <<msg>> \o msgs

\* What a replica is given: what the recipient has refused of the primary's queue,
\* which can have a message before them that this replica was never sent; or what
\* it makes of an empty list.
Given(n) ==
    Refused(n) \cup {<<Phantom>>}
        \cup UNION {{Preceded(msg, msgs) : msgs \in Refused(n)} : msg \in RealMessages}

UpdateMessages(n, msgs) ==
    /\ Call
    /\ messageCall = NoCall
    /\ queue' = [queue EXCEPT ![n] = msgs]
    /\ LET kept == RealOnes(msgs)
       IN  messageCall' = [NoCall EXCEPT !.next = "truncate", !.name = n,
                             !.was = queue[n],
                             !.own = [i \in DOMAIN kept |-> Line(n, kept[i])]]
    /\ UNCHANGED <<messageLog, accountVars>>

\* The positions of the lines whose first word is n.
LinesTo(log, n) == {i \in DOMAIN log : Plain[log[i].to] = n}

\* Mutants: the filter the wrong way round, or left out.
SameMessages(n) == Selected(messageLog, LinesTo(messageLog, n))
AllMessages(n)  == messageLog

OtherMessages(n) ==
    Selected(messageLog, DOMAIN messageLog \ LinesTo(messageLog, n))

TruncateMessages ==
    /\ up
    /\ messageCall.next = "truncate"
    /\ messageLog' = <<>>
    /\ messageCall' = [messageCall EXCEPT
                         !.next = "flush", !.was = <<>>,
                         !.lines = OtherMessages(messageCall.name)]
    /\ UNCHANGED <<up, queue, accountVars, calls, kills>>

FlushMessages ==
    /\ up
    /\ messageCall.next = "flush"
    /\ messageLog' = messageCall.lines
    /\ messageCall' = IF messageCall.own = <<>> THEN NoCall
                      ELSE [messageCall EXCEPT !.next = "own", !.lines = <<>>]
    /\ UNCHANGED <<up, queue, accountVars, calls, kills>>

\* One of the recipient's messages, each of which is flushed.
WriteMessage ==
    /\ up
    /\ messageCall.next = "own"
    /\ messageLog' = Append(messageLog, Head(messageCall.own))
    /\ messageCall' = IF Len(messageCall.own) = 1 THEN NoCall
                      ELSE [messageCall EXCEPT !.own = Tail(@)]
    /\ UNCHANGED <<up, queue, accountVars, calls, kills>>

-----------------------------------------------------------------------------
(* The server.                                                              *)

\* The tables in memory are gone; they and the calls in progress are kept, for
\* the properties only, until the server is started.
Kill ==
    /\ up
    /\ kills < MaxKills
    /\ kills' = kills + 1
    /\ up' = FALSE
    /\ accountLog' \in IF accountCall.next = "flush"
                       THEN Prefixes(accountCall.lines) ELSE {accountLog}
    /\ messageLog' \in IF messageCall.next = "flush"
                       THEN Prefixes(messageCall.lines) ELSE {messageLog}
    /\ UNCHANGED <<accounts, accountCall, doubled, queue, messageCall, calls>>

\* line.strip().split(' ', 2): a second space in a row makes the second word
\* the empty one, and the rest of the line the text, whatever that is.
Shifted(l) == l.to \in After \/ l.from \in Before

\* There is no third word, and the server ends with ValueError.
TooShort(l) == Trim[l.text] = Empty /\ ~Shifted(l)

Readable == \A i \in DOMAIN messageLog : ~TooShort(messageLog[i])

ReadMessage(l) ==
    IF Shifted(l) THEN Phantom
    ELSE [from |-> Plain[l.from], text |-> Trim[l.text]]

ReadAccounts == [i \in DOMAIN accountLog |-> Plain[accountLog[i]]]

ReadMessages(n) ==
    LET own == Selected(messageLog, LinesTo(messageLog, n))
    IN  [i \in DOMAIN own |-> ReadMessage(own[i])]

Start ==
    /\ ~up
    /\ Readable
    /\ up' = TRUE
    /\ accounts' = ReadAccounts
    /\ queue' = [n \in Names |-> ReadMessages(n)]
    /\ accountCall' = NoCall /\ messageCall' = NoCall
    /\ doubled' = {}
    /\ UNCHANGED <<accountLog, messageLog, calls, kills>>

-----------------------------------------------------------------------------
Next ==
    \/ \E n \in Names : CreateAccount(n) \/ RemoveAccount(n)
    \/ AppendAccount \/ TruncateAccounts \/ FlushAccounts
    \/ \E to, from \in Names, text \in Texts : AddMessage(to, from, text)
    \/ \E n \in Names : \E msgs \in Given(n) : UpdateMessages(n, msgs)
    \/ AppendMessage \/ TruncateMessages \/ FlushMessages \/ WriteMessage
    \/ Kill \/ Start

Spec == Init /\ [][Next]_vars

-----------------------------------------------------------------------------
LineType == [to : Names, from : Names, text : Texts]

Calls(steps, lines) ==
    [next : steps, name : Names \cup {Nobody}, lines : lines,
     own : Seq(LineType), was : Seq(MessageType)]

StoresTypeOK ==
    /\ up \in BOOLEAN
    /\ accounts \in Seq(Names) /\ accountLog \in Seq(Names)
    /\ accountCall \in Calls({"none", "append", "truncate", "flush"},
                             Seq(Names))
    /\ doubled \subseteq Names
    /\ queue \in [Names -> Seq(MessageType)]
    /\ messageLog \in Seq(LineType)
    /\ messageCall \in Calls({"none", "append", "truncate", "flush", "own"},
                             Seq(LineType))
    /\ calls \in 0 .. MaxCalls /\ kills \in 0 .. MaxKills

-----------------------------------------------------------------------------
\* Messages in memory, as the lines of the file give them back.
AsRead(msgs) ==
    LET sent == Selected(msgs, {i \in DOMAIN msgs : msgs[i].from # Nobody})
    IN  [i \in DOMAIN sent |-> [sent[i] EXCEPT !.text = Trim[@]]]

Waiting(n) == AsRead(queue[n])

\* The names of a list that its file has not lost.
Sound(list) == Selected(list, {i \in DOMAIN list : list[i] \notin doubled})

Times(list, n) == Cardinality({i \in DOMAIN list : list[i] = n})

\* Between two calls a file holds what the table in memory does, through any
\* number of calls, kills and starts: nothing is left over, nothing missing,
\* and the order is the same.  A name that was removed while a replica had it
\* twice is in the file less often than in the list, until it is removed from the
\* list altogether or the server is started again; no other name is.
FileMatchesMemory ==
    up => /\ accountCall = NoCall =>
                 /\ Sound(ReadAccounts) = Sound(accounts)
                 /\ \A n \in doubled : Times(ReadAccounts, n) < Times(accounts, n)
          /\ messageCall = NoCall => \A n \in Names : ReadMessages(n) = Waiting(n)

\* What a server has after a start is what it had when it was killed.  A call
\* that was at work is undone or done; one that had truncated the file leaves a
\* prefix of what it was writing, of every recipient's messages.  What the file
\* had lost of the doubled names stays lost.
RestartRestores ==
    [][~up /\ up' =>
         /\ CASE accountCall.next = "none"   -> Sound(accounts') = Sound(accounts)
              [] accountCall.next = "append" ->
                     Sound(accounts') = Sound(Front(accounts))
              [] accountCall.next = "truncate" ->
                     Sound(RemoveFirst(accounts', accountCall.name))
                         = Sound(accounts)
              [] accountCall.next = "flush"  ->
                     IsPrefix(Sound(accounts'), Sound(accounts))
         /\ \A n \in Names :
                LET own == n = messageCall.name
                IN  CASE messageCall.next = "append" /\ own ->
                             queue'[n] = Front(Waiting(n))
                      [] messageCall.next = "truncate" /\ own ->
                             queue'[n] = AsRead(messageCall.was)
                      [] \/ messageCall.next = "flush"
                         \/ messageCall.next = "own" /\ own ->
                             IsPrefix(queue'[n], Waiting(n))
                      [] OTHER -> queue'[n] = Waiting(n)]_vars

Blank(msg) == Trim[msg.text] = Empty

\* A server that cannot be started again has a message without text waiting, or
\* was about to hand one over for good.
OnlyBlanksPreventStart ==
    ~up /\ ~Readable =>
        \/ messageCall.next = "truncate"
        \/ \E n \in Names : \E i \in DOMAIN queue[n] : Blank(queue[n][i])

\* An account that is removed is removed from the file: no server comes back
\* with it.
RemovedFromTheFile ==
    up /\ accountCall = NoCall =>
        \A i \in DOMAIN accountLog : \E j \in DOMAIN accounts :
            Plain[accounts[j]] = Plain[accountLog[i]]

=============================================================================
