------------------------------ MODULE Channel -------------------------------
(***************************************************************************)
(* What the wire protocol promises the threads that write to one           *)
(* connection: their messages arrive whole and once, those of each thread  *)
(* in its order, until the connection is given up.                         *)
(***************************************************************************)
EXTENDS Naturals, Sequences

CONSTANTS Senders, Messages

VARIABLES
    sent,     \* sent[s]: the messages s has begun to send
    received, \* received[s]: those of them that were handed to the reader
    open      \* the reader goes on reading

Init ==
    /\ sent = [s \in Senders |-> <<>>]
    /\ received = [s \in Senders |-> <<>>]
    /\ open = TRUE

Send(s, m) ==
    /\ sent' = [sent EXCEPT ![s] = Append(@, m)]
    /\ UNCHANGED <<received, open>>

Receive(s) ==
    /\ open
    /\ Len(received[s]) < Len(sent[s])
    /\ received' = [received EXCEPT
                      ![s] = Append(@, sent[s][Len(received[s]) + 1])]
    /\ UNCHANGED <<sent, open>>

GiveUp ==
    /\ open' = FALSE
    /\ UNCHANGED <<sent, received>>

Next ==
    \/ \E s \in Senders : Receive(s) \/ \E m \in Messages : Send(s, m)
    \/ GiveUp

Spec == Init /\ [][Next]_<<sent, received, open>>

=============================================================================
