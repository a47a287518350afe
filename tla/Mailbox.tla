------------------------------ MODULE Mailbox -------------------------------
(***************************************************************************)
(* What the chat service promises about messages: each one accepted for an *)
(* account waits there, and the ones that wait are handed over in the      *)
(* order in which they were accepted.  Nothing that waits is forgotten, as *)
(* long as the service is intact.                                          *)
(***************************************************************************)
EXTENDS Naturals, Sequences

CONSTANTS Names, Messages

VARIABLES
    accepted, \* the messages accepted for each name, in order
    waiting,  \* the positions in it of those that are not yet handed over
    intact    \* the promise holds

Init ==
    /\ accepted = [n \in Names |-> <<>>]
    /\ waiting = [n \in Names |-> {}]
    /\ intact = TRUE

Accept(n, m) ==
    /\ accepted' = [accepted EXCEPT ![n] = Append(@, m)]
    /\ waiting' = [waiting EXCEPT ![n] = @ \cup {Len(accepted[n]) + 1}]
    /\ UNCHANGED intact

HandOver(n) ==
    \E first \in waiting[n] :
        /\ \A i \in waiting[n] : first <= i
        /\ waiting' = [waiting EXCEPT ![n] = @ \ {first}]
        /\ UNCHANGED <<accepted, intact>>

\* From now on nothing is promised.
Lapse == intact' = FALSE

Next ==
    \/ \E n \in Names : HandOver(n) \/ \E m \in Messages : Accept(n, m)
    \/ Lapse

Spec == Init /\ [][Next]_<<accepted, waiting, intact>>

=============================================================================
