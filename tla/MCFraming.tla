----------------------------- MODULE MCFraming ------------------------------
(* A small instance of Framing for TLC.                                     *)
EXTENDS Framing

\* Two whole messages of each thread, and a fragment of one.
SomeMessages ==
    {<<Byte(s, b[1], 2, b[2])>> : s \in Senders, b \in {<<0, 1>>, <<1, 1>>, <<0, 2>>}}

\* IdsOf selects the whole messages of a thread, here from every sequence of up
\* to 4 messages.
ASSUME IdsOfSelects ==
    \A n \in 0 .. 4 : \A messages \in [1 .. n -> SomeMessages], s \in Senders :
        LET own == SelectSeq(messages, LAMBDA m : m[1].op = s /\ IsWhole(m))
        IN  IdsOf(messages, s) = [i \in DOMAIN own |-> own[i][1].id]
=============================================================================
