----------------------------- MODULE Leadership -----------------------------
(***************************************************************************)
(* What the servers promise together: of the servers that still run, at    *)
(* most one at a time delivers messages, it is the one with the lowest id, *)
(* and it goes on until it crashes.                                        *)
(***************************************************************************)
EXTENDS Integers

CONSTANT Servers \* the ids in the config file

VARIABLES
    live,    \* the servers that have not crashed
    serving  \* those whose message delivery thread runs

Init == live = Servers /\ serving = {}

Crash(s) ==
    /\ s \in live
    /\ live' = live \ {s}
    /\ serving' = serving \ {s}

Serve(s) ==
    /\ s \in live
    /\ \A t \in live : s <= t
    /\ serving = {}
    /\ serving' = {s}
    /\ UNCHANGED live

Next == \E s \in Servers : Crash(s) \/ Serve(s)

Spec == Init /\ [][Next]_<<live, serving>>

=============================================================================
