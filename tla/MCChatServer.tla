---------------------------- MODULE MCChatServer ----------------------------
(* Small instances of ChatServer for TLC.                                   *)
EXTENDS ChatServer, TLC

CONSTANTS a, b, x, y, hi, r1

EveryOp == AllOps
NoMessages == AllOps \ {"send", "list"}
CreateLogin == {"create", "login"}
AccountOps == {"create", "login", "delete"}
SendOps == {"create", "send", "quit"}
LiveOps == AllOps \ {"login", "quit"}

\* The clients are interchangeable, and so are the names: both are model
\* values, and an instance starts with all of the names or with none.
Symmetry == Permutations(Clients) \cup Permutations(Names)

\* RealPart is SelectSeq(_, Real), here on every sequence of up to 4 messages.
ASSUME RealPartSelects ==
    \A n \in 0 .. 4 : \A msgs \in [1 .. n -> Message] :
        RealPart(msgs) = SelectSeq(msgs, Real)
=============================================================================
