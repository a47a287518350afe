------------------------------ MODULE MCStores ------------------------------
(* Small instances of Stores for TLC.                                       *)
EXTENDS Stores, TLC

CONSTANTS x, y, x_, hi, blank, none

\* Two names without spaces around them; x and "x ".
PlainNames  == [n \in {x, y} |-> n]
PaddedNames == [n \in {x, x_} |-> x]

\* A text, a text of one space, and the empty one.
TrimTexts == [t \in {hi, blank, none} |-> IF t = hi THEN hi ELSE none]

\* Selected is SelectSeq, here for every sequence of up to 5 names and every
\* set of them.
ASSUME SelectedSelects ==
    \A m \in 0 .. 5 : \A s \in [1 .. m -> Names], S \in SUBSET Names :
        Selected(s, {i \in 1 .. m : s[i] \in S})
            = SelectSeq(s, LAMBDA n : n \in S)
=============================================================================
