---------------------------- MODULE BoundedFifo -----------------------------
(***************************************************************************)
(* What a MyQueue promises: a first-in first-out line with room for        *)
(* Capacity elements.                                                      *)
(***************************************************************************)
EXTENDS Integers, Sequences

CONSTANTS
    Elements,           \* what may be put in
    Capacity            \* how many of them fit

VARIABLES
    items,              \* the line, its head first
    taken               \* the last element taken out; <<>> before the first

fifoVars == <<items, taken>>

Init ==
    /\ items = <<>>
    /\ taken = <<>>

Put(e) ==
    /\ Len(items) < Capacity
    /\ items' = Append(items, e)
    /\ UNCHANGED taken

Take ==
    /\ items # <<>>
    /\ items' = Tail(items)
    /\ taken' = <<Head(items)>>

Next == Take \/ \E e \in Elements : Put(e)

Spec == Init /\ [][Next]_fifoVars
=============================================================================
