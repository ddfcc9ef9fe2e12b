------------------------------ MODULE PutTake -------------------------------
(***************************************************************************)
(* What queue.h and stack.h promise: data are put in and taken out; a      *)
(* queue hands out the oldest, a stack the youngest.                       *)
(***************************************************************************)
EXTENDS Sequences

CONSTANTS Datum, Nothing

VARIABLES youngestFirst,   \* a stack, or a queue
          held,            \* the data inside, the next one to be taken first
          taken            \* what the last Take gave

pvars == <<youngestFirst, held, taken>>

Init == youngestFirst \in BOOLEAN /\ held = << >> /\ taken = Nothing

Put(v) ==
    /\ held' = IF youngestFirst THEN <<v>> \o held ELSE Append(held, v)
    /\ UNCHANGED <<youngestFirst, taken>>

Take ==
    /\ held # << >>
    /\ taken' = Head(held)
    /\ held' = Tail(held)
    /\ UNCHANGED youngestFirst

TakeNothing ==
    /\ held = << >>
    /\ taken' = Nothing
    /\ UNCHANGED <<youngestFirst, held>>

Next == Take \/ TakeNothing \/ \E v \in Datum : Put(v)

Spec == Init /\ [][Next]_pvars
=============================================================================
