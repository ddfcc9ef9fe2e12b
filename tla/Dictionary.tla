----------------------------- MODULE Dictionary -----------------------------
(***************************************************************************)
(* What a hash map promises: a partial function from keys to values.       *)
(* Every operation is one step that leaves its result in `answer`.         *)
(***************************************************************************)
EXTENDS Integers, FiniteSets, Functions

CONSTANTS Key, Val, Nothing

VARIABLES dict,    \* a function whose domain is the set of keys present
          answer   \* what the last operation returned

dvars == <<dict, answer>>

Present(k) == k \in DOMAIN dict

Init == dict = [k \in {} |-> Nothing] /\ answer = Nothing

Put(k, v) ==
    /\ dict' = [j \in DOMAIN dict \cup {k} |-> IF j = k THEN v ELSE dict[j]]
    /\ answer' = 0

\* Nothing was stored, and the caller is told so.
Refuse == answer' = -1 /\ UNCHANGED dict

Get(k) ==
    /\ answer' = IF Present(k) THEN dict[k] ELSE Nothing
    /\ UNCHANGED dict

HasKey(k) == answer' = (IF Present(k) THEN 1 ELSE 0) /\ UNCHANGED dict

\* An absent key is refused.
Remove(k) ==
    /\ Present(k)
    /\ dict' = Restrict(dict, DOMAIN dict \ {k})
    /\ answer' = 0

RemoveAbsent(k) == ~Present(k) /\ Refuse

Clear == dict' = Restrict(dict, {}) /\ answer' = 0

Size == answer' = Cardinality(DOMAIN dict) /\ UNCHANGED dict
=============================================================================
