------------------------------ MODULE HashMap -------------------------------
(***************************************************************************)
(* hash_map.cpp: a table of linked lists, chosen by the hash code of the   *)
(* key.  The lists are the sequences that LinkedList shows them to be.     *)
(*                                                                         *)
(* The hash function and the capacity are arguments of the constructor:    *)
(* the model starts with any of them.  hashCode returns an int, so it may  *)
(* be negative, and % of C truncates towards zero.                         *)
(*                                                                         *)
(* The caller calls init() once before anything else, as the constructor   *)
(* leaves the capacity 0.  The mallocs for a key or a value are assumed to *)
(* succeed: the code copies into them without a test.                      *)
(***************************************************************************)
EXTENDS Integers, Sequences, SequencesExt

CONSTANTS
    Key, Val,
    Codes,       \* the values of hashCode
    Capacities,  \* capacities the map is made with
    MaxFail,     \* bound: list nodes that cannot be allocated
    Null         \* the NULL pointer

ASSUME HashMapAssumption ==
    /\ Codes \subseteq Int /\ Capacities \subseteq Nat \ {0}
    /\ MaxFail \in Nat

VARIABLES
    hashCode,    \* the function passed to the constructor
    capacity,
    size,
    entryList,   \* the table: a sequence of entries for each index
    stage,       \* "new", "ready", "broken" or "gone"
    blocks,      \* blocks allocated for keys and values and not freed
    failed,      \* insertions that found no memory for a list node
    op,          \* the operation that was called last, with its arguments
    answer       \* what it returned

mapVars == <<size, entryList, blocks>>
vars == <<hashCode, capacity, size, entryList, stage, blocks, failed, op, answer>>

-----------------------------------------------------------------------------

\* The remainder of C: the sign is that of the dividend.
CMod(a, b) == IF a >= 0 THEN a % b ELSE -((-a) % b)

\* Mutant of EntryIndex: a negative remainder is left as it is.
EntryIndexTruncated(k) == CMod(hashCode[k], capacity)

EntryIndex(k) ==
    LET i == CMod(hashCode[k], capacity)
    IN  IF i < 0 THEN i + capacity ELSE i

Bucket(k) == entryList[EntryIndex(k)]

\* Mutant of Found: equal is asked of the wrong argument and never matches.
FoundNever(k) == 0

\* Where llist_find and llist_delet find the key in its list, or 0.
Found(k) ==
    LET places == {j \in DOMAIN Bucket(k) : Bucket(k)[j].key = k}
    IN  IF places = {} THEN 0 ELSE Min(places)

Ready(call) == stage = "ready" /\ op' = call

-----------------------------------------------------------------------------
(* init() and the destructor                                               *)

InitCall ==
    /\ stage = "new"
    /\ op' = <<"init">>
    /\ UNCHANGED <<hashCode, capacity, size, blocks, failed>>

InitMap ==
    /\ InitCall
    /\ entryList' = [i \in 0 .. capacity - 1 |-> << >>]
    /\ stage' = "ready" /\ answer' = 0

\* A list cannot be created: -1, and the rest of the table stays
\* uninitialized.  Nothing may be called after that, not even the destructor.
InitFails ==
    /\ InitCall
    /\ \E i \in 0 .. capacity - 1 : entryList' = [j \in 0 .. i - 1 |-> << >>]
    /\ stage' = "broken" /\ answer' = -1

\* What the loops over the table add up.
Total(n) ==
    LET upto[i \in 0 .. capacity] == IF i = 0 THEN 0 ELSE upto[i - 1] + n[i - 1]
    IN  upto[capacity]

\* Mutant of Owned: node_destroy frees the key only.
OwnedKeyOnly(s) == Len(s)

\* The blocks node_destroy frees for the entries of a list.
Owned(s) == 2 * Len(s)

OwnedByAll == Total([i \in DOMAIN entryList |-> Owned(entryList[i])])

Destruct ==
    /\ Ready(<<"destroy">>)
    /\ stage' = "gone"
    /\ blocks' = blocks - OwnedByAll
    /\ entryList' = << >>
    /\ UNCHANGED <<hashCode, capacity, size, failed, answer>>

-----------------------------------------------------------------------------
(* insert, find, has_key, erase, clear, get_size                           *)

\* insert of a key that is new: the entry goes to the end of its list.
InsertNew(k, v) ==
    /\ Ready(<<"insert", k, v>>) /\ Found(k) = 0
    /\ entryList' = [entryList EXCEPT
                        ![EntryIndex(k)] = Append(@, [key |-> k, value |-> v])]
    /\ blocks' = blocks + 2
    /\ size' = size + 1
    /\ answer' = 0
    /\ UNCHANGED <<hashCode, capacity, stage, failed>>

\* llist_insert fails: -1, and the copies of key and value are not freed.
InsertFails(k, v) ==
    /\ Ready(<<"insert", k, v>>) /\ Found(k) = 0
    /\ failed < MaxFail
    /\ failed' = failed + 1
    /\ blocks' = blocks + 2
    /\ answer' = -1
    /\ UNCHANGED <<hashCode, capacity, stage, size, entryList>>

\* insert of a key that is there: the old value is freed.
Replace(k, v) ==
    /\ Ready(<<"insert", k, v>>) /\ Found(k) # 0
    /\ entryList' = [entryList EXCEPT ![EntryIndex(k)][Found(k)].value = v]
    /\ answer' = 0
    /\ UNCHANGED <<hashCode, capacity, stage, size, blocks, failed>>

\* key or value is NULL.
InsertNull ==
    /\ Ready(<<"insert_null">>)
    /\ answer' = -1
    /\ UNCHANGED <<hashCode, capacity, stage, mapVars, failed>>

Find(k) ==
    /\ Ready(<<"find", k>>)
    /\ answer' = IF Found(k) = 0 THEN Null ELSE Bucket(k)[Found(k)].value
    /\ UNCHANGED <<hashCode, capacity, stage, mapVars, failed>>

HasKey(k) ==
    /\ Ready(<<"has_key", k>>)
    /\ answer' = IF Found(k) = 0 THEN 0 ELSE 1
    /\ UNCHANGED <<hashCode, capacity, stage, mapVars, failed>>

SizeErased(ret) == IF ret = 0 THEN size - 1 ELSE size

Erase(k) ==
    /\ Ready(<<"erase", k>>) /\ Found(k) # 0
    /\ entryList' = [entryList EXCEPT ![EntryIndex(k)] = RemoveAt(@, Found(k))]
    /\ blocks' = blocks - Owned(<<Bucket(k)[Found(k)]>>)
    /\ size' = SizeErased(0)
    /\ answer' = 0
    /\ UNCHANGED <<hashCode, capacity, stage, failed>>

EraseAbsent(k) ==
    /\ Ready(<<"erase", k>>) /\ Found(k) = 0
    /\ size' = SizeErased(-1)
    /\ answer' = -1
    /\ UNCHANGED <<hashCode, capacity, stage, entryList, blocks, failed>>

\* Mutant of Cleared: only the last list is counted.
ClearedLast == Len(entryList[capacity - 1])

\* The sum of what llist_clear returns for each list.
Cleared == Total([i \in DOMAIN entryList |-> Len(entryList[i])])

Clear ==
    /\ Ready(<<"clear">>)
    /\ size' = size - Cleared
    /\ blocks' = blocks - OwnedByAll
    /\ entryList' = [i \in DOMAIN entryList |-> << >>]
    /\ answer' = 0
    /\ UNCHANGED <<hashCode, capacity, stage, failed>>

GetSize ==
    /\ Ready(<<"get_size">>)
    /\ answer' = size
    /\ UNCHANGED <<hashCode, capacity, stage, mapVars, failed>>

Init ==
    /\ hashCode \in [Key -> Codes]
    /\ capacity \in Capacities
    /\ size = 0 /\ blocks = 0 /\ failed = 0
    /\ entryList = << >>
    /\ stage = "new"
    /\ op = <<"new">> /\ answer = Null

Next ==
    \/ InitMap \/ InitFails \/ Destruct
    \/ InsertNull \/ Clear \/ GetSize
    \/ \E k \in Key :
          \/ \E v \in Val : InsertNew(k, v) \/ Replace(k, v) \/ InsertFails(k, v)
          \/ Find(k) \/ HasKey(k) \/ Erase(k) \/ EraseAbsent(k)

Spec == Init /\ [][Next]_vars

-----------------------------------------------------------------------------
(* Properties                                                              *)

Entries(i) == {entryList[i][j] : j \in DOMAIN entryList[i]}
Stored == UNION {Entries(i) : i \in DOMAIN entryList}

\* Every hash code, negative ones too, leads to a list of the table, and a
\* key is stored at most once in the whole table, where the next call looks
\* for it (hash_map.cpp:74-81).
OneHome ==
    /\ stage = "ready" => \A k \in Key : EntryIndex(k) \in DOMAIN entryList
    /\ \A i \in DOMAIN entryList :
          /\ IsInjective([j \in DOMAIN entryList[i] |-> entryList[i][j].key])
          /\ \A e \in Entries(i) : i = EntryIndex(e.key)

\* Every block is freed exactly when its entry goes: what is allocated is
\* the key and the value of each entry, and what failed insertions left
\* behind (hash_map.cpp:88-95, 100, 150, 162).
HeapBalanced ==
    stage # "broken" => blocks = 2 * (Cardinality(Stored) + failed)

\* The dictionary that the entries stand for.
Mapping(entries) == [k \in {e.key : e \in entries} |->
                        (CHOOSE e \in entries : e.key = k).value]

Abstract == INSTANCE Dictionary WITH Nothing <- Null, dict <- Mapping(Stored)

\* The step a dictionary makes for a call.
Promise(call) ==
    /\ call[1] = "insert" => IF answer' = 0 THEN Abstract!Put(call[2], call[3])
                                            ELSE Abstract!Refuse
    /\ call[1] = "insert_null" => Abstract!Refuse
    /\ call[1] = "find"     => Abstract!Get(call[2])
    /\ call[1] = "has_key"  => Abstract!HasKey(call[2])
    /\ call[1] = "erase"    => Abstract!Remove(call[2]) \/ Abstract!RemoveAbsent(call[2])
    /\ call[1] = "clear"    => Abstract!Clear
    /\ call[1] = "get_size" => Abstract!Size

\* Each operation changes the map, and answers, as a partial function would,
\* whatever the hash codes and the capacity: size counts the keys, keys with
\* the same index do not disturb each other, and a refused insertion leaves
\* the map as it was.
MapSteps == [][Promise(op')]_vars
=============================================================================
