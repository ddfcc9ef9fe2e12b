--------------------------- MODULE HashMapProofs ----------------------------
(***************************************************************************)
(* Proofs about HashMap, for any keys, values, hash function and capacity. *)
(*                                                                         *)
(* The invariant names the entries of the table as one set: no two of them *)
(* have the same key, each is in the list its key leads to, and size and   *)
(* blocks count them.  The loops of clear and of the destructor add up the *)
(* lengths of the lists; that this is the size of the set is shown one     *)
(* index after the other.                                                  *)
(***************************************************************************)
EXTENDS HashMap, DataLemmas

Entry == [key : Key, value : Val]

\* The entries are in the lists their keys lead to, one for a key.
Homes ==
    /\ \A i \in 0 .. capacity - 1 : \A j \in DOMAIN entryList[i] :
          EntryIndex(entryList[i][j].key) = i
    /\ \A i \in 0 .. capacity - 1 : \A j, l \in DOMAIN entryList[i] :
          entryList[i][j].key = entryList[i][l].key => j = l

Table ==
    /\ entryList \in [0 .. capacity - 1 -> Seq(Entry)]
    /\ IsFiniteSet(Stored)
    /\ Homes

IInv ==
    /\ hashCode \in [Key -> Int]
    /\ capacity \in Nat \ {0}
    /\ stage \in {"new", "ready", "broken", "gone"}
    /\ failed \in Nat
    /\ stage = "ready" =>
          /\ Table
          /\ size = Cardinality(Stored)
          /\ blocks = 2 * (Cardinality(Stored) + failed)
    /\ stage = "new" => entryList = << >> /\ size = 0 /\ blocks = 0 /\ failed = 0
    /\ stage = "gone" => entryList = << >> /\ blocks = 2 * failed
    /\ stage = "broken" => \A i \in DOMAIN entryList : entryList[i] = << >>

-----------------------------------------------------------------------------
(* The index of a key                                                      *)

\* Whatever the sign of the hash code, the index is one of the table's.
LEMMA IndexInTable ==
  ASSUME NEW k \in Key, hashCode \in [Key -> Int], capacity \in Nat \ {0}
  PROVE  EntryIndex(k) \in 0 .. capacity - 1
  <1>1. PICK h \in Int : h = hashCode[k]
    OBVIOUS
  <1>2. PICK c \in Nat \ {0} : c = capacity
    OBVIOUS
  <1>3. CASE h >= 0
    <2>1. h % c \in 0 .. c - 1
      BY <1>1, <1>2, <1>3
    <2>2. CMod(h, c) = h % c
      BY <1>3 DEF CMod
    <2> QED
      BY <1>1, <1>2, <2>1, <2>2 DEF EntryIndex
  <1>4. CASE ~(h >= 0)
    <2>1. -h \in Nat
      BY <1>1, <1>4
    <2>2. (-h) % c \in 0 .. c - 1
      BY <1>2, <2>1
    <2>3. CMod(h, c) = -((-h) % c)
      BY <1>4 DEF CMod
    <2> QED
      BY <1>1, <1>2, <2>2, <2>3 DEF EntryIndex
  <1> QED
    BY <1>3, <1>4

\* The list of a key.
LEMMA BucketIs ==
  ASSUME IInv, Table, NEW k \in Key
  PROVE  /\ EntryIndex(k) \in 0 .. capacity - 1
         /\ Bucket(k) = entryList[EntryIndex(k)]
         /\ Bucket(k) \in Seq(Entry) /\ Len(Bucket(k)) \in Nat
         /\ DOMAIN Bucket(k) = 1 .. Len(Bucket(k))
  <1>1. EntryIndex(k) \in 0 .. capacity - 1
    BY IndexInTable DEF IInv
  <1>2. Bucket(k) \in Seq(Entry)
    BY <1>1 DEF Bucket, Table
  <1> QED
    BY <1>1, <1>2, LenProperties DEF Bucket

\* What is stored, entry by entry.
LEMMA StoredIs ==
  ASSUME Table
  PROVE  /\ \A e : e \in Stored <=> \E i \in 0 .. capacity - 1 :
                                        \E j \in DOMAIN entryList[i] : e = entryList[i][j]
         /\ Stored \subseteq Entry
  <1>1. DOMAIN entryList = 0 .. capacity - 1
    BY DEF Table
  <1>2. \A e : e \in Stored <=> \E i \in 0 .. capacity - 1 :
                                    \E j \in DOMAIN entryList[i] : e = entryList[i][j]
    BY <1>1 DEF Stored, Entries
  <1>3. ASSUME NEW i \in 0 .. capacity - 1, NEW j \in DOMAIN entryList[i]
        PROVE  entryList[i][j] \in Entry
    <2>1. entryList[i] \in Seq(Entry)
      BY DEF Table
    <2>2. PICK s \in Seq(Entry) : s = entryList[i]
      BY <2>1
    <2>3. j \in 1 .. Len(s)
      BY <1>3, <2>2, LenProperties
    <2> QED
      BY <2>2, <2>3, ElementOfSeq
  <1> QED
    BY <1>2, <1>3

\* Where the key is found, or that it is not stored.
LEMMA FoundIs ==
  ASSUME IInv, Table, NEW k \in Key
  PROVE  /\ Found(k) = 0 => \A e \in Stored : e.key # k
         /\ Found(k) # 0 => /\ Found(k) \in DOMAIN Bucket(k)
                            /\ Bucket(k)[Found(k)].key = k
                            /\ Bucket(k)[Found(k)] \in Stored
  <1> DEFINE places == {j \in DOMAIN Bucket(k) : Bucket(k)[j].key = k}
  <1>1. /\ EntryIndex(k) \in 0 .. capacity - 1 /\ Bucket(k) = entryList[EntryIndex(k)]
        /\ DOMAIN Bucket(k) = 1 .. Len(Bucket(k)) /\ Len(Bucket(k)) \in Nat
    BY BucketIs
  <1>2. Found(k) = IF places = {} THEN 0 ELSE Min(places)
    BY DEF Found
  <1>3. CASE places = {}
    <2>1. ASSUME NEW e \in Stored, e.key = k
          PROVE  FALSE
      <3>1. PICK i \in 0 .. capacity - 1 : \E j \in DOMAIN entryList[i] : e = entryList[i][j]
        BY StoredIs
      <3>2. PICK j \in DOMAIN entryList[i] : e = entryList[i][j]
        BY <3>1
      <3>3. i = EntryIndex(k)
        BY <2>1, <3>1, <3>2 DEF Table, Homes
      <3> QED
        BY <1>1, <1>3, <2>1, <3>2, <3>3
    <2>2. Found(k) = 0
      BY <1>2, <1>3
    <2> QED
      BY <2>1, <2>2
  <1>4. CASE places # {}
    <2>1. places \in SUBSET Nat
      BY <1>1
    <2>2. \E n \in places : \A l \in places : n <= l
      <3> HIDE DEF places
      <3> QED
        BY <1>4, <2>1, LeastNumber
    <2>3. Min(places) \in places
      <3> HIDE DEF places
      <3> QED
        BY <2>2 DEF Min
    <2>4. Found(k) \in places
      BY <1>2, <1>4, <2>3
    <2>5. Found(k) \in DOMAIN Bucket(k) /\ Bucket(k)[Found(k)].key = k /\ Found(k) # 0
      BY <1>1, <2>4
    <2> QED
      BY <1>1, <2>5, StoredIs
  <1> QED
    BY <1>3, <1>4

\* A key is stored once.
LEMMA KeysApart ==
  ASSUME IInv, Table, NEW d \in Stored, NEW e \in Stored, d.key = e.key
  PROVE  d = e
  <1>1. PICK i \in 0 .. capacity - 1 : \E j \in DOMAIN entryList[i] : d = entryList[i][j]
    BY StoredIs
  <1>2. PICK j \in DOMAIN entryList[i] : d = entryList[i][j]
    BY <1>1
  <1>3. PICK m \in 0 .. capacity - 1 : \E l \in DOMAIN entryList[m] : e = entryList[m][l]
    BY StoredIs
  <1>4. PICK l \in DOMAIN entryList[m] : e = entryList[m][l]
    BY <1>3
  <1>5. i = m
    BY <1>2, <1>4 DEF Table, Homes
  <1> QED
    BY <1>2, <1>4, <1>5 DEF Table, Homes

-----------------------------------------------------------------------------
(* Two operations on sequences, place by place                             *)

LEMMA RemoveAtIs ==
  ASSUME NEW S, NEW s \in Seq(S), NEW f \in 1 .. Len(s)
  PROVE  /\ RemoveAt(s, f) \in Seq(S) /\ Len(RemoveAt(s, f)) = Len(s) - 1
         /\ \A j \in 1 .. Len(s) - 1 :
               RemoveAt(s, f)[j] = IF j < f THEN s[j] ELSE s[j + 1]
  <1>1. Len(s) \in Nat /\ f \in Nat /\ \A j \in 1 .. Len(s) : s[j] \in S
    BY LenProperties, ElementOfSeq
  <1>2. PICK a : a = SubSeq(s, 1, f - 1)
    OBVIOUS
  <1>3. PICK b : b = SubSeq(s, f + 1, Len(s))
    OBVIOUS
  <1>4. a \in Seq(S) /\ Len(a) = f - 1 /\ \A j \in 1 .. f - 1 : a[j] = s[j]
    <2>1. \A j \in 1 .. f - 1 : s[j] \in S
      BY <1>1
    <2>2. /\ a \in Seq(S) /\ Len(a) = IF 1 <= f - 1 THEN (f - 1) - 1 + 1 ELSE 0
          /\ \A j \in 1 .. (f - 1) - 1 + 1 : a[j] = s[1 + j - 1]
      BY <1>1, <1>2, <2>1, SubSeqProperties
    <2> QED
      BY <1>1, <2>2
  <1>5. b \in Seq(S) /\ Len(b) = Len(s) - f /\ \A j \in 1 .. Len(s) - f : b[j] = s[f + j]
    <2>1. \A j \in f + 1 .. Len(s) : s[j] \in S
      BY <1>1
    <2>2. /\ b \in Seq(S) /\ Len(b) = IF f + 1 <= Len(s) THEN Len(s) - (f + 1) + 1 ELSE 0
          /\ \A j \in 1 .. Len(s) - (f + 1) + 1 : b[j] = s[(f + 1) + j - 1]
      BY <1>1, <1>3, <2>1, SubSeqProperties
    <2>3. Len(s) - (f + 1) + 1 = Len(s) - f
      BY <1>1
    <2>4. Len(b) = Len(s) - f
      BY <1>1, <2>2
    <2>5. ASSUME NEW j \in 1 .. Len(s) - f
          PROVE  b[j] = s[f + j]
      <3>1. b[j] = s[(f + 1) + j - 1]
        BY <2>2, <2>3
      <3>2. (f + 1) + j - 1 = f + j
        BY <1>1
      <3> QED
        BY <3>1, <3>2, SMTT(30)
    <2> QED
      BY <2>2, <2>4, <2>5
  <1>6. PICK t : t = a \o b
    OBVIOUS
  <1>7. /\ t \in Seq(S) /\ Len(t) = Len(a) + Len(b)
        /\ \A j \in 1 .. Len(a) + Len(b) : t[j] = IF j <= Len(a) THEN a[j] ELSE b[j - Len(a)]
    BY <1>4, <1>5, <1>6, ConcatProperties
  <1>8. Len(t) = Len(s) - 1
    BY <1>1, <1>4, <1>5, <1>7
  <1>9. ASSUME NEW j \in 1 .. Len(s) - 1
        PROVE  t[j] = IF j < f THEN s[j] ELSE s[j + 1]
    <2>1. CASE j < f
      BY <1>1, <1>4, <1>5, <1>7, <2>1
    <2>2. CASE ~(j < f)
      <3>1. t[j] = b[j - (f - 1)]
        <4>1. /\ j \in 1 .. Len(a) + Len(b) /\ ~(j <= Len(a)) /\ j - Len(a) = j - (f - 1)
          BY <1>1, <1>4, <1>5, <2>2
        <4> QED
          BY <1>7, <4>1
      <3>2. j - (f - 1) \in 1 .. Len(s) - f /\ f + (j - (f - 1)) = j + 1
        BY <1>1, <2>2
      <3> QED
        BY <1>5, <2>2, <3>1, <3>2
    <2> QED
      BY <2>1, <2>2
  <1>10. t = RemoveAt(s, f)
    BY <1>2, <1>3, <1>6 DEF RemoveAt
  <1> QED
    BY <1>7, <1>8, <1>9, <1>10

-----------------------------------------------------------------------------
(* One list of the table changes                                           *)

\* What is stored when the list at x becomes t, in both states.
LEMMA BucketChanged ==
  ASSUME IInv, Table, NEW x \in 0 .. capacity - 1, NEW t \in Seq(Entry),
         entryList' = [entryList EXCEPT ![x] = t], capacity' = capacity, hashCode' = hashCode,
         \A j \in 1 .. Len(t) : EntryIndex(t[j].key) = x,
         \A j, l \in 1 .. Len(t) : t[j].key = t[l].key => j = l
  PROVE  /\ entryList' \in [0 .. capacity - 1 -> Seq(Entry)]
         /\ Homes'
         /\ \A e : e \in Stored' <=> \/ e \in Stored /\ EntryIndex(e.key) # x
                                     \/ \E j \in 1 .. Len(t) : e = t[j]
         /\ \A e : e \in Stored <=> \/ e \in Stored /\ EntryIndex(e.key) # x
                                    \/ \E j \in DOMAIN entryList[x] : e = entryList[x][j]
  <1>1. entryList \in [0 .. capacity - 1 -> Seq(Entry)] /\ Homes
    BY DEF Table
  <1>2. /\ entryList' \in [0 .. capacity - 1 -> Seq(Entry)]
        /\ entryList'[x] = t /\ \A i \in 0 .. capacity - 1 : i # x => entryList'[i] = entryList[i]
    BY <1>1
  <1>3. DOMAIN t = 1 .. Len(t) /\ DOMAIN entryList' = 0 .. capacity - 1
    BY <1>2, LenProperties
  <1>4. \A k : EntryIndex(k)' = EntryIndex(k)
    BY DEF EntryIndex, CMod
  <1>5. Homes'
    <2>1. ASSUME NEW i \in 0 .. capacity - 1, NEW j \in DOMAIN entryList'[i]
          PROVE  EntryIndex(entryList'[i][j].key) = i
      BY <1>1, <1>2, <1>3, <2>1 DEF Homes
    <2>2. ASSUME NEW i \in 0 .. capacity - 1, NEW j \in DOMAIN entryList'[i],
                 NEW l \in DOMAIN entryList'[i], entryList'[i][j].key = entryList'[i][l].key
          PROVE  j = l
      BY <1>1, <1>2, <1>3, <2>2 DEF Homes
    <2> QED
      BY <1>4, <2>1, <2>2 DEF Homes
  <1>6. \A e : e \in Stored <=> \E i \in 0 .. capacity - 1 :
                                    \E j \in DOMAIN entryList[i] : e = entryList[i][j]
    BY StoredIs
  <1>7. \A e : e \in Stored' <=> \E i \in 0 .. capacity - 1 :
                                     \E j \in DOMAIN entryList'[i] : e = entryList'[i][j]
    BY <1>3 DEF Stored, Entries
  <1>8. ASSUME NEW e
        PROVE  e \in Stored <=> \/ e \in Stored /\ EntryIndex(e.key) # x
                                \/ \E j \in DOMAIN entryList[x] : e = entryList[x][j]
    <2>1. ASSUME NEW j \in DOMAIN entryList[x], e = entryList[x][j]
          PROVE  e \in Stored
      BY <1>6, <2>1
    <2>2. ASSUME e \in Stored, EntryIndex(e.key) = x
          PROVE  \E j \in DOMAIN entryList[x] : e = entryList[x][j]
      <3>1. PICK i \in 0 .. capacity - 1 : \E j \in DOMAIN entryList[i] : e = entryList[i][j]
        BY <1>6, <2>2
      <3>2. i = x
        BY <1>1, <2>2, <3>1 DEF Homes
      <3> QED
        BY <3>1, <3>2
    <2> QED
      BY <2>1, <2>2
  <1>9. ASSUME NEW e
        PROVE  e \in Stored' <=> \/ e \in Stored /\ EntryIndex(e.key) # x
                                 \/ \E j \in 1 .. Len(t) : e = t[j]
    <2>1. ASSUME NEW j \in 1 .. Len(t), e = t[j]
          PROVE  e \in Stored'
      BY <1>2, <1>3, <1>7, <2>1
    <2>2. ASSUME e \in Stored, EntryIndex(e.key) # x
          PROVE  e \in Stored'
      <3>1. PICK i \in 0 .. capacity - 1 : \E j \in DOMAIN entryList[i] : e = entryList[i][j]
        BY <1>6, <2>2
      <3>2. i # x
        BY <1>1, <2>2, <3>1 DEF Homes
      <3> QED
        BY <1>2, <1>7, <3>1, <3>2
    <2>3. ASSUME e \in Stored', ~\E j \in 1 .. Len(t) : e = t[j]
          PROVE  e \in Stored /\ EntryIndex(e.key) # x
      <3>1. PICK i \in 0 .. capacity - 1 : \E j \in DOMAIN entryList'[i] : e = entryList'[i][j]
        BY <1>7, <2>3
      <3>2. i # x
        BY <1>2, <1>3, <2>3, <3>1
      <3>3. \E j \in DOMAIN entryList[i] : e = entryList[i][j]
        BY <1>2, <3>1, <3>2
      <3>4. EntryIndex(e.key) = i
        BY <1>1, <3>3 DEF Homes
      <3> QED
        BY <1>6, <3>2, <3>3, <3>4
    <2> QED
      BY <2>1, <2>2, <2>3
  <1> QED
    BY <1>2, <1>5, <1>8, <1>9

\* insert of a new key stores one more entry.
LEMMA InsertNewStores ==
  ASSUME IInv, NEW k \in Key, NEW v \in Val, InsertNew(k, v)
  PROVE  /\ Table' /\ Table
         /\ [key |-> k, value |-> v] \notin Stored
         /\ Stored' = Stored \cup {[key |-> k, value |-> v]}
  <1>1. Table
    BY DEF InsertNew, Ready, IInv
  <1>2. PICK n \in Entry : n = [key |-> k, value |-> v]
    BY DEF Entry
  <1>3. PICK x \in 0 .. capacity - 1 : x = EntryIndex(k)
    BY <1>1, BucketIs
  <1>4. PICK s \in Seq(Entry) : s = entryList[x]
    BY <1>1 DEF Table
  <1>5. PICK t : t = Append(s, n)
    OBVIOUS
  <1>6. /\ t \in Seq(Entry) /\ Len(t) = Len(s) + 1 /\ Len(s) \in Nat
        /\ t[Len(s) + 1] = n /\ \A j \in 1 .. Len(s) : t[j] = s[j]
    BY <1>2, <1>4, <1>5, AppendProperties, LenProperties
  <1>7. entryList' = [entryList EXCEPT ![x] = t] /\ capacity' = capacity /\ hashCode' = hashCode
    BY <1>2, <1>3, <1>4, <1>5 DEF InsertNew
  <1>8. \A e \in Stored : e.key # k
    BY <1>1, FoundIs DEF InsertNew
  <1>9. /\ DOMAIN s = 1 .. Len(s)
        /\ \A j \in 1 .. Len(s) : s[j] \in Stored /\ EntryIndex(s[j].key) = x
        /\ \A j, l \in 1 .. Len(s) : s[j].key = s[l].key => j = l
    <2>1. DOMAIN s = 1 .. Len(s)
      BY <1>4, LenProperties
    <2> QED
      BY <1>1, <1>3, <1>4, <2>1, StoredIs DEF Table, Homes
  <1>10. n.key = k
    BY <1>2
  <1>11. \A j \in 1 .. Len(t) : IF j = Len(s) + 1 THEN t[j] = n ELSE j \in 1 .. Len(s) /\ t[j] = s[j]
    BY <1>6
  <1>12. \A j \in 1 .. Len(t) : EntryIndex(t[j].key) = x
    BY <1>3, <1>9, <1>10, <1>11
  <1>13. \A j, l \in 1 .. Len(t) : t[j].key = t[l].key => j = l
    BY <1>8, <1>9, <1>10, <1>11
  <1>14. /\ entryList' \in [0 .. capacity - 1 -> Seq(Entry)] /\ Homes'
         /\ \A e : e \in Stored' <=> \/ e \in Stored /\ EntryIndex(e.key) # x
                                     \/ \E j \in 1 .. Len(t) : e = t[j]
         /\ \A e : e \in Stored <=> \/ e \in Stored /\ EntryIndex(e.key) # x
                                    \/ \E j \in DOMAIN entryList[x] : e = entryList[x][j]
    BY <1>1, <1>3, <1>6, <1>7, <1>12, <1>13, BucketChanged
  <1>15. Stored' = Stored \cup {n}
    <2>1. \A e : (\E j \in 1 .. Len(t) : e = t[j]) <=> e = n \/ \E j \in 1 .. Len(s) : e = s[j]
      <3>1. Len(s) + 1 \in 1 .. Len(t) /\ \A j \in 1 .. Len(s) : j \in 1 .. Len(t)
        BY <1>6
      <3> QED
        BY <1>6, <1>11, <3>1
    <2>2. \A e : e \in Stored <=> \/ e \in Stored /\ EntryIndex(e.key) # x
                                  \/ \E j \in 1 .. Len(s) : e = s[j]
      BY <1>4, <1>9, <1>14
    <2>3. \A e : e \in Stored' <=> e \in Stored \/ e = n
      BY <1>14, <2>1, <2>2
    <2> QED
      BY <2>3
  <1>16. n \notin Stored
    BY <1>8, <1>10
  <1>17. IsFiniteSet(Stored')
    BY <1>1, <1>15, FS_AddElement DEF Table
  <1>18. Table'
    BY <1>7, <1>14, <1>17 DEF Table
  <1> QED
    BY <1>1, <1>2, <1>15, <1>16, <1>18

\* insert of a key that is there puts another entry in the place of its one.
LEMMA ReplaceStores ==
  ASSUME IInv, NEW k \in Key, NEW v \in Val, Replace(k, v)
  PROVE  /\ Table' /\ Table
         /\ \E d \in Stored : /\ d.key = k
                              /\ Stored' = (Stored \ {d}) \cup {[key |-> k, value |-> v]}
  <1>1. Table /\ Found(k) # 0
    BY DEF Replace, Ready, IInv
  <1>2. PICK n \in Entry : n = [key |-> k, value |-> v]
    BY DEF Entry
  <1>3. PICK x \in 0 .. capacity - 1 : x = EntryIndex(k)
    BY <1>1, BucketIs
  <1>4. PICK s \in Seq(Entry) : s = entryList[x]
    BY <1>1 DEF Table
  <1>5. PICK f : f = Found(k)
    OBVIOUS
  <1>6. /\ f \in DOMAIN s /\ s[f].key = k /\ s[f] \in Stored
    BY <1>1, <1>3, <1>4, <1>5, FoundIs DEF Bucket
  <1>7. DOMAIN s = 1 .. Len(s) /\ Len(s) \in Nat /\ \A j \in 1 .. Len(s) : s[j] \in Entry
    BY <1>4, LenProperties, ElementOfSeq
  <1>8. [s[f] EXCEPT !.value = v] = n
    <2>1. s[f] \in Entry
      BY <1>6, <1>7
    <2> QED
      BY <1>2, <1>6, <2>1 DEF Entry
  <1>9. PICK t : t = [s EXCEPT ![f] = n]
    OBVIOUS
  <1>10. /\ t \in Seq(Entry) /\ Len(t) = Len(s)
         /\ \A j \in 1 .. Len(s) : t[j] = IF j = f THEN n ELSE s[j]
    BY <1>2, <1>4, <1>6, <1>7, <1>9, ExceptSeq
  <1>11. entryList' = [entryList EXCEPT ![x] = t] /\ capacity' = capacity /\ hashCode' = hashCode
    BY <1>3, <1>4, <1>5, <1>8, <1>9 DEF Replace
  <1>12. /\ \A j \in 1 .. Len(s) : s[j] \in Stored /\ EntryIndex(s[j].key) = x
         /\ \A j, l \in 1 .. Len(s) : s[j].key = s[l].key => j = l
    BY <1>1, <1>3, <1>4, <1>7, StoredIs DEF Table, Homes
  <1>13. n.key = k
    BY <1>2
  <1>14. \A j \in 1 .. Len(t) : EntryIndex(t[j].key) = x
    BY <1>3, <1>10, <1>12, <1>13
  <1>15. \A j, l \in 1 .. Len(t) : t[j].key = t[l].key => j = l
    BY <1>6, <1>7, <1>10, <1>12, <1>13
  <1>16. /\ entryList' \in [0 .. capacity - 1 -> Seq(Entry)] /\ Homes'
         /\ \A e : e \in Stored' <=> \/ e \in Stored /\ EntryIndex(e.key) # x
                                     \/ \E j \in 1 .. Len(t) : e = t[j]
         /\ \A e : e \in Stored <=> \/ e \in Stored /\ EntryIndex(e.key) # x
                                    \/ \E j \in DOMAIN entryList[x] : e = entryList[x][j]
    BY <1>1, <1>3, <1>10, <1>11, <1>14, <1>15, BucketChanged
  <1>17. Stored' = (Stored \ {s[f]}) \cup {n}
    <2>1. \A e : (\E j \in 1 .. Len(t) : e = t[j])
                    <=> e = n \/ \E j \in 1 .. Len(s) : j # f /\ e = s[j]
      BY <1>6, <1>7, <1>10
    <2>2. \A e : e \in Stored <=> \/ e \in Stored /\ EntryIndex(e.key) # x
                                  \/ \E j \in 1 .. Len(s) : e = s[j]
      BY <1>4, <1>7, <1>16
    <2>3. \A j \in 1 .. Len(s) : s[j] = s[f] => j = f
      BY <1>6, <1>7, <1>12
    <2>4. EntryIndex(s[f].key) = x
      BY <1>3, <1>6
    <2>5. ASSUME NEW e
          PROVE  e \in Stored' <=> (e \in Stored /\ e # s[f]) \/ e = n
      <3>1. e \in Stored' <=> \/ e \in Stored /\ EntryIndex(e.key) # x
                              \/ e = n \/ \E j \in 1 .. Len(s) : j # f /\ e = s[j]
        <4>1. e \in Stored' <=> \/ e \in Stored /\ EntryIndex(e.key) # x
                                \/ \E j \in 1 .. Len(t) : e = t[j]
          BY <1>16
        <4> QED
          BY <2>1, <4>1, Zenon
      <3>2. (\E j \in 1 .. Len(s) : j # f /\ e = s[j])
               <=> e # s[f] /\ \E j \in 1 .. Len(s) : e = s[j]
        BY <2>3
      <3>3. e \in Stored /\ EntryIndex(e.key) # x => e # s[f]
        BY <2>4
      <3> QED
        BY <2>2, <3>1, <3>2, <3>3
    <2> QED
      BY <2>5
  <1>18. IsFiniteSet(Stored')
    <2>1. IsFiniteSet(Stored \ {s[f]})
      BY <1>1, FS_RemoveElement DEF Table
    <2> QED
      BY <1>17, <2>1, FS_AddElement
  <1>19. Table'
    BY <1>11, <1>16, <1>18 DEF Table
  <1> QED
    BY <1>1, <1>2, <1>6, <1>17, <1>19

\* erase takes the entry of its key out.
LEMMA EraseStores ==
  ASSUME IInv, NEW k \in Key, Erase(k)
  PROVE  /\ Table' /\ Table
         /\ \E d \in Stored : d.key = k /\ Stored' = Stored \ {d}
  <1>1. Table /\ Found(k) # 0
    BY DEF Erase, Ready, IInv
  <1>2. PICK x \in 0 .. capacity - 1 : x = EntryIndex(k)
    BY <1>1, BucketIs
  <1>3. PICK s \in Seq(Entry) : s = entryList[x]
    BY <1>1 DEF Table
  <1>4. PICK f : f = Found(k)
    OBVIOUS
  <1>5. /\ f \in DOMAIN s /\ s[f].key = k /\ s[f] \in Stored
    BY <1>1, <1>2, <1>3, <1>4, FoundIs DEF Bucket
  <1>6. DOMAIN s = 1 .. Len(s) /\ Len(s) \in Nat
    BY <1>3, LenProperties
  <1>7. PICK t : t = RemoveAt(s, f)
    OBVIOUS
  <1>8. /\ t \in Seq(Entry) /\ Len(t) = Len(s) - 1
        /\ \A j \in 1 .. Len(t) : t[j] = IF j < f THEN s[j] ELSE s[j + 1]
    <2>1. f \in 1 .. Len(s)
      BY <1>5, <1>6
    <2> QED
      BY <1>3, <1>7, <2>1, RemoveAtIs
  <1>9. entryList' = [entryList EXCEPT ![x] = t] /\ capacity' = capacity /\ hashCode' = hashCode
    BY <1>2, <1>3, <1>4, <1>7 DEF Erase
  <1>10. /\ \A j \in 1 .. Len(s) : s[j] \in Stored /\ EntryIndex(s[j].key) = x
         /\ \A j, l \in 1 .. Len(s) : s[j].key = s[l].key => j = l
    BY <1>1, <1>2, <1>3, <1>6, StoredIs DEF Table, Homes
  <1>11. \A j \in 1 .. Len(t) : \E m \in 1 .. Len(s) :
            m = (IF j < f THEN j ELSE j + 1) /\ m # f /\ t[j] = s[m]
    <2>1. ASSUME NEW j \in 1 .. Len(t)
          PROVE  (IF j < f THEN j ELSE j + 1) \in 1 .. Len(s) /\ (IF j < f THEN j ELSE j + 1) # f
      BY <1>5, <1>6, <1>8
    <2> QED
      BY <1>8, <2>1
  <1>12. \A j \in 1 .. Len(t) : EntryIndex(t[j].key) = x
    BY <1>10, <1>11
  <1>13. \A j, l \in 1 .. Len(t) : t[j].key = t[l].key => j = l
    <2> SUFFICES ASSUME NEW j \in 1 .. Len(t), NEW l \in 1 .. Len(t), t[j].key = t[l].key
                 PROVE  j = l
      OBVIOUS
    <2>1. PICK m \in 1 .. Len(s) : m = (IF j < f THEN j ELSE j + 1) /\ m # f /\ t[j] = s[m]
      BY <1>11
    <2>2. PICK n \in 1 .. Len(s) : n = (IF l < f THEN l ELSE l + 1) /\ n # f /\ t[l] = s[n]
      BY <1>11
    <2>3. m = n
      BY <1>10, <2>1, <2>2
    <2> QED
      BY <1>5, <1>6, <1>8, <2>1, <2>2, <2>3
  <1>14. /\ entryList' \in [0 .. capacity - 1 -> Seq(Entry)] /\ Homes'
         /\ \A e : e \in Stored' <=> \/ e \in Stored /\ EntryIndex(e.key) # x
                                     \/ \E j \in 1 .. Len(t) : e = t[j]
         /\ \A e : e \in Stored <=> \/ e \in Stored /\ EntryIndex(e.key) # x
                                    \/ \E j \in DOMAIN entryList[x] : e = entryList[x][j]
    BY <1>1, <1>2, <1>8, <1>9, <1>12, <1>13, BucketChanged
  <1>15. Stored' = Stored \ {s[f]}
    <2>1. \A e : (\E j \in 1 .. Len(t) : e = t[j]) <=> \E m \in 1 .. Len(s) : m # f /\ e = s[m]
      <3>1. ASSUME NEW m \in 1 .. Len(s), m # f
            PROVE  \E j \in 1 .. Len(t) : t[j] = s[m]
        <4>1. CASE m < f
          <5>1. m \in 1 .. Len(t)
            BY <1>5, <1>6, <1>8, <4>1
          <5> QED
            BY <1>8, <4>1, <5>1
        <4>2. CASE ~(m < f)
          <5>1. m - 1 \in 1 .. Len(t) /\ ~(m - 1 < f) /\ (m - 1) + 1 = m
            BY <1>5, <1>6, <1>8, <3>1, <4>2
          <5> QED
            BY <1>8, <5>1
        <4> QED
          BY <4>1, <4>2
      <3> QED
        BY <1>11, <3>1
    <2>2. \A e : e \in Stored <=> \/ e \in Stored /\ EntryIndex(e.key) # x
                                  \/ \E j \in 1 .. Len(s) : e = s[j]
      BY <1>3, <1>6, <1>14
    <2>3. \A j \in 1 .. Len(s) : s[j] = s[f] => j = f
      BY <1>5, <1>6, <1>10
    <2>4. EntryIndex(s[f].key) = x
      BY <1>2, <1>5
    <2>5. ASSUME NEW e
          PROVE  e \in Stored' <=> e \in Stored /\ e # s[f]
      <3>1. e \in Stored' <=> \/ e \in Stored /\ EntryIndex(e.key) # x
                              \/ \E j \in 1 .. Len(s) : j # f /\ e = s[j]
        <4>1. e \in Stored' <=> \/ e \in Stored /\ EntryIndex(e.key) # x
                                \/ \E j \in 1 .. Len(t) : e = t[j]
          BY <1>14
        <4> QED
          BY <2>1, <4>1, Zenon
      <3>2. (\E j \in 1 .. Len(s) : j # f /\ e = s[j])
               <=> e # s[f] /\ \E j \in 1 .. Len(s) : e = s[j]
        BY <2>3
      <3>3. e \in Stored /\ EntryIndex(e.key) # x => e # s[f]
        BY <2>4
      <3> QED
        BY <2>2, <3>1, <3>2, <3>3
    <2> QED
      BY <2>5
  <1>16. IsFiniteSet(Stored')
    BY <1>1, <1>15, FS_RemoveElement DEF Table
  <1>17. Table'
    BY <1>9, <1>14, <1>16 DEF Table
  <1> QED
    BY <1>1, <1>5, <1>15, <1>17

-----------------------------------------------------------------------------
(* What the loops over the table add up                                    *)

\* A function that does what the definition of Total says up to m.
Adds(f, n, m) ==
    f = [i \in 0 .. m |-> IF i = 0 THEN 0 ELSE f[i - 1] + n[i - 1]]

\* The same, index by index.
LEMMA AddsMeans ==
  ASSUME NEW f, NEW n, NEW m \in Nat, Adds(f, n, m), NEW i \in 0 .. m
  PROVE  f[i] = IF i = 0 THEN 0 ELSE f[i - 1] + n[i - 1]
  BY DEF Adds

\* There is one.
LEMMA AddsExist ==
  ASSUME NEW n, NEW c \in Nat
  PROVE  \E f : Adds(f, n, c)
  <1> DEFINE C == {m \in Nat : ~\E f : Adds(f, n, m)}
  <1> SUFFICES ASSUME C # {}
               PROVE  FALSE
    OBVIOUS
  <1>1. PICK m \in C : \A k \in C : m <= k
    <2>1. C \in SUBSET Nat
      OBVIOUS
    <2> HIDE DEF C
    <2> QED
      BY <2>1, LeastNumber
  <1>2. m \in Nat /\ ~\E f : Adds(f, n, m)
    BY <1>1
  <1>3. CASE m = 0
    <2>1. Adds([i \in 0 .. 0 |-> 0], n, 0)
      BY DEF Adds
    <2> QED
      BY <1>2, <1>3, <2>1
  <1>4. CASE m # 0
    <2>1. PICK l \in Nat : l = m - 1
      BY <1>2, <1>4
    <2>2. PICK f : Adds(f, n, l)
      <3>1. l \notin C
        BY <1>1, <1>2, <2>1
      <3> QED
        BY <2>1, <3>1
    <2> HIDE DEF C
    <2> DEFINE last == f[m - 1] + n[m - 1]
               g == [i \in 0 .. m |-> IF i = m THEN last ELSE f[i]]
    <2>3. ASSUME NEW i \in 0 .. m
          PROVE  g[i] = IF i = 0 THEN 0 ELSE g[i - 1] + n[i - 1]
      <3> HIDE DEF last
      <3>1. CASE i = m
        <4>1. g[i] = last /\ g[i - 1] = f[m - 1] /\ i # 0
          BY <1>2, <1>4, <3>1
        <4> QED
          BY <3>1, <4>1 DEF last
      <3>2. CASE i # m
        <4>1. i \in 0 .. l /\ g[i] = f[i] /\ (i # 0 => g[i - 1] = f[i - 1])
          BY <1>2, <2>1, <3>2
        <4> HIDE DEF g
        <4>2. f[i] = IF i = 0 THEN 0 ELSE f[i - 1] + n[i - 1]
          BY <2>2, <4>1, AddsMeans
        <4> QED
          BY <4>1, <4>2
      <3> QED
        BY <3>1, <3>2
    <2>4. Adds(g, n, m)
      <3> HIDE DEF last
      <3>1. g = [i \in 0 .. m |-> g[i]]
        OBVIOUS
      <3> HIDE DEF g
      <3> QED
        BY <2>3, <3>1 DEF Adds
    <2> QED
      BY <1>2, <2>4
  <1> QED
    BY <1>3, <1>4

\* The entries in the lists before m.
Before(m) == {e \in Stored : EntryIndex(e.key) < m}

\* One more list: as many entries more as it is long.
LEMMA OneMoreList ==
  ASSUME IInv, Table, NEW m \in 0 .. capacity - 1
  PROVE  /\ Len(entryList[m]) \in Nat /\ Cardinality(Before(m)) \in Nat
         /\ Cardinality(Before(m + 1)) = Cardinality(Before(m)) + Len(entryList[m])
  <1>1. PICK s \in Seq(Entry) : s = entryList[m]
    BY DEF Table
  <1>2. DOMAIN s = 1 .. Len(s) /\ Len(s) \in Nat
    BY <1>1, LenProperties
  <1> DEFINE E == {s[j] : j \in 1 .. Len(s)}
  <1>3. \A j, l \in 1 .. Len(s) : s[j] = s[l] => j = l
    BY <1>1, <1>2 DEF Table, Homes
  <1>4. IsFiniteSet(E) /\ Cardinality(E) = Len(s)
    <2>1. PICK f : f = [j \in 1 .. Len(s) |-> s[j]]
      OBVIOUS
    <2>2. f \in Injection(1 .. Len(s), E)
      BY <1>3, <2>1 DEF Injection, IsInjective
    <2>3. f \in Surjection(1 .. Len(s), E)
      BY <2>1 DEF Surjection
    <2>4. ExistsBijection(1 .. Len(s), E)
      BY <2>2, <2>3 DEF ExistsBijection, Bijection
    <2>5. IsFiniteSet(1 .. Len(s)) /\ Cardinality(1 .. Len(s)) = Len(s)
      <3>1. PICK a \in Nat : a = Len(s)
        BY <1>2
      <3>2. 1 \in Int /\ a \in Int
        BY <3>1
      <3>3. IsFiniteSet(1 .. a) /\ Cardinality(1 .. a) = IF 1 > a THEN 0 ELSE a - 1 + 1
        BY <3>2, FS_Interval, Zenon
      <3> QED
        BY <3>1, <3>3, SMTT(30)
    <2> HIDE DEF E
    <2> QED
      BY <2>4, <2>5, FS_Bijection
  <1>5. \A e : e \in Stored <=> \E i \in 0 .. capacity - 1 :
                                    \E j \in DOMAIN entryList[i] : e = entryList[i][j]
    BY StoredIs
  <1>6. \A e \in Stored : EntryIndex(e.key) \in Int
    <2>1. ASSUME NEW e \in Stored
          PROVE  EntryIndex(e.key) \in Int
      <3>1. e.key \in Key
        BY StoredIs DEF Entry
      <3>2. EntryIndex(e.key) \in 0 .. capacity - 1 /\ capacity \in Nat
        BY <3>1, IndexInTable DEF IInv
      <3> QED
        BY <3>2
    <2> QED
      BY <2>1
  <1>7. \A e : e \in E <=> e \in Stored /\ EntryIndex(e.key) = m
    <2>1. ASSUME NEW e \in E
          PROVE  e \in Stored /\ EntryIndex(e.key) = m
      BY <1>1, <1>2, <1>5 DEF Table, Homes
    <2>2. ASSUME NEW e \in Stored, EntryIndex(e.key) = m
          PROVE  e \in E
      <3>1. PICK i \in 0 .. capacity - 1 : \E j \in DOMAIN entryList[i] : e = entryList[i][j]
        BY <1>5
      <3>2. i = m
        BY <2>2, <3>1 DEF Table, Homes
      <3> QED
        BY <1>1, <1>2, <3>1, <3>2
    <2> QED
      BY <2>1, <2>2
  <1>8. m \in Nat /\ \A x \in Int : x < m + 1 <=> x < m \/ x = m
    BY DEF IInv
  <1> HIDE DEF E
  <1>9. Before(m + 1) = Before(m) \cup E
    BY <1>6, <1>7, <1>8 DEF Before
  <1>10. Before(m) \cap E = {}
    BY <1>7, <1>8 DEF Before
  <1>11. IsFiniteSet(Before(m)) /\ Cardinality(Before(m)) \in Nat
    <2>1. Before(m) \in SUBSET Stored
      BY DEF Before
    <2>2. IsFiniteSet(Before(m))
      BY <2>1, FS_Subset DEF Table
    <2> QED
      BY <2>2, FS_CardinalityType
  <1>12. Cardinality(Before(m + 1)) = Cardinality(Before(m)) + Cardinality(E) - Cardinality({})
    BY <1>4, <1>9, <1>10, <1>11, FS_Union
  <1>13. Cardinality({}) = 0
    BY FS_EmptySet
  <1> QED
    BY <1>1, <1>2, <1>4, <1>11, <1>12, <1>13

\* What is one, or two, for each entry of a list adds up to that for each
\* entry of the table.
LEMMA TotalIs ==
  ASSUME IInv, Table, NEW q \in {1, 2}, NEW n,
         \A i \in 0 .. capacity - 1 : n[i] = q * Len(entryList[i])
  PROVE  Total(n) = q * Cardinality(Stored)
  <1>1. PICK c \in Nat \ {0} : c = capacity
    BY DEF IInv
  <1>2. PICK f : Adds(f, n, c) /\ Total(n) = f[c]
    <2>1. Total(n) = (CHOOSE f : Adds(f, n, c))[c]
      BY <1>1 DEF Total, Adds
    <2>2. Adds(CHOOSE f : Adds(f, n, c), n, c)
      BY <1>1, AddsExist
    <2> QED
      BY <2>1, <2>2
  <1> DEFINE C == {m \in 0 .. c : f[m] # q * Cardinality(Before(m))}
  <1>3. Before(c) = Stored
    <2>1. ASSUME NEW e \in Stored
          PROVE  EntryIndex(e.key) < c
      <3>1. e.key \in Key
        BY StoredIs DEF Entry
      <3>2. EntryIndex(e.key) \in 0 .. capacity - 1
        BY <3>1, IndexInTable DEF IInv
      <3> QED
        BY <1>1, <3>2
    <2> QED
      BY <2>1 DEF Before
  <1>4. Before(0) = {}
    <2>1. ASSUME NEW e \in Stored
          PROVE  ~(EntryIndex(e.key) < 0)
      <3>1. e.key \in Key
        BY StoredIs DEF Entry
      <3>2. EntryIndex(e.key) \in 0 .. capacity - 1
        BY <3>1, IndexInTable DEF IInv
      <3> QED
        BY <1>1, <3>2
    <2> QED
      BY <2>1 DEF Before
  <1>5. SUFFICES ASSUME C # {}
                 PROVE  FALSE
    <2>1. c \in 0 .. c
      BY <1>1
    <2>2. f[c] = q * Cardinality(Before(c))
      BY <1>5, <2>1
    <2> QED
      BY <1>2, <1>3, <2>2
  <1>6. PICK k \in C : \A l \in C : k <= l
    <2>1. C \in SUBSET Nat
      BY <1>1
    <2> HIDE DEF C
    <2> QED
      BY <1>5, <2>1, LeastNumber
  <1>7. k \in 0 .. c /\ f[k] # q * Cardinality(Before(k))
    BY <1>6
  <1>8. CASE k = 0
    <2>1. f[0] = 0
      BY <1>1, <1>2, <1>7, <1>8, AddsMeans
    <2>2. Cardinality(Before(0)) = 0
      BY <1>4, FS_EmptySet
    <2> QED
      BY <1>7, <1>8, <2>1, <2>2
  <1>9. CASE k # 0
    <2>1. PICK m \in 0 .. c - 1 : m = k - 1 /\ m + 1 = k
      BY <1>1, <1>7, <1>9
    <2>2. f[m] = q * Cardinality(Before(m))
      BY <1>1, <1>6, <1>7, <2>1
    <2> HIDE DEF C
    <2>3. f[k] = f[m] + n[m]
      BY <1>1, <1>2, <1>7, <1>9, <2>1, AddsMeans
    <2>4. n[m] = q * Len(entryList[m])
      BY <1>1, <2>1
    <2>5. /\ Len(entryList[m]) \in Nat /\ Cardinality(Before(m)) \in Nat
          /\ Cardinality(Before(k)) = Cardinality(Before(m)) + Len(entryList[m])
      BY <1>1, <2>1, OneMoreList
    <2>6. PICK a \in Nat, b \in Nat : a = Len(entryList[m]) /\ b = Cardinality(Before(m))
      BY <2>5
    <2>7. CASE q = 1
      BY <1>7, <2>2, <2>3, <2>4, <2>5, <2>6, <2>7
    <2>8. CASE q = 2
      BY <1>7, <2>2, <2>3, <2>4, <2>5, <2>6, <2>8
    <2> QED
      BY <2>7, <2>8
  <1> QED
    BY <1>8, <1>9

-----------------------------------------------------------------------------
(* The invariant is inductive                                              *)

LEMMA IInvInit == Init => IInv
  <1> SUFFICES ASSUME Init
               PROVE  IInv
    OBVIOUS
  <1>1. hashCode \in [Key -> Int] /\ capacity \in Nat \ {0}
    BY HashMapAssumption DEF Init, HashMapAssumption
  <1>2. stage = "new" /\ entryList = << >> /\ size = 0 /\ blocks = 0 /\ failed = 0
    BY DEF Init
  <1> QED
    BY <1>1, <1>2 DEF IInv

\* What a call that leaves the table alone keeps.
LEMMA TableKept ==
  ASSUME hashCode' = hashCode, capacity' = capacity, entryList' = entryList
  PROVE  Stored' = Stored /\ (Table <=> Table')
  BY DEF Stored, Entries, Table, Homes, EntryIndex, CMod

\* A table of empty lists, and no table.
LEMMA NothingStored ==
  ASSUME \A i \in DOMAIN entryList : entryList[i] = << >>
  PROVE  Stored = {} /\ IsFiniteSet(Stored) /\ Cardinality(Stored) = 0
  <1>1. Stored = {}
    BY DEF Stored, Entries
  <1> QED
    BY <1>1, FS_EmptySet

LEMMA InitStep ==
  ASSUME IInv, InitMap \/ InitFails
  PROVE  IInv'
  <1>1. capacity' = capacity /\ hashCode' = hashCode /\ failed' = failed
    BY DEF InitMap, InitFails, InitCall
  <1>2. CASE InitMap
    <2>1. /\ entryList' = [i \in 0 .. capacity - 1 |-> << >>] /\ stage' = "ready"
          /\ stage = "new" /\ size' = size /\ blocks' = blocks
      BY <1>2 DEF InitMap, InitCall
    <2>2. size' = 0 /\ blocks' = 0 /\ failed' = 0
      BY <1>1, <2>1 DEF IInv
    <2>3. Stored' = {} /\ IsFiniteSet(Stored') /\ Cardinality(Stored') = 0
      <3>1. Stored' = {}
        BY <2>1 DEF Stored, Entries
      <3> QED
        BY <3>1, FS_EmptySet
    <2>4. Homes'
      BY <1>1, <2>1 DEF Homes
    <2>5. entryList' \in [0 .. capacity' - 1 -> Seq(Entry)]
      BY <1>1, <2>1
    <2>6. Table'
      BY <2>3, <2>4, <2>5 DEF Table
    <2> QED
      BY <1>1, <2>1, <2>2, <2>3, <2>6 DEF IInv
  <1>3. CASE InitFails
    <2>1. PICK i \in 0 .. capacity - 1 : entryList' = [j \in 0 .. i - 1 |-> << >>]
      BY <1>3 DEF InitFails
    <2>2. stage' = "broken"
      BY <1>3 DEF InitFails
    <2> QED
      BY <1>1, <2>1, <2>2 DEF IInv
  <1> QED
    BY <1>2, <1>3

\* The loops of clear and of the destructor.
LEMMA TotalsAre ==
  ASSUME IInv, Table
  PROVE  /\ Cleared = Cardinality(Stored)
         /\ OwnedByAll = 2 * Cardinality(Stored)
         /\ Cardinality(Stored) \in Nat
  <1>1. DOMAIN entryList = 0 .. capacity - 1
    BY DEF Table
  <1>2. Cardinality(Stored) \in Nat
    BY FS_CardinalityType DEF Table
  <1>3. \A i \in 0 .. capacity - 1 : Len(entryList[i]) \in Nat
    <2>1. ASSUME NEW i \in 0 .. capacity - 1
          PROVE  Len(entryList[i]) \in Nat
      <3>1. entryList[i] \in Seq(Entry)
        BY DEF Table
      <3> QED
        BY <3>1, LenProperties
    <2> QED
      BY <2>1
  <1>4. Cleared = 1 * Cardinality(Stored)
    <2>1. PICK n : n = [i \in DOMAIN entryList |-> Len(entryList[i])]
      OBVIOUS
    <2>2. \A i \in 0 .. capacity - 1 : n[i] = 1 * Len(entryList[i])
      BY <1>1, <1>3, <2>1
    <2>3. Total(n) = 1 * Cardinality(Stored)
      BY <2>2, TotalIs
    <2> QED
      BY <2>1, <2>3 DEF Cleared
  <1>5. OwnedByAll = 2 * Cardinality(Stored)
    <2>1. PICK n : n = [i \in DOMAIN entryList |-> 2 * Len(entryList[i])]
      OBVIOUS
    <2>2. \A i \in 0 .. capacity - 1 : n[i] = 2 * Len(entryList[i])
      BY <1>1, <2>1
    <2>3. Total(n) = 2 * Cardinality(Stored)
      BY <2>2, TotalIs
    <2> QED
      BY <2>1, <2>3 DEF OwnedByAll, Owned
  <1> QED
    BY <1>2, <1>4, <1>5

LEMMA DestructStep ==
  ASSUME IInv, Destruct
  PROVE  IInv'
  <1>1. /\ stage = "ready" /\ stage' = "gone" /\ blocks' = blocks - OwnedByAll /\ entryList' = << >>
        /\ hashCode' = hashCode /\ capacity' = capacity /\ failed' = failed
    BY DEF Destruct, Ready
  <1>2. Table /\ blocks = 2 * (Cardinality(Stored) + failed) /\ failed \in Nat
    BY <1>1 DEF IInv
  <1>3. OwnedByAll = 2 * Cardinality(Stored) /\ Cardinality(Stored) \in Nat
    BY <1>2, TotalsAre
  <1>4. blocks' = 2 * failed'
    BY <1>1, <1>2, <1>3
  <1> QED
    BY <1>1, <1>4 DEF IInv

LEMMA ClearStep ==
  ASSUME IInv, Clear
  PROVE  IInv' /\ Stored' = {}
  <1>1. /\ stage = "ready" /\ stage' = "ready"
        /\ size' = size - Cleared /\ blocks' = blocks - OwnedByAll
        /\ entryList' = [i \in DOMAIN entryList |-> << >>]
        /\ hashCode' = hashCode /\ capacity' = capacity /\ failed' = failed
    BY DEF Clear, Ready
  <1>2. /\ Table /\ blocks = 2 * (Cardinality(Stored) + failed) /\ failed \in Nat
        /\ size = Cardinality(Stored)
    BY <1>1 DEF IInv
  <1>3. /\ Cleared = Cardinality(Stored)
        /\ OwnedByAll = 2 * Cardinality(Stored) /\ Cardinality(Stored) \in Nat
    BY <1>2, TotalsAre
  <1>4. DOMAIN entryList = 0 .. capacity - 1
    BY <1>2 DEF Table
  <1>5. Stored' = {} /\ IsFiniteSet(Stored') /\ Cardinality(Stored') = 0
    <2>1. Stored' = {}
      BY <1>1 DEF Stored, Entries
    <2> QED
      BY <2>1, FS_EmptySet
  <1>6. Table'
    <2>1. Homes'
      BY <1>1, <1>4 DEF Homes
    <2>2. entryList' \in [0 .. capacity' - 1 -> Seq(Entry)]
      BY <1>1, <1>4
    <2> QED
      BY <1>5, <2>1, <2>2 DEF Table
  <1>7. size' = 0 /\ blocks' = 2 * failed'
    BY <1>1, <1>2, <1>3
  <1> QED
    BY <1>1, <1>5, <1>6, <1>7 DEF IInv

LEMMA InsertNewStep ==
  ASSUME IInv, NEW k \in Key, NEW v \in Val, InsertNew(k, v)
  PROVE  IInv'
  <1>1. /\ stage = "ready" /\ stage' = "ready" /\ size' = size + 1 /\ blocks' = blocks + 2
        /\ hashCode' = hashCode /\ capacity' = capacity /\ failed' = failed
    BY DEF InsertNew, Ready
  <1>2. PICK n : n = [key |-> k, value |-> v]
    OBVIOUS
  <1>3. Table' /\ Table /\ n \notin Stored /\ Stored' = Stored \cup {n}
    BY <1>2, InsertNewStores
  <1>4. /\ blocks = 2 * (Cardinality(Stored) + failed) /\ failed \in Nat
        /\ size = Cardinality(Stored)
    BY <1>1 DEF IInv
  <1>5. Cardinality(Stored) \in Nat /\ Cardinality(Stored') = Cardinality(Stored) + 1
    BY <1>3, FS_AddElement, FS_CardinalityType DEF Table
  <1>6. size' = Cardinality(Stored') /\ blocks' = 2 * (Cardinality(Stored') + failed')
    BY <1>1, <1>4, <1>5
  <1> QED
    BY <1>1, <1>3, <1>6 DEF IInv

LEMMA ReplaceStep ==
  ASSUME IInv, NEW k \in Key, NEW v \in Val, Replace(k, v)
  PROVE  IInv'
  <1>1. /\ stage = "ready" /\ stage' = "ready" /\ size' = size /\ blocks' = blocks
        /\ hashCode' = hashCode /\ capacity' = capacity /\ failed' = failed
    BY DEF Replace, Ready
  <1>2. PICK n : n = [key |-> k, value |-> v]
    OBVIOUS
  <1>3. PICK d \in Stored : d.key = k /\ Stored' = (Stored \ {d}) \cup {n}
    BY <1>2, ReplaceStores
  <1>4. Table' /\ Table
    BY ReplaceStores
  <1>5. n \notin Stored \ {d}
    BY <1>2, <1>3, <1>4, KeysApart
  <1>6. Cardinality(Stored') = Cardinality(Stored)
    <2>1. /\ IsFiniteSet(Stored \ {d}) /\ Cardinality(Stored \ {d}) = Cardinality(Stored) - 1
          /\ Cardinality(Stored) \in Nat
      BY <1>4, FS_RemoveElement, FS_CardinalityType DEF Table
    <2>2. Cardinality(Stored') = Cardinality(Stored \ {d}) + 1
      BY <1>3, <1>5, <2>1, FS_AddElement
    <2> QED
      BY <2>1, <2>2
  <1> QED
    BY <1>1, <1>4, <1>6 DEF IInv

LEMMA EraseStep ==
  ASSUME IInv, NEW k \in Key, Erase(k)
  PROVE  IInv'
  <1>1. /\ stage = "ready" /\ stage' = "ready" /\ size' = size - 1
        /\ blocks' = blocks - Owned(<<Bucket(k)[Found(k)]>>)
        /\ hashCode' = hashCode /\ capacity' = capacity /\ failed' = failed
    BY DEF Erase, Ready, SizeErased
  <1>2. PICK d \in Stored : d.key = k /\ Stored' = Stored \ {d}
    BY EraseStores
  <1>3. Table' /\ Table
    BY EraseStores
  <1>4. /\ blocks = 2 * (Cardinality(Stored) + failed) /\ failed \in Nat
        /\ size = Cardinality(Stored)
    BY <1>1 DEF IInv
  <1>5. Cardinality(Stored) \in Nat /\ Cardinality(Stored') = Cardinality(Stored) - 1
    BY <1>2, <1>3, FS_RemoveElement, FS_CardinalityType DEF Table
  <1>6. Owned(<<Bucket(k)[Found(k)]>>) = 2
    BY DEF Owned
  <1>7. size' = Cardinality(Stored') /\ blocks' = 2 * (Cardinality(Stored') + failed')
    BY <1>1, <1>4, <1>5, <1>6
  <1> QED
    BY <1>1, <1>3, <1>7 DEF IInv

\* The calls that change nothing in the table.
LEMMA OtherStep ==
  ASSUME IInv, NEW k, NEW v,
         \/ InsertFails(k, v) \/ InsertNull \/ Find(k) \/ HasKey(k) \/ EraseAbsent(k) \/ GetSize
  PROVE  IInv' /\ Stored' = Stored
  <1>1. /\ stage = "ready" /\ stage' = "ready" /\ size' = size
        /\ hashCode' = hashCode /\ capacity' = capacity /\ entryList' = entryList
        /\ \/ failed' = failed /\ blocks' = blocks
           \/ failed' = failed + 1 /\ blocks' = blocks + 2
    BY DEF InsertFails, InsertNull, Find, HasKey, EraseAbsent, GetSize, Ready, SizeErased, mapVars
  <1>2. Stored' = Stored /\ Table'
    BY <1>1, TableKept DEF IInv
  <1>3. /\ blocks = 2 * (Cardinality(Stored) + failed) /\ failed \in Nat
        /\ size = Cardinality(Stored) /\ Cardinality(Stored) \in Nat
    BY <1>1, FS_CardinalityType DEF IInv, Table
  <1>4. blocks' = 2 * (Cardinality(Stored') + failed') /\ failed' \in Nat
    BY <1>1, <1>2, <1>3
  <1> QED
    BY <1>1, <1>2, <1>3, <1>4 DEF IInv

LEMMA IInvStep == IInv /\ [Next]_vars => IInv'
  <1> SUFFICES ASSUME IInv, [Next]_vars
               PROVE  IInv'
    OBVIOUS
  <1>1. CASE UNCHANGED vars
    <2>1. Stored' = Stored /\ (Table <=> Table')
      BY <1>1, TableKept DEF vars
    <2> QED
      BY <1>1, <2>1 DEF vars, IInv
  <1>2. CASE InitMap \/ InitFails
    BY <1>2, InitStep
  <1>3. CASE Destruct
    BY <1>3, DestructStep
  <1>4. CASE Clear
    BY <1>4, ClearStep
  <1>5. CASE InsertNull \/ GetSize
    BY <1>5, OtherStep
  <1>6. ASSUME NEW k \in Key, NEW v \in Val, InsertNew(k, v) \/ Replace(k, v) \/ InsertFails(k, v)
        PROVE  IInv'
    BY <1>6, InsertNewStep, ReplaceStep, OtherStep
  <1>7. ASSUME NEW k \in Key, Find(k) \/ HasKey(k) \/ Erase(k) \/ EraseAbsent(k)
        PROVE  IInv'
    BY <1>7, EraseStep, OtherStep
  <1> QED
    BY <1>1, <1>2, <1>3, <1>4, <1>5, <1>6, <1>7 DEF Next

-----------------------------------------------------------------------------
(* Theorems                                                                *)

\* The inductive invariant holds in every reachable state.
THEOREM Invariance == Spec => []IInv
  BY IInvInit, IInvStep, PTL DEF Spec

\* Every hash code, negative ones too, leads to a list of the table, and a
\* key is stored once, where the next call looks for it
\* (hash_map.cpp:74-81).
THEOREM OneHomeAlways == Spec => []OneHome
  <1>1. IInv => OneHome
    <2> SUFFICES ASSUME IInv
                 PROVE  OneHome
      OBVIOUS
    <2>1. CASE stage = "ready"
      <3>1. Table /\ DOMAIN entryList = 0 .. capacity - 1
        BY <2>1 DEF IInv, Table
      <3>2. \A k \in Key : EntryIndex(k) \in DOMAIN entryList
        BY <3>1, BucketIs
      <3>3. ASSUME NEW i \in DOMAIN entryList
            PROVE  /\ IsInjective([j \in DOMAIN entryList[i] |-> entryList[i][j].key])
                   /\ \A e \in Entries(i) : i = EntryIndex(e.key)
        BY <3>1, <3>3 DEF Table, Homes, IsInjective, Entries
      <3> QED
        BY <3>2, <3>3 DEF OneHome
    <2>2. CASE stage # "ready"
      <3>1. \A i \in DOMAIN entryList : entryList[i] = << >>
        BY <2>2 DEF IInv
      <3>2. ASSUME NEW i \in DOMAIN entryList
            PROVE  /\ IsInjective([j \in DOMAIN entryList[i] |-> entryList[i][j].key])
                   /\ \A e \in Entries(i) : i = EntryIndex(e.key)
        BY <3>1, <3>2 DEF IsInjective, Entries
      <3> QED
        BY <2>2, <3>2 DEF OneHome
    <2> QED
      BY <2>1, <2>2
  <1> QED
    BY <1>1, Invariance, PTL

\* Every block is freed exactly when its entry goes; only a failed insertion
\* leaves two behind (hash_map.cpp:88-95, 100, 150, 162).
THEOREM HeapBalancedAlways == Spec => []HeapBalanced
  <1>1. IInv => HeapBalanced
    <2> SUFFICES ASSUME IInv, stage # "broken"
                 PROVE  blocks = 2 * (Cardinality(Stored) + failed)
      BY DEF HeapBalanced
    <2>1. CASE stage = "ready"
      BY <2>1 DEF IInv
    <2>2. CASE stage # "ready"
      <3>1. entryList = << >> /\ blocks = 2 * failed /\ failed \in Nat
        BY <2>2 DEF IInv
      <3>2. Cardinality(Stored) = 0
        BY <3>1, NothingStored
      <3> QED
        BY <3>1, <3>2
    <2> QED
      BY <2>1, <2>2
  <1> QED
    BY <1>1, Invariance, PTL

-----------------------------------------------------------------------------
(* The map is a dictionary                                                 *)

\* No two entries of a set have the same key.
Single(S) == \A d, e \in S : d.key = e.key => d = e

LEMMA MappingIs ==
  ASSUME NEW S, Single(S), NEW e \in S
  PROVE  e.key \in DOMAIN Mapping(S) /\ Mapping(S)[e.key] = e.value
  <1>1. e.key \in {d.key : d \in S}
    OBVIOUS
  <1>2. (CHOOSE d \in S : d.key = e.key) = e
    BY DEF Single
  <1> QED
    BY <1>1, <1>2 DEF Mapping

\* The entries after n is put in the place of what there was for its key.
With(S, n) == {e \in S : e.key # n.key} \cup {n}

LEMMA MappingPut ==
  ASSUME NEW S, Single(S), NEW n
  PROVE  /\ DOMAIN Mapping(With(S, n)) = DOMAIN Mapping(S) \cup {n.key}
         /\ Mapping(With(S, n))[n.key] = n.value
         /\ \A j \in DOMAIN Mapping(S) \ {n.key} : Mapping(With(S, n))[j] = Mapping(S)[j]
  <1>1. Single(With(S, n))
    BY DEF Single, With
  <1>2. DOMAIN Mapping(With(S, n)) = DOMAIN Mapping(S) \cup {n.key}
    BY DEF Mapping, With
  <1>3. Mapping(With(S, n))[n.key] = n.value
    <2>1. n \in With(S, n)
      BY DEF With
    <2> QED
      BY <1>1, <2>1, MappingIs
  <1>4. ASSUME NEW j \in DOMAIN Mapping(S) \ {n.key}
        PROVE  Mapping(With(S, n))[j] = Mapping(S)[j]
    <2>1. PICK e \in S : e.key = j
      BY DEF Mapping
    <2>2. e \in With(S, n)
      BY <2>1 DEF With
    <2> QED
      BY <1>1, <2>1, <2>2, MappingIs
  <1> QED
    BY <1>2, <1>3, <1>4

\* The entries but that of one key.
LEMMA MappingRemove ==
  ASSUME NEW S, Single(S), NEW k, NEW T, T = {e \in S : e.key # k}
  PROVE  Mapping(T) = [j \in DOMAIN Mapping(S) \ {k} |-> Mapping(S)[j]]
  <1>1. Single(T)
    BY DEF Single
  <1>2. DOMAIN Mapping(T) = DOMAIN Mapping(S) \ {k}
    BY DEF Mapping
  <1>3. ASSUME NEW j \in DOMAIN Mapping(S) \ {k}
        PROVE  Mapping(T)[j] = Mapping(S)[j]
    <2>1. PICK e \in S : e.key = j
      BY DEF Mapping
    <2>2. e \in T
      BY <2>1
    <2> QED
      BY <1>1, <2>1, <2>2, MappingIs
  <1>4. Mapping(T) = [j \in DOMAIN Mapping(T) |-> Mapping(T)[j]]
    BY DEF Mapping
  <1> QED
    BY <1>2, <1>3, <1>4

\* As many keys as entries.
LEMMA MappingSize ==
  ASSUME NEW S, Single(S), IsFiniteSet(S)
  PROVE  Cardinality(DOMAIN Mapping(S)) = Cardinality(S)
  <1>1. PICK D : D = DOMAIN Mapping(S)
    OBVIOUS
  <1>2. D = {e.key : e \in S}
    BY <1>1 DEF Mapping
  <1>3. PICK f : f = [e \in S |-> e.key]
    OBVIOUS
  <1>4. f \in Injection(S, D)
    BY <1>2, <1>3 DEF Injection, IsInjective, Single
  <1>5. f \in Surjection(S, D)
    BY <1>2, <1>3 DEF Surjection
  <1>6. ExistsBijection(S, D)
    BY <1>4, <1>5 DEF ExistsBijection, Bijection
  <1> QED
    BY <1>1, <1>6, FS_Bijection

\* What the map stores is a dictionary, and whether a key is in it.
LEMMA StoredMaps ==
  ASSUME IInv, Table
  PROVE  /\ Single(Stored)
         /\ \A k \in Key : /\ Found(k) = 0 <=> k \notin DOMAIN Mapping(Stored)
                           /\ Found(k) # 0 => Mapping(Stored)[k] = Bucket(k)[Found(k)].value
         /\ Cardinality(DOMAIN Mapping(Stored)) = Cardinality(Stored)
  <1>1. Single(Stored)
    BY KeysApart DEF Single
  <1>2. ASSUME NEW k \in Key
        PROVE  /\ Found(k) = 0 <=> k \notin DOMAIN Mapping(Stored)
               /\ Found(k) # 0 => Mapping(Stored)[k] = Bucket(k)[Found(k)].value
    <2>1. CASE Found(k) = 0
      BY <2>1, FoundIs DEF Mapping
    <2>2. CASE Found(k) # 0
      <3>1. PICK e \in Stored : e = Bucket(k)[Found(k)] /\ e.key = k
        BY <2>2, FoundIs
      <3> QED
        BY <1>1, <2>2, <3>1, MappingIs
    <2> QED
      BY <2>1, <2>2
  <1> QED
    BY <1>1, <1>2, MappingSize DEF Table

\* insert, erase and clear, for the dictionary.
LEMMA PutIs ==
  ASSUME IInv, NEW k \in Key, NEW v \in Val, InsertNew(k, v) \/ Replace(k, v)
  PROVE  Abstract!Put(k, v)
  <1>1. PICK n : n = [key |-> k, value |-> v]
    OBVIOUS
  <1>2. n.key = k /\ n.value = v
    BY <1>1
  <1>3. Table /\ Single(Stored) /\ answer' = 0
    BY InsertNewStores, ReplaceStores, StoredMaps DEF InsertNew, Replace
  <1>4. Stored' = {e \in Stored : e.key # n.key} \cup {n}
    <2>1. CASE InsertNew(k, v)
      <3>1. Stored' = Stored \cup {n}
        BY <1>1, <2>1, InsertNewStores
      <3>2. \A e \in Stored : e.key # k
        BY <1>3, <2>1, FoundIs DEF InsertNew
      <3> QED
        BY <1>2, <3>1, <3>2
    <2>2. CASE Replace(k, v)
      <3>1. PICK d \in Stored : d.key = k /\ Stored' = (Stored \ {d}) \cup {n}
        BY <1>1, <2>2, ReplaceStores
      <3>2. \A e \in Stored : e # d <=> e.key # k
        BY <1>3, <3>1 DEF Single
      <3> QED
        BY <1>2, <3>1, <3>2
    <2> QED
      BY <2>1, <2>2
  <1>5. PICK S : S = Stored
    OBVIOUS
  <1>6. Single(S) /\ Stored' = With(S, n)
    BY <1>3, <1>4, <1>5 DEF With
  <1>7. /\ DOMAIN Mapping(With(S, n)) = DOMAIN Mapping(S) \cup {n.key}
        /\ Mapping(With(S, n))[n.key] = n.value
        /\ \A j \in DOMAIN Mapping(S) \ {n.key} : Mapping(With(S, n))[j] = Mapping(S)[j]
    BY <1>6, MappingPut
  <1>8. DOMAIN Mapping(With(S, n)) = DOMAIN Mapping(S) \cup {k}
    BY <1>2, <1>7
  <1>9. Mapping(With(S, n)) = [j \in DOMAIN Mapping(S) \cup {k} |-> Mapping(With(S, n))[j]]
    BY <1>8 DEF Mapping
  <1>10. \A j \in DOMAIN Mapping(S) \cup {k} :
           Mapping(With(S, n))[j] = IF j = k THEN v ELSE Mapping(S)[j]
    BY <1>2, <1>7
  <1>11. Mapping(With(S, n)) = [j \in DOMAIN Mapping(S) \cup {k} |->
                                  IF j = k THEN v ELSE Mapping(S)[j]]
    BY <1>9, <1>10
  <1>12. Mapping(Stored) = Mapping(S) /\ Mapping(Stored)' = Mapping(With(S, n))
    BY <1>5, <1>6 DEF Mapping
  <1>13. Mapping(Stored)' = [j \in DOMAIN Mapping(Stored) \cup {k} |->
                               IF j = k THEN v ELSE Mapping(Stored)[j]]
    BY <1>11, <1>12
  <1> QED
    BY <1>3, <1>13 DEF Abstract!Put

LEMMA RemoveIs ==
  ASSUME IInv, NEW k \in Key, Erase(k)
  PROVE  Abstract!Remove(k)
  <1>1. Table /\ Single(Stored) /\ answer' = 0 /\ Found(k) # 0
    BY EraseStores, StoredMaps DEF Erase
  <1>2. PICK d \in Stored : d.key = k /\ Stored' = Stored \ {d}
    BY EraseStores
  <1>3. PICK S, T : S = Stored /\ T = Stored'
    OBVIOUS
  <1>4. Single(S) /\ T = {e \in S : e.key # k}
    BY <1>1, <1>2, <1>3 DEF Single
  <1>5. Mapping(T) = [j \in DOMAIN Mapping(S) \ {k} |-> Mapping(S)[j]]
    BY <1>4, MappingRemove
  <1>6. Mapping(Stored) = Mapping(S) /\ Mapping(Stored)' = Mapping(T)
    BY <1>3 DEF Mapping
  <1>7. k \in DOMAIN Mapping(Stored)
    BY <1>1, StoredMaps
  <1>8. Mapping(Stored)' = Abstract!Restrict(Mapping(Stored), DOMAIN Mapping(Stored) \ {k})
    BY <1>5, <1>6 DEF Abstract!Restrict
  <1> QED
    BY <1>1, <1>7, <1>8 DEF Abstract!Remove, Abstract!Present

LEMMA ClearIs ==
  ASSUME IInv, Clear
  PROVE  Abstract!Clear
  <1>1. Stored' = {} /\ answer' = 0
    BY ClearStep DEF Clear
  <1>2. DOMAIN Mapping(Stored)' = {}
    BY <1>1 DEF Mapping
  <1>3. Mapping(Stored)' = Abstract!Restrict(Mapping(Stored), {})
    BY <1>1, <1>2 DEF Abstract!Restrict, Mapping
  <1> QED
    BY <1>1, <1>3 DEF Abstract!Clear

\* The calls that leave the dictionary alone, with what they answer.
LEMMA RefuseIs ==
  ASSUME Stored' = Stored, answer' = -1
  PROVE  Abstract!Refuse
  <1>1. Mapping(Stored)' = Mapping(Stored)
    BY DEF Mapping
  <1> QED
    BY <1>1 DEF Abstract!Refuse

LEMMA SizeIs ==
  ASSUME IInv, stage = "ready", Stored' = Stored, answer' = size
  PROVE  Abstract!Size
  <1>1. Mapping(Stored)' = Mapping(Stored)
    BY DEF Mapping
  <1>2. size = Cardinality(DOMAIN Mapping(Stored))
    BY StoredMaps DEF IInv
  <1>3. Abstract!Cardinality(DOMAIN Mapping(Stored)) = Cardinality(DOMAIN Mapping(Stored))
    BY DEF Abstract!Cardinality, Cardinality
  <1> QED
    BY <1>1, <1>2, <1>3 DEF Abstract!Size

LEMMA QueryIs ==
  ASSUME IInv, NEW k \in Key, stage = "ready", Stored' = Stored
  PROVE  /\ answer' = -1 /\ Found(k) = 0 => Abstract!RemoveAbsent(k)
         /\ answer' = (IF Found(k) = 0 THEN Null ELSE Bucket(k)[Found(k)].value)
              => Abstract!Get(k)
         /\ answer' = (IF Found(k) = 0 THEN 0 ELSE 1) => Abstract!HasKey(k)
  <1>1. Mapping(Stored)' = Mapping(Stored)
    BY DEF Mapping
  <1>2. /\ Found(k) = 0 <=> k \notin DOMAIN Mapping(Stored)
        /\ Found(k) # 0 => Mapping(Stored)[k] = Bucket(k)[Found(k)].value
    BY StoredMaps DEF IInv
  <1>3. answer' = -1 /\ Found(k) = 0 => Abstract!RemoveAbsent(k)
    BY <1>2, RefuseIs DEF Abstract!RemoveAbsent, Abstract!Present
  <1>4. answer' = (IF Found(k) = 0 THEN Null ELSE Bucket(k)[Found(k)].value)
          => Abstract!Get(k)
    BY <1>1, <1>2 DEF Abstract!Get, Abstract!Present
  <1>5. answer' = (IF Found(k) = 0 THEN 0 ELSE 1) => Abstract!HasKey(k)
    BY <1>1, <1>2 DEF Abstract!HasKey, Abstract!Present
  <1> QED
    BY <1>3, <1>4, <1>5

\* What a call promises, by the operation it names.
LEMMA PromiseIs ==
  ASSUME NEW k, NEW v
  PROVE  /\ op' = <<"insert", k, v>> /\ answer' = 0 /\ Abstract!Put(k, v) => Promise(op')
         /\ op' = <<"insert", k, v>> /\ answer' # 0 /\ Abstract!Refuse => Promise(op')
         /\ op' = <<"insert_null">> /\ Abstract!Refuse => Promise(op')
         /\ op' = <<"find", k>> /\ Abstract!Get(k) => Promise(op')
         /\ op' = <<"has_key", k>> /\ Abstract!HasKey(k) => Promise(op')
         /\ op' = <<"erase", k>> /\ Abstract!Remove(k) => Promise(op')
         /\ op' = <<"erase", k>> /\ Abstract!RemoveAbsent(k) => Promise(op')
         /\ op' = <<"clear">> /\ Abstract!Clear => Promise(op')
         /\ op' = <<"get_size">> /\ Abstract!Size => Promise(op')
         /\ op' = <<"init">> => Promise(op')
         /\ op' = <<"destroy">> => Promise(op')
  <1>1. op' = <<"insert", k, v>> /\ answer' = 0 /\ Abstract!Put(k, v) => Promise(op')
    <2> SUFFICES ASSUME op' = <<"insert", k, v>> /\ answer' = 0 /\ Abstract!Put(k, v)
                 PROVE  Promise(op')
      OBVIOUS
    <2>1. op'[1] = "insert" /\ op'[2] = k /\ op'[3] = v
      OBVIOUS
    <2> QED
      BY <2>1 DEF Promise
  <1>2. op' = <<"insert", k, v>> /\ answer' # 0 /\ Abstract!Refuse => Promise(op')
    <2> SUFFICES ASSUME op' = <<"insert", k, v>> /\ answer' # 0 /\ Abstract!Refuse
                 PROVE  Promise(op')
      OBVIOUS
    <2>1. op'[1] = "insert"
      OBVIOUS
    <2> QED
      BY <2>1 DEF Promise
  <1>3. op' = <<"insert_null">> /\ Abstract!Refuse => Promise(op')
    <2> SUFFICES ASSUME op' = <<"insert_null">> /\ Abstract!Refuse
                 PROVE  Promise(op')
      OBVIOUS
    <2>1. op'[1] = "insert_null"
      OBVIOUS
    <2> QED
      BY <2>1 DEF Promise
  <1>4. op' = <<"find", k>> /\ Abstract!Get(k) => Promise(op')
    <2> SUFFICES ASSUME op' = <<"find", k>> /\ Abstract!Get(k)
                 PROVE  Promise(op')
      OBVIOUS
    <2>1. op'[1] = "find" /\ op'[2] = k
      OBVIOUS
    <2> QED
      BY <2>1 DEF Promise
  <1>5. op' = <<"has_key", k>> /\ Abstract!HasKey(k) => Promise(op')
    <2> SUFFICES ASSUME op' = <<"has_key", k>> /\ Abstract!HasKey(k)
                 PROVE  Promise(op')
      OBVIOUS
    <2>1. op'[1] = "has_key" /\ op'[2] = k
      OBVIOUS
    <2> QED
      BY <2>1 DEF Promise
  <1>6. op' = <<"erase", k>> /\ Abstract!Remove(k) => Promise(op')
    <2> SUFFICES ASSUME op' = <<"erase", k>> /\ Abstract!Remove(k)
                 PROVE  Promise(op')
      OBVIOUS
    <2>1. op'[1] = "erase" /\ op'[2] = k
      OBVIOUS
    <2> QED
      BY <2>1 DEF Promise
  <1>7. op' = <<"erase", k>> /\ Abstract!RemoveAbsent(k) => Promise(op')
    <2> SUFFICES ASSUME op' = <<"erase", k>> /\ Abstract!RemoveAbsent(k)
                 PROVE  Promise(op')
      OBVIOUS
    <2>1. op'[1] = "erase" /\ op'[2] = k
      OBVIOUS
    <2> QED
      BY <2>1 DEF Promise
  <1>8. op' = <<"clear">> /\ Abstract!Clear => Promise(op')
    <2> SUFFICES ASSUME op' = <<"clear">> /\ Abstract!Clear
                 PROVE  Promise(op')
      OBVIOUS
    <2>1. op'[1] = "clear"
      OBVIOUS
    <2> QED
      BY <2>1 DEF Promise
  <1>9. op' = <<"get_size">> /\ Abstract!Size => Promise(op')
    <2> SUFFICES ASSUME op' = <<"get_size">> /\ Abstract!Size
                 PROVE  Promise(op')
      OBVIOUS
    <2>1. op'[1] = "get_size"
      OBVIOUS
    <2> QED
      BY <2>1 DEF Promise
  <1>10. op' = <<"init">> => Promise(op')
    <2> SUFFICES ASSUME op' = <<"init">>
                 PROVE  Promise(op')
      OBVIOUS
    <2>1. op'[1] = "init"
      OBVIOUS
    <2> QED
      BY <2>1 DEF Promise
  <1>11. op' = <<"destroy">> => Promise(op')
    <2> SUFFICES ASSUME op' = <<"destroy">>
                 PROVE  Promise(op')
      OBVIOUS
    <2>1. op'[1] = "destroy"
      OBVIOUS
    <2> QED
      BY <2>1 DEF Promise
  <1> QED
    BY <1>1, <1>2, <1>3, <1>4, <1>5, <1>6, <1>7, <1>8, <1>9, <1>10, <1>11

\* Each operation changes the map, and answers, as a partial function would,
\* whatever the hash codes and the capacity (hash_map.cpp:74-163).
THEOREM MapImplementsDictionary == Spec => Abstract!Init /\ MapSteps
  <1>1. Init => Abstract!Init
    <2> SUFFICES ASSUME Init
                 PROVE  Abstract!Init
      OBVIOUS
    <2>1. entryList = << >> /\ answer = Null
      BY DEF Init
    <2>2. Stored = {}
      BY <2>1, NothingStored
    <2>3. Mapping(Stored) = [k \in {} |-> Null]
      BY <2>2 DEF Mapping
    <2> QED
      BY <2>1, <2>3 DEF Abstract!Init
  <1>2. IInv /\ [Next]_vars => [Promise(op')]_vars
    <2> SUFFICES ASSUME IInv, Next
                 PROVE  Promise(op')
      OBVIOUS
    <2>1. CASE InitMap \/ InitFails \/ Destruct
      <3>1. op' = <<"init">> \/ op' = <<"destroy">>
        BY <2>1 DEF InitMap, InitFails, InitCall, Destruct, Ready
      <3> QED
        BY <3>1, PromiseIs
    <2>2. CASE Clear
      <3>1. op' = <<"clear">>
        BY <2>2 DEF Clear, Ready
      <3> QED
        BY <2>2, <3>1, ClearIs, PromiseIs
    <2>3. CASE InsertNull \/ GetSize
      <3>1. Stored' = Stored /\ stage = "ready"
        BY <2>3, OtherStep DEF InsertNull, GetSize, Ready
      <3>2. \/ op' = <<"insert_null">> /\ answer' = -1
            \/ op' = <<"get_size">> /\ answer' = size
        BY <2>3 DEF InsertNull, GetSize, Ready
      <3> QED
        BY <3>1, <3>2, RefuseIs, SizeIs, PromiseIs
    <2>4. ASSUME NEW k \in Key, NEW v \in Val, InsertNew(k, v) \/ Replace(k, v)
          PROVE  Promise(op')
      <3>1. op' = <<"insert", k, v>> /\ answer' = 0
        BY <2>4 DEF InsertNew, Replace, Ready
      <3>2. Abstract!Put(k, v)
        BY <2>4, PutIs
      <3> QED
        BY <3>1, <3>2, PromiseIs
    <2>5. ASSUME NEW k \in Key, NEW v \in Val, InsertFails(k, v)
          PROVE  Promise(op')
      <3>1. op' = <<"insert", k, v>> /\ answer' = -1
        BY <2>5 DEF InsertFails, Ready
      <3>2. Stored' = Stored
        BY <2>5, OtherStep
      <3> QED
        BY <3>1, <3>2, RefuseIs, PromiseIs
    <2>6. ASSUME NEW k \in Key, Erase(k)
          PROVE  Promise(op')
      <3>1. op' = <<"erase", k>>
        BY <2>6 DEF Erase, Ready
      <3>2. Abstract!Remove(k)
        BY <2>6, RemoveIs
      <3> QED
        BY <3>1, <3>2, PromiseIs
    <2>7. ASSUME NEW k \in Key, Find(k) \/ HasKey(k) \/ EraseAbsent(k)
          PROVE  Promise(op')
      <3>1. Stored' = Stored /\ stage = "ready"
        BY <2>7, OtherStep DEF Find, HasKey, EraseAbsent, Ready
      <3>2. CASE Find(k)
        <4>1. op' = <<"find", k>> /\ Abstract!Get(k)
          BY <3>1, <3>2, QueryIs DEF Find, Ready
        <4> QED
          BY <4>1, PromiseIs
      <3>3. CASE HasKey(k)
        <4>1. op' = <<"has_key", k>> /\ Abstract!HasKey(k)
          BY <3>1, <3>3, QueryIs DEF HasKey, Ready
        <4> QED
          BY <4>1, PromiseIs
      <3>4. CASE EraseAbsent(k)
        <4>1. op' = <<"erase", k>> /\ Abstract!RemoveAbsent(k)
          BY <3>1, <3>4, QueryIs DEF EraseAbsent, Ready
        <4> QED
          BY <4>1, PromiseIs
      <3> QED
        BY <2>7, <3>2, <3>3, <3>4
    <2> QED
      BY <2>1, <2>2, <2>3, <2>4, <2>5, <2>6, <2>7 DEF Next
  <1> QED
    BY <1>1, <1>2, Invariance, PTL DEF Spec, MapSteps
=============================================================================
