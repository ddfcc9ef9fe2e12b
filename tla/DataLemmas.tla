---------------------------- MODULE DataLemmas ----------------------------
(***************************************************************************)
(* Facts about numbers, sequences, sets and sums that the proofs about     *)
(* several components use.                                                 *)
(*                                                                         *)
(* What holds of every finite set, or of every number, is proved by a      *)
(* smallest counterexample: the induction theorems of the library take a   *)
(* predicate as parameter, for which the provers cannot be given one.      *)
(***************************************************************************)
EXTENDS Integers, SequenceTheorems, FiniteSetTheorems, WellFoundedInduction, TLAPS

-----------------------------------------------------------------------------
(* Remainders                                                                *)

\* Every number has a quotient and a remainder.
LEMMA QuotientRemainder ==
  ASSUME NEW S \in Nat \ {0}, NEW a \in Nat
  PROVE  \E q \in Nat, r \in 0 .. (S - 1) : a = S * q + r /\ a % S = r
  <1>1. a \div S \in Nat
    OBVIOUS
  <1>2. a % S \in 0 .. (S - 1)
    OBVIOUS
  <1>3. a = S * (a \div S) + (a % S)
    OBVIOUS
  <1> QED
    BY <1>1, <1>2, <1>3

\* Different multiples of S are at least S apart.
LEMMA MultiplesApart ==
  ASSUME NEW S \in Nat \ {0}, NEW p \in Int, NEW q \in Int, p < q
  PROVE  S * p + S <= S * q
  <1>1. q - p - 1 \in Nat
    OBVIOUS
  <1>2. S * (q - p - 1) >= 0
    BY <1>1
  <1>3. S * (q - p - 1) = S * q - S * p - S
    OBVIOUS
  <1> QED
    BY <1>2, <1>3

\* Quotient and remainder are unique.
LEMMA RemainderUnique ==
  ASSUME NEW S \in Nat \ {0}, NEW p \in Int, NEW q \in Int,
         NEW r \in 0 .. (S - 1), NEW s \in 0 .. (S - 1),
         S * p + r = S * q + s
  PROVE  p = q /\ r = s
  <1>1. ~(p < q)
    BY MultiplesApart
  <1>2. ~(q < p)
    BY MultiplesApart
  <1> QED
    BY <1>1, <1>2

\* A number written as a multiple of S plus r < S has remainder r.
LEMMA RemainderIs ==
  ASSUME NEW S \in Nat \ {0}, NEW q \in Nat, NEW r \in 0 .. (S - 1),
         NEW a \in Nat, a = S * q + r
  PROVE  a % S = r
  <1>1. PICK p \in Nat, s \in 0 .. (S - 1) : a = S * p + s /\ a % S = s
    BY QuotientRemainder
  <1>2. S * p + s = S * q + r
    BY <1>1
  <1>3. s = r
    BY ONLY <1>2, RemainderUnique
  <1> QED
    BY <1>1, <1>3

\* A quotient is known by its remainder.
LEMMA QuotientIs ==
  ASSUME NEW S \in Nat \ {0}, NEW q \in Nat, NEW r \in 0 .. (S - 1), NEW a \in Nat, a = S * q + r
  PROVE  a \div S = q
  <1>1. PICK p \in Nat, s \in 0 .. (S - 1) : p = a \div S /\ a = S * p + s
    <2>1. a \div S \in Nat /\ a % S \in 0 .. (S - 1) /\ a = S * (a \div S) + (a % S)
      OBVIOUS
    <2> QED
      BY <2>1
  <1> QED
    BY <1>1, RemainderUnique

\* Within a window of S numbers the remainder identifies the number.
LEMMA WindowInjective ==
  ASSUME NEW S \in Nat \ {0}, NEW a \in Nat, NEW b \in Nat,
         a <= b, b < a + S, a % S = b % S
  PROVE  a = b
  <1>1. PICK p \in Nat, s \in 0 .. (S - 1) : a = S * p + s /\ a % S = s
    BY QuotientRemainder
  <1>2. PICK q \in Nat, r \in 0 .. (S - 1) : b = S * q + r /\ b % S = r
    BY QuotientRemainder
  <1>3. r = s
    BY <1>1, <1>2
  <1>4. S * p <= S * q /\ S * q < S * p + S
    BY ONLY <1>1, <1>2, <1>3, a <= b, b < a + S, a \in Nat, b \in Nat,
            S \in Nat \ {0}
  <1>5. ~(p < q)
    BY ONLY <1>4, MultiplesApart, S \in Nat \ {0}
  <1>6. ~(q < p)
    BY ONLY <1>4, MultiplesApart, S \in Nat \ {0}
  <1>7. p = q
    BY <1>5, <1>6
  <1> QED
    BY <1>1, <1>2, <1>3, <1>7

\* Going round once does not change the remainder.
LEMMA RemainderPeriodic ==
  ASSUME NEW S \in Nat \ {0}, NEW a \in Nat
  PROVE  (a + S) % S = a % S
  <1>1. PICK p \in Nat, s \in 0 .. (S - 1) : a = S * p + s /\ a % S = s
    BY QuotientRemainder
  <1>2. a + S = S * (p + 1) + s
    BY <1>1
  <1> QED
    BY <1>2, <1>1, RemainderIs

\* The remainder of the successor.
LEMMA RemainderOfSuccessor ==
  ASSUME NEW S \in Nat \ {0}, NEW a \in Nat, NEW b \in Nat, b = a + 1
  PROVE  b % S = IF a % S = S - 1 THEN 0 ELSE (a % S) + 1
  <1>1. PICK p \in Nat, s \in 0 .. (S - 1) : a = S * p + s /\ a % S = s
    BY QuotientRemainder
  <1>2. CASE s = S - 1
    <2>1. PICK q \in Nat : q = p + 1
      OBVIOUS
    <2>2. PICK z \in 0 .. (S - 1) : z = 0
      OBVIOUS
    <2>3. S * q = S * p + S
      BY <2>1
    <2>4. b = S * q + z
      BY <1>1, <1>2, <2>2, <2>3
    <2>5. b % S = z
      BY ONLY <2>4, RemainderIs, S \in Nat \ {0}, b \in Nat, q \in Nat,
              z \in 0 .. (S - 1)
    <2> QED
      BY <1>1, <1>2, <2>2, <2>5
  <1>3. CASE s # S - 1
    <2>1. PICK r \in 0 .. (S - 1) : r = s + 1
      BY <1>3
    <2>2. b = S * p + r
      BY <1>1, <2>1
    <2>3. b % S = r
      BY ONLY <2>2, RemainderIs, S \in Nat \ {0}, b \in Nat, p \in Nat,
              r \in 0 .. (S - 1)
    <2> QED
      BY <1>1, <1>3, <2>1, <2>3
  <1> QED
    BY <1>2, <1>3

\* Stepping a remainder is the same as stepping the number.
LEMMA SuccessorOfRemainder ==
  ASSUME NEW S \in Nat \ {0}, NEW a \in Nat
  PROVE  ((a % S) + 1) % S = (a + 1) % S
  <1>1. PICK s \in Nat : s \in 0 .. (S - 1) /\ s = a % S
    BY QuotientRemainder
  <1>2. s = S * 0 + s
    OBVIOUS
  <1>3. s % S = s
    BY ONLY <1>1, <1>2, RemainderIs, S \in Nat \ {0}, 0 \in Nat
  <1>4. PICK b \in Nat : b = a + 1
    OBVIOUS
  <1>5. PICK t \in Nat : t = s + 1
    OBVIOUS
  <1>6. b % S = IF a % S = S - 1 THEN 0 ELSE (a % S) + 1
    BY <1>4, RemainderOfSuccessor
  <1>7. t % S = IF s % S = S - 1 THEN 0 ELSE (s % S) + 1
    BY <1>5, RemainderOfSuccessor
  <1>8. b % S = t % S
    BY ONLY <1>1, <1>3, <1>6, <1>7
  <1> QED
    BY ONLY <1>1, <1>4, <1>5, <1>8

\* A number of one period is its own remainder; one of the period below zero
\* is brought back by the divisor.
LEMMA RemainderAround ==
  ASSUME NEW S \in Nat \ {0}, NEW x \in Int, -S <= x, x < S
  PROVE  x % S = IF x < 0 THEN x + S ELSE x
  <1>1. PICK q \in Int : x = S * q + (x % S)
    <2>1. x = S * (x \div S) + (x % S)
      OBVIOUS
    <2>2. x \div S \in Int
      OBVIOUS
    <2> QED
      BY <2>1, <2>2
  <1>. x % S \in 0 .. (S - 1)
    OBVIOUS
  <1>2. CASE x < 0
    <2>1. x = S * (-1) + (x + S) /\ x + S \in 0 .. (S - 1)
      BY <1>2
    <2> QED
      BY <1>1, <1>2, <2>1, RemainderUnique
  <1>3. CASE ~(x < 0)
    <2>1. x = S * 0 + x /\ x \in 0 .. (S - 1)
      BY <1>3
    <2> QED
      BY <1>1, <1>3, <2>1, RemainderUnique
  <1> QED
    BY <1>2, <1>3

\* The masked difference of two indexes is the difference of the counts they
\* stand for, while the counts are less than a period apart.
LEMMA RemainderOfDifference ==
  ASSUME NEW S \in Nat \ {0}, NEW a \in Nat, NEW b \in Nat,
         a <= b, b < a + S
  PROVE  ((b % S) - (a % S)) % S = b - a
  <1>1. PICK p \in Nat, s \in 0 .. (S - 1) : a = S * p + s /\ a % S = s
    BY QuotientRemainder
  <1>2. PICK q \in Nat, r \in 0 .. (S - 1) : b = S * q + r /\ b % S = r
    BY QuotientRemainder
  <1>3. PICK x \in Int : x = r - s
    OBVIOUS
  <1>4. S * (q - p) + x = b - a
    <2>1. S * (q - p) = S * q - S * p
      OBVIOUS
    <2> QED
      BY <1>1, <1>2, <1>3, <2>1
  <1>5. -S <= x /\ x < S
    BY <1>3
  <1>6. x % S = b - a
    <2>1. CASE x >= 0
      <3>1. x % S = x
        BY <1>5, <2>1, RemainderAround
      <3>2. S * (q - p) + x = S * 0 + (b - a)
        BY <1>4
      <3>3. x = b - a
        BY ONLY <1>5, <2>1, <3>2, RemainderUnique, q \in Int, p \in Int, x \in Int,
           b - a \in 0 .. (S - 1), S \in Nat \ {0}
      <3> QED
        BY <3>1, <3>3
    <2>2. CASE x < 0
      <3>1. x % S = x + S
        BY <1>5, <2>2, RemainderAround
      <3>2. S * (q - p - 1) + (x + S) = S * 0 + (b - a)
        <4>1. S * (q - p - 1) = S * (q - p) - S
          OBVIOUS
        <4> QED
          BY <1>4, <4>1
      <3>3. x + S = b - a
        <4>1. PICK k \in Int, y \in 0 .. (S - 1), d \in 0 .. (S - 1) :
                 k = q - p - 1 /\ y = x + S /\ d = b - a
          BY <1>5, <2>2
        <4>2. S * k + y = S * 0 + d
          BY <3>2, <4>1
        <4>3. y = d
          BY <4>2, RemainderUnique
        <4> QED
          BY <4>1, <4>3
      <3> QED
        BY <3>1, <3>3
    <2> QED
      BY <2>1, <2>2
  <1> QED
    BY <1>1, <1>2, <1>3, <1>6, Zenon

-----------------------------------------------------------------------------
(* Sequences                                                                 *)

\* Appending to a sequence leaves its parts alone.
LEMMA SubSeqOfAppend ==
  ASSUME NEW S, NEW s \in Seq(S), NEW e \in S,
         NEW m \in Nat \ {0}, NEW n \in 0 .. Len(s)
  PROVE  SubSeq(Append(s, e), m, n) = SubSeq(s, m, n)
  <1>1. \A i \in m .. n : s[i] \in S /\ Append(s, e)[i] = s[i]
    BY AppendProperties, ElementOfSeq
  <1>2. /\ SubSeq(s, m, n) \in Seq(S)
        /\ Len(SubSeq(s, m, n)) = IF m <= n THEN n - m + 1 ELSE 0
        /\ \A i \in 1 .. n - m + 1 : SubSeq(s, m, n)[i] = s[m + i - 1]
    BY <1>1, SubSeqProperties
  <1>3. /\ SubSeq(Append(s, e), m, n) \in Seq(S)
        /\ Len(SubSeq(Append(s, e), m, n)) = IF m <= n THEN n - m + 1 ELSE 0
        /\ \A i \in 1 .. n - m + 1 :
              SubSeq(Append(s, e), m, n)[i] = Append(s, e)[m + i - 1]
    BY <1>1, SubSeqProperties
  <1>4. \A i \in 1 .. Len(SubSeq(s, m, n)) :
           SubSeq(Append(s, e), m, n)[i] = SubSeq(s, m, n)[i]
    BY <1>1, <1>2, <1>3
  <1> QED
    BY <1>2, <1>3, <1>4, SeqEqual

\* A part that ends one later has one element more at its end.
LEMMA SubSeqLonger ==
  ASSUME NEW S, NEW s \in Seq(S), NEW n \in 0 .. (Len(s) - 1), NEW m \in 1 .. (n + 1)
  PROVE  SubSeq(s, m, n + 1) = Append(SubSeq(s, m, n), s[n + 1])
  <1>1. \A i \in m .. n : s[i] \in S
    BY ElementOfSeq
  <1>2. s[n + 1] \in S
    BY ElementOfSeq
  <1>3. SubSeq(s, m, n) \in Seq(S)
    BY <1>1, SubSeqProperties
  <1>4. SubSeq(s, m, n + 1) = SubSeq(s, m, (n + 1) - 1) \o << s[n + 1] >>
    BY SubSeqRecursiveSecond
  <1> QED
    BY <1>2, <1>3, <1>4, AppendIsConcat

\* The data of a longer sequence of records.
LEMMA DataOfAppend ==
  ASSUME NEW R, NEW s \in Seq(R), NEW e \in R
  PROVE  Append([i \in DOMAIN s |-> s[i].data], e.data)
           = [i \in DOMAIN Append(s, e) |-> Append(s, e)[i].data]
  <1> DEFINE n == Len(s)
             d == [i \in DOMAIN s |-> s[i].data]
             D == {s[i].data : i \in 1 .. n} \cup {e.data}
             t == [i \in DOMAIN Append(s, e) |-> Append(s, e)[i].data]
  <1>1. /\ n \in Nat /\ DOMAIN s = 1 .. n /\ DOMAIN Append(s, e) = 1 .. (n + 1)
        /\ \A i \in 1 .. n : Append(s, e)[i] = s[i]
        /\ Append(s, e)[n + 1] = e
    BY AppendProperties
  <1>2. d \in Seq(D) /\ Len(d) = n /\ \A i \in 1 .. n : d[i] = s[i].data
    BY <1>1
  <1>3. /\ Append(d, e.data) \in Seq(D) /\ Len(Append(d, e.data)) = n + 1
        /\ \A i \in 1 .. n : Append(d, e.data)[i] = d[i]
        /\ Append(d, e.data)[n + 1] = e.data
    <2> HIDE DEF d
    <2>1. e.data \in D
      OBVIOUS
    <2> HIDE DEF D, n
    <2> QED
      BY <1>2, <2>1, AppendProperties
  <1>4. t = [i \in 1 .. (n + 1) |-> Append(s, e)[i].data]
    BY <1>1
  <1>5. t \in Seq(D) /\ Len(t) = n + 1
    BY <1>1, <1>4
  <1>6. \A i \in 1 .. (n + 1) : Append(d, e.data)[i] = t[i]
    BY <1>1, <1>2, <1>3, <1>4
  <1> HIDE DEF d, t, D, n
  <1> QED
    BY <1>1, <1>3, <1>5, <1>6, SeqEqual DEF d, t

-----------------------------------------------------------------------------
(* Finite sets and natural numbers                                           *)

\* Among sets of elements of a finite set one has none of the others inside.
LEMMA SmallestSet ==
  ASSUME NEW S, IsFiniteSet(S), NEW C \in SUBSET (SUBSET S), C # {}
  PROVE  \E T \in C : \A U \in C : U \subseteq T => U = T
  <1>1. C \subseteq FiniteSubsetsOf(S)
    BY FS_Subset DEF FiniteSubsetsOf
  <1>2. \E T \in C : \A U \in C : ~(<<U, T>> \in StrictSubsetOrdering(S))
    BY <1>1, FS_StrictSubsetOrderingWellFounded, WFMin
  <1> QED
    BY <1>2 DEF StrictSubsetOrdering

\* A set of natural numbers has a least one.
LEMMA LeastNumber ==
  ASSUME NEW S \in SUBSET Nat, S # {}
  PROVE  \E n \in S : \A k \in S : n <= k
  <1>1. PICK m \in S : TRUE
    OBVIOUS
  <1> DEFINE C == {0 .. n : n \in {k \in S : k <= m}}
  <1>2. IsFiniteSet(0 .. m)
    BY FS_Interval
  <1>3. C \in SUBSET (SUBSET (0 .. m)) /\ C # {}
    OBVIOUS
  <1>4. PICK T \in C : \A U \in C : U \subseteq T => U = T
    <2> HIDE DEF C
    <2>1. PICK I : I = 0 .. m
      OBVIOUS
    <2>2. IsFiniteSet(I) /\ C \in SUBSET (SUBSET I) /\ C # {}
      BY <1>2, <1>3, <2>1, Zenon
    <2> QED
      BY <2>2, SmallestSet
  <1>5. PICK n \in S : n <= m /\ T = 0 .. n
    BY <1>4
  <1>6. ASSUME NEW k \in S, k < n
        PROVE  FALSE
    <2>1. 0 .. k \in C /\ 0 .. k \subseteq T
      BY <1>5, <1>6
    <2>2. 0 .. k = 0 .. n
      BY <1>4, <1>5, <2>1
    <2>3. n \in 0 .. n /\ n \notin 0 .. k
      BY <1>6
    <2> QED
      BY <2>2, <2>3
  <1> QED
    BY <1>5, <1>6

-----------------------------------------------------------------------------
(* Sums                                                                    *)

\* The sum of f over the elements of S, taken away one by one.
SumOver(f, S) ==
    LET sum[T \in SUBSET S] == IF T = {} THEN 0
                               ELSE LET p == CHOOSE p \in T : TRUE
                                    IN  f[p] + sum[T \ {p}]
    IN  sum[S]

\* A function that does what the definition says of the subsets of S.
Sums(s, f, S) ==
    s = [T \in SUBSET S |-> IF T = {} THEN 0
                            ELSE LET p == CHOOSE p \in T : TRUE
                                 IN  f[p] + s[T \ {p}]]

Picked(T) == CHOOSE p \in T : TRUE

\* The same, element by element.
LEMMA SumsMeans ==
  ASSUME NEW S, NEW f, NEW s, Sums(s, f, S), NEW T \in SUBSET S
  PROVE  s[T] = IF T = {} THEN 0 ELSE f[Picked(T)] + s[T \ {Picked(T)}]
  <1> QED
    BY DEF Sums, Picked

\* Two such functions agree where both are defined.
LEMMA SumsAgree ==
  ASSUME NEW U, NEW V, NEW f, NEW s, NEW t, Sums(s, f, U), Sums(t, f, V),
         NEW W \in SUBSET U, W \in SUBSET V, IsFiniteSet(W)
  PROVE  s[W] = t[W]
  <1> DEFINE C == {X \in SUBSET W : s[X] # t[X]}
  <1> SUFFICES ASSUME C # {}
               PROVE  FALSE
    OBVIOUS
  <1>1. PICK X \in C : \A Y \in C : Y \subseteq X => Y = X
    <2>1. C \in SUBSET (SUBSET W)
      OBVIOUS
    <2> HIDE DEF C
    <2> QED
      BY <2>1, SmallestSet
  <1>2. /\ s[X] = IF X = {} THEN 0 ELSE f[Picked(X)] + s[X \ {Picked(X)}]
        /\ t[X] = IF X = {} THEN 0 ELSE f[Picked(X)] + t[X \ {Picked(X)}]
    BY <1>1, SumsMeans
  <1>3. X # {} => s[X \ {Picked(X)}] = t[X \ {Picked(X)}]
    <2> SUFFICES ASSUME X # {}
                 PROVE  s[X \ {Picked(X)}] = t[X \ {Picked(X)}]
      OBVIOUS
    <2>1. Picked(X) \in X
      BY DEF Picked
    <2>2. X \ {Picked(X)} \notin C
      BY <1>1, <2>1
    <2>3. X \ {Picked(X)} \in SUBSET W
      BY <1>1
    <2> QED
      BY <2>2, <2>3
  <1> QED
    BY <1>1, <1>2, <1>3

\* There is one: what the proper subsets of a smallest set without have would
\* make one for it.
LEMMA SumsExist ==
  ASSUME NEW S, IsFiniteSet(S), NEW f
  PROVE  \E s : Sums(s, f, S)
  <1> DEFINE C == {T \in SUBSET S : ~\E s : Sums(s, f, T)}
  <1> SUFFICES ASSUME C # {}
               PROVE  FALSE
    OBVIOUS
  <1>1. PICK T \in C : \A U \in C : U \subseteq T => U = T
    <2>1. C \in SUBSET (SUBSET S)
      OBVIOUS
    <2> HIDE DEF C
    <2> QED
      BY <2>1, SmallestSet
  <1>2. \A U \in SUBSET T : U # T => \E s : Sums(s, f, U)
    BY <1>1
  <1> DEFINE a(U) == CHOOSE s : Sums(s, f, U)
             v == [U \in SUBSET T |->
                     IF U = {} THEN 0
                     ELSE f[Picked(U)] + a(U \ {Picked(U)})[U \ {Picked(U)}]]
  <1>3. \A U \in SUBSET T : U # T => Sums(a(U), f, U)
    BY <1>2
  <1>4. \A U \in SUBSET T : IsFiniteSet(U)
    BY <1>1, FS_Subset
  <1>5. \A U \in SUBSET T : U # {} => Picked(U) \in U
    BY DEF Picked
  <1> HIDE DEF a
  <1>6. ASSUME NEW U \in SUBSET T, U # T
        PROVE  v[U] = a(U)[U]
    <2>1. a(U)[U] = IF U = {} THEN 0 ELSE f[Picked(U)] + a(U)[U \ {Picked(U)}]
      BY <1>3, <1>6, SumsMeans
    <2>2. CASE U # {}
      <3> DEFINE W == U \ {Picked(U)}
      <3>1. W \in SUBSET T /\ W # T /\ W \in SUBSET U /\ IsFiniteSet(W)
        BY <1>4, <1>5, <1>6, <2>2
      <3>2. Sums(a(W), f, W) /\ Sums(a(U), f, U)
        BY <1>3, <1>6, <3>1
      <3>3. a(W)[W] = a(U)[W]
        <4> HIDE DEF W
        <4> QED
          BY <3>1, <3>2, SumsAgree
      <3> QED
        BY <2>1, <2>2, <3>3
    <2> QED
      BY <2>1, <2>2
  <1>7. ASSUME NEW U \in SUBSET T, U # {}
        PROVE  v[U] = f[Picked(U)] + v[U \ {Picked(U)}]
    <2>1. U \ {Picked(U)} \in SUBSET T /\ U \ {Picked(U)} # T
      BY <1>5, <1>7
    <2>2. v[U \ {Picked(U)}] = a(U \ {Picked(U)})[U \ {Picked(U)}]
      <3> HIDE DEF v
      <3> QED
        BY <1>6, <2>1
    <2>3. v[U] = f[Picked(U)] + a(U \ {Picked(U)})[U \ {Picked(U)}]
      BY <1>7
    <2> QED
      BY <2>2, <2>3, Zenon
  <1>8. v[{}] = 0
    OBVIOUS
  <1>9. v = [U \in SUBSET T |-> v[U]]
    OBVIOUS
  <1>10. Sums(v, f, T)
    <2> HIDE DEF v
    <2>1. \A U \in SUBSET T : v[U] = IF U = {} THEN 0 ELSE f[Picked(U)] + v[U \ {Picked(U)}]
      BY <1>7, <1>8
    <2> QED
      BY <1>9, <2>1 DEF Sums, Picked
  <1> QED
    BY <1>1, <1>10

\* So the definition means what it says.
LEMMA SumOverStep ==
  ASSUME NEW S, IsFiniteSet(S), NEW f
  PROVE  SumOver(f, S) = IF S = {} THEN 0
                         ELSE f[Picked(S)] + SumOver(f, S \ {Picked(S)})
  <1> DEFINE a(U) == CHOOSE s : Sums(s, f, U)
  <1>1. \A U : SumOver(f, U) = a(U)[U]
    BY DEF SumOver, Sums
  <1>2. \A U \in SUBSET S : IsFiniteSet(U) /\ Sums(a(U), f, U)
    BY FS_Subset, SumsExist
  <1> HIDE DEF a
  <1>3. a(S)[S] = IF S = {} THEN 0 ELSE f[Picked(S)] + a(S)[S \ {Picked(S)}]
    BY <1>2, SumsMeans
  <1>4. a(S)[S \ {Picked(S)}] = a(S \ {Picked(S)})[S \ {Picked(S)}]
    BY <1>2, SumsAgree
  <1> QED
    BY <1>1, <1>3, <1>4

\* A sum of natural numbers is one.
LEMMA SumOverType ==
  ASSUME NEW S, IsFiniteSet(S), NEW D, S \subseteq D, NEW f \in [D -> Nat]
  PROVE  SumOver(f, S) \in Nat
  <1> DEFINE C == {T \in SUBSET S : SumOver(f, T) \notin Nat}
  <1> SUFFICES ASSUME C # {}
               PROVE  FALSE
    OBVIOUS
  <1>1. PICK T \in C : \A U \in C : U \subseteq T => U = T
    <2>1. C \in SUBSET (SUBSET S)
      OBVIOUS
    <2> HIDE DEF C
    <2> QED
      BY <2>1, SmallestSet
  <1>2. SumOver(f, T) = IF T = {} THEN 0
                        ELSE f[Picked(T)] + SumOver(f, T \ {Picked(T)})
    BY <1>1, FS_Subset, SumOverStep
  <1>3. T # {} => Picked(T) \in T
    BY DEF Picked
  <1>4. T # {} => SumOver(f, T \ {Picked(T)}) \in Nat
    BY <1>1, <1>3
  <1> QED
    BY <1>1, <1>2, <1>3, <1>4

\* The sum of nothing but zeros.
LEMMA SumOverZero ==
  ASSUME NEW S, IsFiniteSet(S), NEW f, \A p \in S : f[p] = 0
  PROVE  SumOver(f, S) = 0
  <1> DEFINE C == {T \in SUBSET S : SumOver(f, T) # 0}
  <1> SUFFICES ASSUME C # {}
               PROVE  FALSE
    OBVIOUS
  <1>1. PICK T \in C : \A U \in C : U \subseteq T => U = T
    <2>1. C \in SUBSET (SUBSET S)
      OBVIOUS
    <2> HIDE DEF C
    <2> QED
      BY <2>1, SmallestSet
  <1>2. SumOver(f, T) = IF T = {} THEN 0
                        ELSE f[Picked(T)] + SumOver(f, T \ {Picked(T)})
    BY <1>1, FS_Subset, SumOverStep
  <1>3. T # {} => Picked(T) \in T
    BY DEF Picked
  <1>4. T # {} => SumOver(f, T \ {Picked(T)}) = 0
    BY <1>1, <1>3
  <1> QED
    BY <1>1, <1>2, <1>3, <1>4

\* One more of x makes the sums over the sets x is in one larger.
LEMMA SumOverOneMore ==
  ASSUME NEW D, NEW S, IsFiniteSet(S), S \subseteq D, NEW f \in [D -> Nat], NEW x \in D,
         NEW g, g[x] = f[x] + 1, \A y \in D \ {x} : g[y] = f[y]
  PROVE  SumOver(g, S) = IF x \in S THEN SumOver(f, S) + 1 ELSE SumOver(f, S)
  <1> DEFINE Claim(T) == SumOver(g, T) = IF x \in T THEN SumOver(f, T) + 1
                                                    ELSE SumOver(f, T)
             C == {T \in SUBSET S : ~Claim(T)}
  <1> SUFFICES ASSUME C # {}
               PROVE  FALSE
    OBVIOUS
  <1>1. PICK T \in C : \A U \in C : U \subseteq T => U = T
    <2>1. C \in SUBSET (SUBSET S)
      OBVIOUS
    <2> HIDE DEF C
    <2> QED
      BY <2>1, SmallestSet
  <1> DEFINE p == Picked(T)
             W == T \ {p}
  <1>2. T \in SUBSET S /\ IsFiniteSet(T) /\ ~Claim(T)
    BY <1>1, FS_Subset
  <1>3. /\ SumOver(f, T) = IF T = {} THEN 0 ELSE f[p] + SumOver(f, W)
        /\ SumOver(g, T) = IF T = {} THEN 0 ELSE g[p] + SumOver(g, W)
    <2> QED
      BY <1>2, SumOverStep
  <1>4. T # {}
    BY <1>2, <1>3
  <1>5. p \in T /\ p \in D
    BY <1>2, <1>4 DEF Picked
  <1>6. W \in SUBSET S /\ W # T /\ IsFiniteSet(W)
    BY <1>2, <1>5, FS_Subset
  <1>7. Claim(W)
    BY <1>1, <1>6
  <1>8. SumOver(f, W) \in Nat
    BY <1>6, SumOverType
  <1>9. g[p] = IF p = x THEN f[p] + 1 ELSE f[p]
    BY <1>5
  <1>10. f[p] \in Nat
    BY <1>5
  <1>11. x \in T <=> x = p \/ x \in W
    BY <1>5
  <1>12. p \notin W
    OBVIOUS
  <1> HIDE DEF W, p
  <1> QED
    BY <1>2, <1>3, <1>4, <1>7, <1>8, <1>9, <1>10, <1>11, <1>12

-----------------------------------------------------------------------------
(* Induction and recursion over the first numbers                           *)

\* Induction up to n, over the set of the numbers for which something holds.
LEMMA UpTo ==
  ASSUME NEW n \in Nat, NEW S, 0 \in S, \A k \in 1 .. n : k - 1 \in S => k \in S
  PROVE  \A k \in 0 .. n : k \in S
  <1> DEFINE Bad == {k \in 0 .. n : k \notin S}
  <1> SUFFICES ASSUME Bad # {}
               PROVE  FALSE
    OBVIOUS
  <1>0. Bad \in SUBSET Nat /\ Bad # {}
    OBVIOUS
  <1>1. PICK m \in Bad : \A k \in Bad : m <= k
    <2> HIDE DEF Bad
    <2> QED
      BY <1>0, LeastNumber
  <1>2. m \in 1 .. n /\ m \notin S
    OBVIOUS
  <1>3. m - 1 \in 0 .. n /\ ~(m <= m - 1)
    BY <1>2
  <1>4. m - 1 \in S
    BY <1>1, <1>3
  <1> QED
    BY <1>2, <1>4

\* A recursive function over the first numbers exists.
LEMMA Recursion ==
  ASSUME NEW D, NEW x \in D, NEW n \in Nat, NEW g \in [1 .. n -> [D -> D]]
  PROVE  \E f \in [0 .. n -> D] : f[0] = x /\ \A k \in 1 .. n : f[k] = g[k][f[k - 1]]
  <1> DEFINE Up(f, m) == f \in [0 .. m -> D] /\ f[0] = x /\ \A k \in 1 .. m : f[k] = g[k][f[k - 1]]
             S == {m \in 0 .. n : \E f : Up(f, m)}
  <1>1. 0 \in S
    <2>1. PICK f : f = [k \in 0 .. 0 |-> x]
      OBVIOUS
    <2>2. Up(f, 0) /\ 0 \in 0 .. n
      BY <2>1
    <2> QED
      BY <2>2
  <1>2. ASSUME NEW m \in 1 .. n, m - 1 \in S
        PROVE  m \in S
    <2>1. PICK l \in 0 .. n : m = l + 1 /\ l = m - 1
      OBVIOUS
    <2>2. PICK e : Up(e, l)
      BY <1>2, <2>1
    <2>3. PICK d \in D : d = g[m][e[l]]
      BY <2>1, <2>2
    <2>4. PICK f : f = [k \in 0 .. m |-> IF k = m THEN d ELSE e[k]]
      OBVIOUS
    <2>5. \A k \in 0 .. l : f[k] = e[k] /\ e[k] \in D
      BY <2>1, <2>2, <2>4
    <2>6. f[m] = d
      BY <2>4
    <2>7. f \in [0 .. m -> D] /\ f[0] = x
      BY <2>1, <2>2, <2>4, <2>5
    <2>8. ASSUME NEW k \in 1 .. m
          PROVE  f[k] = g[k][f[k - 1]]
      <3>1. CASE k = m
        BY <2>1, <2>3, <2>5, <2>6, <3>1
      <3>2. CASE k # m
        <4>1. k \in 1 .. l /\ k - 1 \in 0 .. l /\ k \in 0 .. l
          BY <2>1, <3>2
        <4> QED
          BY <2>2, <2>5, <4>1
      <3> QED
        BY <3>1, <3>2
    <2>9. Up(f, m) /\ m \in 0 .. n
      BY <2>7, <2>8
    <2> QED
      BY <2>9
  <1>3. n \in S
    <2>1. n \in 0 .. n
      OBVIOUS
    <2> HIDE DEF S
    <2> QED
      BY <1>1, <1>2, <2>1, UpTo
  <1> QED
    BY <1>3

\* A function on 1 .. n is a sequence of that length.
LEMMA FunctionIsSequence ==
  ASSUME NEW S, NEW n \in Nat, NEW s \in [1 .. n -> S]
  PROVE  s \in Seq(S) /\ Len(s) = n
  BY SMT
=============================================================================
