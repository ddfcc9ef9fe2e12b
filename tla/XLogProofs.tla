----------------------------- MODULE XLogProofs -----------------------------
(***************************************************************************)
(* InOrder of XLog, for any number of writers and messages, any ring and   *)
(* any width of int.                                                       *)
(***************************************************************************)
EXTENDS XLog, DataLemmas

-----------------------------------------------------------------------------
(* The messages of one writer in a sequence                                *)

\* A function that does what the definition of From says up to n.
Keeps(f, w, s, n) ==
    f = [k \in 0 .. n |-> IF k = 0 THEN << >>
                          ELSE IF s[k].src = w THEN Append(f[k - 1], s[k]) ELSE f[k - 1]]

\* The same, number by number.
LEMMA KeepsMeans ==
  ASSUME NEW f, NEW w, NEW s, NEW n \in Nat, Keeps(f, w, s, n), NEW k \in 0 .. n
  PROVE  f[k] = IF k = 0 THEN << >>
                ELSE IF s[k].src = w THEN Append(f[k - 1], s[k]) ELSE f[k - 1]
  <1> QED
    BY DEF Keeps

\* There is one.
LEMMA KeepsExist ==
  ASSUME NEW w, NEW s, NEW n \in Nat
  PROVE  \E f : Keeps(f, w, s, n)
  <1> DEFINE C == {m \in Nat : ~\E f : Keeps(f, w, s, m)}
  <1> SUFFICES ASSUME C # {}
               PROVE  FALSE
    OBVIOUS
  <1>1. PICK m \in C : \A k \in C : m <= k
    <2>1. C \in SUBSET Nat
      OBVIOUS
    <2> HIDE DEF C
    <2> QED
      BY <2>1, LeastNumber
  <1>2. m \in Nat /\ ~\E f : Keeps(f, w, s, m)
    BY <1>1
  <1>3. CASE m = 0
    <2>1. Keeps([k \in 0 .. 0 |-> << >>], w, s, 0)
      BY DEF Keeps
    <2> QED
      BY <1>2, <1>3, <2>1
  <1>4. CASE m # 0
    <2>1. m - 1 \in Nat /\ ~(m <= m - 1)
      BY <1>2, <1>4
    <2>2. PICK f : Keeps(f, w, s, m - 1)
      BY <1>1, <2>1
    <2> DEFINE last == IF s[m].src = w THEN Append(f[m - 1], s[m]) ELSE f[m - 1]
               g == [k \in 0 .. m |-> IF k = m THEN last ELSE f[k]]
    <2>3. ASSUME NEW k \in 0 .. m
          PROVE  g[k] = IF k = 0 THEN << >>
                        ELSE IF s[k].src = w THEN Append(g[k - 1], s[k]) ELSE g[k - 1]
      <3> HIDE DEF last
      <3>1. CASE k = m
        <4>1. g[k] = last /\ g[k - 1] = f[m - 1] /\ k # 0
          BY <1>2, <1>4, <3>1
        <4> QED
          BY <3>1, <4>1 DEF last
      <3>2. CASE k # m
        <4>1. k \in 0 .. (m - 1) /\ g[k] = f[k] /\ (k # 0 => g[k - 1] = f[k - 1])
          BY <1>2, <3>2
        <4> HIDE DEF g
        <4>2. f[k] = IF k = 0 THEN << >>
                     ELSE IF s[k].src = w THEN Append(f[k - 1], s[k]) ELSE f[k - 1]
          <5>1. PICK n0 \in Nat : n0 = m - 1
            BY <2>1
          <5>2. Keeps(f, w, s, n0) /\ k \in 0 .. n0
            BY <2>2, <4>1, <5>1
          <5> HIDE DEF C
          <5> QED
            BY <5>2, KeepsMeans
        <4> QED
          BY <4>1, <4>2
      <3> QED
        BY <3>1, <3>2
    <2>4. Keeps(g, w, s, m)
      <3> HIDE DEF last
      <3>1. g = [k \in 0 .. m |-> g[k]]
        OBVIOUS
      <3> HIDE DEF g
      <3> QED
        BY <2>3, <3>1 DEF Keeps
    <2> QED
      BY <1>2, <2>4
  <1> QED
    BY <1>3, <1>4

\* Up to n it is determined by the first n elements.
LEMMA KeepsAgree ==
  ASSUME NEW w, NEW s, NEW t, NEW m \in Nat, NEW n \in 0 .. m,
         \A k \in 1 .. n : s[k] = t[k],
         NEW f, NEW g, Keeps(f, w, s, n), Keeps(g, w, t, m)
  PROVE  f[n] = g[n]
  <1> DEFINE C == {k \in 0 .. n : f[k] # g[k]}
  <1> SUFFICES ASSUME C # {}
               PROVE  FALSE
    OBVIOUS
  <1>1. PICK k \in C : \A l \in C : k <= l
    <2>1. C \in SUBSET Nat
      OBVIOUS
    <2> HIDE DEF C
    <2> QED
      BY <2>1, LeastNumber
  <1>2. k \in 0 .. n /\ k \in 0 .. m /\ f[k] # g[k]
    BY <1>1
  <1>3. f[k] = IF k = 0 THEN << >>
               ELSE IF s[k].src = w THEN Append(f[k - 1], s[k]) ELSE f[k - 1]
    BY <1>2, KeepsMeans
  <1>4. g[k] = IF k = 0 THEN << >>
               ELSE IF t[k].src = w THEN Append(g[k - 1], t[k]) ELSE g[k - 1]
    BY <1>2, KeepsMeans
  <1>5. k # 0 => f[k - 1] = g[k - 1]
    BY <1>1
  <1>6. k # 0 => s[k] = t[k]
    BY <1>2
  <1> HIDE DEF C
  <1> QED
    BY <1>2, <1>3, <1>4, <1>5, <1>6

\* One message more is one more of its writer's, at the end.
LEMMA FromAppend ==
  ASSUME NEW S, NEW s \in Seq(S), NEW m \in S, NEW w
  PROVE  From(w, Append(s, m)) = IF m.src = w THEN Append(From(w, s), m) ELSE From(w, s)
  <1> DEFINE a(t) == CHOOSE f : Keeps(f, w, t, Len(t))
             u == Append(s, m)
  <1>1. \A t : From(w, t) = a(t)[Len(t)]
    BY DEF From, Keeps
  <1>2. \A t \in Seq(S) : Keeps(a(t), w, t, Len(t))
    BY KeepsExist, LenProperties
  <1>3. /\ u \in Seq(S) /\ Len(u) = Len(s) + 1 /\ Len(s) \in Nat /\ Len(u) \in Nat
        /\ \A k \in 1 .. Len(s) : s[k] = u[k]
        /\ u[Len(s) + 1] = m
    BY AppendProperties
  <1> HIDE DEF a, u
  <1>4. a(u)[Len(s)] = a(s)[Len(s)]
    BY <1>2, <1>3, KeepsAgree
  <1>5. a(u)[Len(u)] = IF m.src = w THEN Append(a(u)[Len(s)], m) ELSE a(u)[Len(s)]
    <2>1. Len(u) \in 0 .. Len(u) /\ Len(u) # 0 /\ Len(u) - 1 = Len(s)
      BY <1>3
    <2> QED
      BY <1>2, <1>3, <2>1, KeepsMeans
  <1> QED
    BY <1>1, <1>4, <1>5 DEF u

\* They are a sequence of what the whole is a sequence of.
LEMMA FromType ==
  ASSUME NEW S, NEW s \in Seq(S), NEW w
  PROVE  From(w, s) \in Seq(S)
  <1>1. Len(s) \in Nat
    BY LenProperties
  <1>2. PICK f : Keeps(f, w, s, Len(s)) /\ From(w, s) = f[Len(s)]
    <2>1. From(w, s) = (CHOOSE f : Keeps(f, w, s, Len(s)))[Len(s)]
      BY DEF From, Keeps
    <2> QED
      BY <1>1, <2>1, KeepsExist
  <1> DEFINE C == {k \in 0 .. Len(s) : f[k] \notin Seq(S)}
  <1> SUFFICES ASSUME C # {}
               PROVE  FALSE
    BY <1>1, <1>2
  <1>3. PICK k \in C : \A l \in C : k <= l
    <2>1. C \in SUBSET Nat
      OBVIOUS
    <2> HIDE DEF C
    <2> QED
      BY <2>1, LeastNumber
  <1>4. k \in 0 .. Len(s) /\ f[k] \notin Seq(S)
    BY <1>3
  <1>5. f[k] = IF k = 0 THEN << >>
               ELSE IF s[k].src = w THEN Append(f[k - 1], s[k]) ELSE f[k - 1]
    BY <1>1, <1>2, <1>4, KeepsMeans
  <1>6. k # 0 => f[k - 1] \in Seq(S) /\ s[k] \in S
    BY <1>1, <1>3, <1>4, ElementOfSeq
  <1>7. << >> \in Seq(S)
    BY EmptySeq
  <1>8. k # 0 => Append(f[k - 1], s[k]) \in Seq(S)
    BY <1>6, AppendProperties
  <1> HIDE DEF C
  <1> QED
    BY <1>4, <1>5, <1>6, <1>7, <1>8

-----------------------------------------------------------------------------
(* The filter                                                              *)

\* For the named levels the comparison of unsigned numbers lets through what
\* it should (x_log.c:155).
LEMMA FilterIsRight ==
  ASSUME level \in Levels, NEW l \in Levels
  PROVE  Passes(l) <=> ~Filtered(l)
  <1> DEFINE M == 2 * IntMax + 2
  <1>1. /\ IntMax \in Nat /\ M \in Nat \ {0}
        /\ level \in Int /\ -IntMax - 1 <= level /\ level <= IntMax
        /\ l \in Int /\ -IntMax - 1 <= l /\ l <= IntMax
    BY XLogAssumption DEF XLogAssumption
  <1>2. -M <= level /\ level < M /\ -M <= l /\ l < M
    BY <1>1
  <1> HIDE DEF M
  <1>3. level % M = IF level < 0 THEN level + M ELSE level
    BY <1>1, <1>2, RemainderAround
  <1>4. l % M = IF l < 0 THEN l + M ELSE l
    BY <1>1, <1>2, RemainderAround
  <1>5. Filtered(l) <=> l % M > level % M
    BY DEF Filtered, Unsigned, M
  <1>6. CASE level \in LevelNames
    <2>1. level \in 0 .. 5
      BY <1>6 DEF LevelNames
    <2>2. level % M = level
      BY <1>3, <2>1
    <2>3. CASE l < 0
      <3>1. l % M = l + M
        BY <1>4, <2>3
      <3>2. l + M > level
        BY <1>1 DEF M
      <3> QED
        BY <1>5, <1>6, <2>1, <2>2, <2>3, <3>1, <3>2 DEF Passes
    <2>4. CASE ~(l < 0)
      BY <1>1, <1>4, <1>5, <1>6, <2>1, <2>2, <2>4 DEF Passes
    <2> QED
      BY <2>3, <2>4
  <1> QED
    BY <1>6 DEF Passes

-----------------------------------------------------------------------------
(* The invariant                                                           *)

\* What has left the writers, in the order in which it will be in the file.
Sent == file \o OneOf(entry) \o log_ring

LogTypes ==
    /\ logger \in {"creating", "created", "NULL", "gone"}
    /\ logger = "created" => level \in Levels
    /\ calls \in [Writers -> 0 .. MaxCalls]
    /\ file \in Seq(Message) /\ log_ring \in Seq(Message)
    /\ entry \in Message \cup {None}
    /\ pending \in [Writers -> Message \cup {None}]
    /\ \A w \in Writers : pending[w] # None => pending[w].src = w
    /\ passed \in [Writers -> Seq(Message)]

IInv == LogTypes /\ \A w \in Writers : From(w, Sent) \o OneOf(pending[w]) = passed[w]

\* What has been sent is a sequence of messages.
LEMMA SentType ==
  ASSUME LogTypes
  PROVE  Sent \in Seq(Message) /\ OneOf(entry) \in Seq(Message)
  <1>1. OneOf(entry) \in Seq(Message)
    BY DEF LogTypes, OneOf
  <1>2. file \o OneOf(entry) \in Seq(Message)
    BY <1>1, ConcatProperties DEF LogTypes
  <1> QED
    BY <1>1, <1>2, ConcatProperties DEF LogTypes, Sent

\* Nothing comes from a writer in nothing.
LEMMA FromNothing == \A w : From(w, << >>) = << >>
  <1> SUFFICES ASSUME NEW w
               PROVE  From(w, << >>) = << >>
    OBVIOUS
  <1>1. From(w, << >>) = (CHOOSE f : Keeps(f, w, << >>, Len(<< >>)))[Len(<< >>)]
    BY DEF From, Keeps
  <1>2. Len(<< >>) = 0
    OBVIOUS
  <1>3. PICK n \in Nat : n = 0
    OBVIOUS
  <1>4. Keeps(CHOOSE f : Keeps(f, w, << >>, n), w, << >>, n)
    BY KeepsExist
  <1> QED
    BY <1>1, <1>2, <1>3, <1>4, KeepsMeans

\* A message that passes the filter is on its way from then on.
LEMMA WriteKeeps ==
  ASSUME IInv, NEW w \in Writers, NEW l \in Levels, Write(w, l)
  PROVE  IInv'
  <1> DEFINE m == [src |-> w, num |-> calls'[w], level |-> l]
  <1>1. /\ logger = "created" /\ pending[w] = None /\ calls[w] < MaxCalls
        /\ calls' = [calls EXCEPT ![w] = @ + 1]
        /\ pending' = [pending EXCEPT ![w] = IF Filtered(l) THEN None ELSE m]
        /\ passed' = [passed EXCEPT ![w] = @ \o IF Passes(l) THEN <<m>> ELSE << >>]
        /\ UNCHANGED <<logger, level, log_ring, file, entry>>
    BY DEF Write, serverVars, threadVars
  <1>2. MaxCalls \in Nat
    BY XLogAssumption DEF XLogAssumption
  <1>3. calls' \in [Writers -> 0 .. MaxCalls] /\ calls'[w] \in 1 .. MaxCalls
    BY <1>1, <1>2 DEF IInv, LogTypes
  <1>4. m \in Message /\ m.src = w /\ m # None
    BY <1>3, XLogAssumption DEF Message, XLogAssumption
  <1>5. Passes(l) <=> ~Filtered(l)
    BY <1>1, FilterIsRight DEF IInv, LogTypes
  <1> HIDE DEF m
  <1>6. passed[w] \in Seq(Message) /\ <<m>> \in Seq(Message)
    BY <1>4 DEF IInv, LogTypes
  <1>7. /\ passed'[w] = IF Passes(l) THEN passed[w] \o <<m>> ELSE passed[w]
        /\ passed'[w] \in Seq(Message)
        /\ \A v \in Writers \ {w} : passed'[v] = passed[v]
    <2>1. passed[w] \o << >> = passed[w] /\ passed[w] \o <<m>> \in Seq(Message)
      BY <1>6, ConcatEmptySeq, ConcatProperties
    <2> QED
      BY <1>1, <1>6, <2>1 DEF IInv, LogTypes
  <1>8. LogTypes'
    <2>1. passed' \in [Writers -> Seq(Message)]
      <3>1. \A v \in Writers : passed'[v] \in Seq(Message)
        BY <1>7 DEF IInv, LogTypes
      <3> QED
        BY <1>1, <3>1 DEF IInv, LogTypes
    <2>2. /\ pending' \in [Writers -> Message \cup {None}]
          /\ \A v \in Writers : pending'[v] # None => pending'[v].src = v
      BY <1>1, <1>4 DEF IInv, LogTypes
    <2> QED
      BY <1>1, <1>3, <2>1, <2>2 DEF IInv, LogTypes
  <1>9. ASSUME NEW v \in Writers
        PROVE  From(v, Sent)' \o OneOf(pending'[v]) = passed'[v]
    <2>1. From(v, Sent)' = From(v, Sent)
      BY <1>1 DEF Sent, OneOf
    <2>2. CASE v = w
      <3>1. From(w, Sent) = passed[w]
        <4>1. From(w, Sent) \o << >> = passed[w]
          BY <1>1 DEF IInv, OneOf
        <4>2. From(w, Sent) \in Seq(Message)
          BY SentType, FromType DEF IInv
        <4> QED
          BY <4>1, <4>2, ConcatEmptySeq
      <3>2. pending'[w] = IF Filtered(l) THEN None ELSE m
        BY <1>1 DEF IInv, LogTypes
      <3>3. passed[w] \o << >> = passed[w]
        BY <1>6, ConcatEmptySeq
      <3> QED
        BY <1>4, <1>5, <1>7, <2>1, <2>2, <3>1, <3>2, <3>3 DEF OneOf
    <2>3. CASE v # w
      BY <1>1, <1>7, <2>1, <2>3 DEF IInv, LogTypes
    <2> QED
      BY <2>2, <2>3
  <1> QED
    BY <1>8, <1>9 DEF IInv, OneOf

\* A message that enters the ring is the next one of its writer.
LEMMA EnqueueKeeps ==
  ASSUME IInv, NEW w \in Writers, Enqueue(w)
  PROVE  IInv'
  <1> DEFINE m == pending[w]
  <1>1. /\ pending[w] # None
        /\ log_ring' = Append(log_ring, pending[w])
        /\ pending' = [pending EXCEPT ![w] = None]
        /\ UNCHANGED <<logger, level, calls, passed, file, entry>>
    BY DEF Enqueue, HandOver, Ring!Put, serverVars, threadVars
  <1>2. m \in Message /\ m.src = w /\ m = pending[w]
    BY <1>1 DEF IInv, LogTypes
  <1> HIDE DEF m
  <1>3. log_ring' \in Seq(Message) /\ log_ring' = log_ring \o <<m>>
    BY <1>1, <1>2, AppendProperties, AppendIsConcat DEF IInv, LogTypes
  <1>4. LogTypes'
    BY <1>1, <1>3 DEF IInv, LogTypes
  <1>5. Sent' = Append(Sent, m)
    <2> DEFINE a == file \o OneOf(entry)
    <2>1. a \in Seq(Message) /\ log_ring \in Seq(Message) /\ <<m>> \in Seq(Message)
      BY <1>2, SentType, ConcatProperties DEF IInv, LogTypes
    <2>2. Sent' = a \o log_ring'
      BY <1>1 DEF Sent, OneOf
    <2>3. Sent = a \o log_ring
      BY DEF Sent
    <2> HIDE DEF a
    <2>4. (a \o log_ring) \o <<m>> = a \o (log_ring \o <<m>>)
      BY <2>1, ConcatAssociative
    <2>5. Append(Sent, m) = Sent \o <<m>>
      BY <1>2, SentType, AppendIsConcat DEF IInv
    <2> QED
      BY <1>3, <2>2, <2>3, <2>4, <2>5
  <1>6. ASSUME NEW v \in Writers
        PROVE  From(v, Sent') \o OneOf(pending'[v]) = passed'[v]
    <2>1. From(v, Sent') = IF v = w THEN Append(From(v, Sent), m) ELSE From(v, Sent)
      <3>1. Sent \in Seq(Message) /\ m \in Message
        BY <1>2, SentType DEF IInv
      <3>2. From(v, Append(Sent, m)) = IF m.src = v THEN Append(From(v, Sent), m)
                                       ELSE From(v, Sent)
        BY <3>1, FromAppend
      <3>3. From(v, Sent') = From(v, Append(Sent, m))
        BY <1>5
      <3> QED
        BY <1>2, <3>2, <3>3
    <2>2. CASE v # w
      BY <1>1, <2>1, <2>2 DEF IInv, LogTypes
    <2>3. CASE v = w
      <3>1. From(w, Sent) \in Seq(Message)
        BY SentType, FromType DEF IInv
      <3>2. /\ Append(From(w, Sent), m) \in Seq(Message)
            /\ Append(From(w, Sent), m) = From(w, Sent) \o <<m>>
        BY <1>2, <3>1, AppendProperties, AppendIsConcat
      <3>3. Append(From(w, Sent), m) \o << >> = Append(From(w, Sent), m)
        BY <3>2, ConcatEmptySeq
      <3>4. From(w, Sent) \o <<m>> = passed[w]
        BY <1>1, <1>2 DEF IInv, OneOf
      <3>5. OneOf(pending'[w]) = << >>
        BY <1>1 DEF IInv, LogTypes, OneOf
      <3> QED
        BY <1>1, <2>1, <2>3, <3>2, <3>3, <3>4, <3>5
    <2> QED
      BY <2>2, <2>3
  <1> QED
    BY <1>4, <1>6 DEF IInv, OneOf

\* The log thread moves the oldest message on; the order of all stays.
LEMMA ThreadKeeps ==
  ASSUME IInv, LogThread
  PROVE  IInv'
  <1>1. CASE Dequeue
    <2> DEFINE h == Head(log_ring)
    <2>1. /\ entry = None /\ log_ring # << >> /\ log_ring' = Tail(log_ring) /\ entry' = h
          /\ UNCHANGED <<logger, level, calls, passed, pending, file>>
      BY <1>1 DEF Dequeue, Ring!Get, serverVars, writerVars
    <2>2. h \in Message /\ Tail(log_ring) \in Seq(Message) /\ log_ring \in Seq(Message)
      BY <2>1, HeadTailProperties DEF IInv, LogTypes
    <2>3. log_ring = <<h>> \o Tail(log_ring)
      BY <2>1, <2>2
    <2> HIDE DEF h
    <2>4. h # None
      BY <2>2, XLogAssumption DEF Message, XLogAssumption
    <2>5. LogTypes'
      BY <2>1, <2>2 DEF IInv, LogTypes
    <2>6. Sent' = Sent
      <3>1. Sent' = (file \o <<h>>) \o Tail(log_ring)
        BY <2>1, <2>4 DEF Sent, OneOf
      <3>2. Sent = (file \o << >>) \o log_ring
        BY <2>1 DEF Sent, OneOf
      <3>3. file \in Seq(Message) /\ <<h>> \in Seq(Message)
        BY <2>2 DEF IInv, LogTypes
      <3>4. file \o << >> = file
        BY <3>3, ConcatEmptySeq
      <3>5. (file \o <<h>>) \o Tail(log_ring) = file \o (<<h>> \o Tail(log_ring))
        BY <2>2, <3>3, ConcatAssociative
      <3> QED
        BY <2>3, <3>1, <3>2, <3>4, <3>5
    <2> QED
      BY <2>1, <2>5, <2>6 DEF IInv, OneOf
  <1>2. CASE Fwrite
    <2>1. /\ entry # None /\ file' = Append(file, entry) /\ entry' = None
          /\ UNCHANGED <<logger, level, calls, passed, pending, log_ring>>
      BY <1>2 DEF Fwrite, serverVars, writerVars
    <2>2. entry \in Message /\ file \in Seq(Message) /\ log_ring \in Seq(Message)
      BY <2>1 DEF IInv, LogTypes
    <2>3. file' \in Seq(Message) /\ file' = file \o <<entry>>
      BY <2>1, <2>2, AppendProperties, AppendIsConcat
    <2>4. LogTypes'
      BY <2>1, <2>3 DEF IInv, LogTypes
    <2>5. Sent' = Sent
      <3>1. Sent' = (file' \o << >>) \o log_ring
        BY <2>1 DEF Sent, OneOf
      <3>2. Sent = (file \o <<entry>>) \o log_ring
        BY <2>1 DEF Sent, OneOf
      <3>3. file' \o << >> = file'
        BY <2>3, ConcatEmptySeq
      <3> QED
        BY <2>3, <3>1, <3>2, <3>3
    <2> QED
      BY <2>1, <2>4, <2>5 DEF IInv, OneOf
  <1>3. CASE Count
    <2>1. UNCHANGED <<logger, level, calls, passed, pending, log_ring, file, entry>>
      BY <1>3 DEF Count, serverVars, writerVars
    <2> QED
      BY <2>1 DEF IInv, LogTypes, Sent, OneOf
  <1> QED
    BY <1>1, <1>2, <1>3 DEF LogThread

\* The inductive invariant: what has been sent by each writer, and then what
\* it is handing over, is what should reach the file.
THEOREM Invariance == Spec => []IInv
  <1>1. Init => IInv
    <2> SUFFICES ASSUME Init
                 PROVE  IInv
      OBVIOUS
    <2>1. LogTypes
      <3>1. << >> \in Seq(Message)
        BY EmptySeq
      <3>2. MaxCalls \in Nat
        BY XLogAssumption DEF XLogAssumption
      <3> QED
        BY <3>1, <3>2 DEF Init, Ring!Init, LogTypes
    <2>2. Sent = << >>
      BY DEF Init, Ring!Init, Sent, OneOf
    <2>3. \A w \in Writers : passed[w] = << >> /\ OneOf(pending[w]) = << >>
      BY DEF Init, OneOf
    <2>4. ASSUME NEW w \in Writers
          PROVE  From(w, Sent) \o OneOf(pending[w]) = passed[w]
      <3>1. From(w, Sent) = << >>
        BY <2>2, FromNothing
      <3>2. << >> \o << >> = << >>
        OBVIOUS
      <3> QED
        BY <2>3, <3>1, <3>2
    <2> QED
      BY <2>1, <2>4 DEF IInv
  <1>2. IInv /\ [Next]_vars => IInv'
    <2> SUFFICES ASSUME IInv, [Next]_vars
                 PROVE  IInv'
      OBVIOUS
    <2>1. CASE CreateFails \/ (\E cfg_level \in Levels : Create(cfg_level)) \/ Destroy
               \/ UNCHANGED vars
      <3>1. /\ UNCHANGED <<calls, passed, pending, log_ring, file, entry>>
            /\ logger' \in {"creating", "created", "NULL", "gone"}
            /\ logger' = "created" => level' \in Levels
        BY <2>1 DEF CreateFails, Create, Destroy, vars, serverVars, writerVars, threadVars,
           IInv, LogTypes
      <3> QED
        BY <3>1 DEF IInv, LogTypes, Sent, OneOf
    <2>2. CASE \E w \in Writers : Enqueue(w)
      BY <2>2, EnqueueKeeps
    <2>3. CASE \E w \in Writers, l \in Levels : Write(w, l)
      BY <2>3, WriteKeeps
    <2>4. CASE LogThread
      BY <2>4, ThreadKeeps
    <2> QED
      BY <2>1, <2>2, <2>3, <2>4 DEF Next
  <1> QED
    BY <1>1, <1>2, PTL DEF Spec

\* Exactly the messages that should pass are logged, none dropped, doubled or
\* overtaken by a later one of its writer (x_log.c:155, 171-175).
THEOREM LoggedInOrder == Spec => []InOrder
  <1>1. IInv => InOrder
    BY DEF IInv, InOrder, Sent
  <1> QED
    BY <1>1, Invariance, PTL

-----------------------------------------------------------------------------
(* The way to the file is a queue                                          *)

\* The ring and what the log thread has taken out of it, as one queue that
\* delivers to the file.
Way == INSTANCE BoundedQueue WITH
    Item <- Message, Capacity <- RingRoom + 1,
    queue <- OneOf(entry) \o log_ring, delivered <- file

LEMMA WayStep == IInv /\ [Next]_vars => [Way!Next]_(Way!qvars)
  <1> SUFFICES ASSUME IInv, [Next]_vars
               PROVE  [Way!Next]_(Way!qvars)
    OBVIOUS
  <1>1. /\ entry \in Message \cup {None} /\ None \notin Message /\ log_ring \in Seq(Message)
        /\ OneOf(entry) \in Seq(Message) /\ RingRoom \in Nat
    BY SentType, XLogAssumption DEF IInv, LogTypes, Message, XLogAssumption
  <1>2. CASE \E w \in Writers : Enqueue(w)
    <2>1. PICK w \in Writers : Enqueue(w)
      BY <1>2
    <2>2. PICK m \in Message : m = pending[w]
      BY <2>1 DEF Enqueue, IInv, LogTypes
    <2>3. /\ Len(log_ring) < RingRoom /\ log_ring' = Append(log_ring, m)
          /\ UNCHANGED <<entry, file>>
      BY <2>1, <2>2 DEF Enqueue, HandOver, Ring!Put, threadVars
    <2>4. OneOf(entry) \o Append(log_ring, m) = Append(OneOf(entry) \o log_ring, m)
      BY <1>1
    <2>5. Len(OneOf(entry) \o log_ring) < RingRoom + 1
      <3>1. Len(OneOf(entry)) <= 1
        BY DEF OneOf
      <3> QED
        BY <1>1, <2>3, <3>1
    <2>6. (OneOf(entry) \o log_ring)' = Append(OneOf(entry) \o log_ring, m)
      BY <2>3, <2>4 DEF OneOf
    <2>7. Way!Put(m)
      BY <2>3, <2>5, <2>6 DEF Way!Put
    <2> QED
      BY <2>7 DEF Way!Next
  <1>3. CASE LogThread /\ Dequeue
    <2>1. /\ entry = None /\ log_ring # << >> /\ log_ring' = Tail(log_ring)
          /\ entry' = Head(log_ring) /\ UNCHANGED file
      BY <1>3 DEF Dequeue, Ring!Get
    <2>2. Head(log_ring) \in Message /\ log_ring = <<Head(log_ring)>> \o Tail(log_ring)
      BY <1>1, <2>1
    <2>3. OneOf(entry') = <<Head(log_ring)>> /\ OneOf(entry) = << >>
      BY <1>1, <2>1, <2>2 DEF OneOf
    <2>4. (OneOf(entry) \o log_ring)' = log_ring
      <3>1. (OneOf(entry) \o log_ring)' = OneOf(entry') \o Tail(log_ring)
        BY <2>1 DEF OneOf
      <3> QED
        BY <2>2, <2>3, <3>1
    <2>5. OneOf(entry) \o log_ring = log_ring
      BY <1>1, <2>3
    <2> QED
      BY <2>1, <2>4, <2>5 DEF Way!qvars
  <1>4. CASE LogThread /\ Fwrite
    <2>1. /\ entry \in Message /\ file' = Append(file, entry) /\ entry' = None
          /\ UNCHANGED log_ring
      BY <1>1, <1>4 DEF Fwrite
    <2>2. OneOf(entry) = <<entry>> /\ OneOf(entry') = << >>
      BY <1>1, <2>1 DEF OneOf
    <2>3. /\ OneOf(entry) \o log_ring # << >>
          /\ Head(OneOf(entry) \o log_ring) = entry
          /\ Tail(OneOf(entry) \o log_ring) = log_ring
      BY <1>1, <2>1, <2>2
    <2>4. (OneOf(entry) \o log_ring)' = log_ring
      BY <1>1, <2>1, <2>2 DEF OneOf
    <2>5. Way!Get
      BY <2>1, <2>3, <2>4 DEF Way!Get
    <2> QED
      BY <2>5 DEF Way!Next
  <1>5. CASE UNCHANGED <<log_ring, entry, file>>
    BY <1>5 DEF Way!qvars, OneOf
  <1> QED
    BY <1>2, <1>3, <1>4, <1>5
    DEF Next, CreateFails, Create, Write, LogThread, Count, Destroy, vars, threadVars

\* From the moment the ring accepts it, a message is in one queue for all
\* writers that ends in the file: the file has the messages in the order in
\* which they were accepted, whoever wrote them, and of those accepted at most
\* one more than the ring has room for are missing from it, though the log
\* thread takes a message out of the ring before it writes it (x_log.c:72-83).
THEOREM FileFollowsRing == Spec => Way!Init /\ [][Way!Next]_(Way!qvars)
  <1>1. Init => Way!Init
    BY DEF Init, Ring!Init, Way!Init, OneOf
  <1> QED
    BY <1>1, WayStep, Invariance, PTL DEF Spec
=============================================================================
