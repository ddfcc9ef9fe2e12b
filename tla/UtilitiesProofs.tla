-------------------------- MODULE UtilitiesProofs ---------------------------
(***************************************************************************)
(* Proofs about what Utilities composes, of which it runs one at a time.   *)
(*                                                                         *)
(* Paths, for any number of processes, any names and any depth: a          *)
(* directory that has come into being stays, so what a process has seen of *)
(* the parts behind it remains true while others go on.  MessageFilters,   *)
(* for any threads and callbacks: a call has noted the settings in force.  *)
(* PacketFilter, for any datagrams: code_tcp is run one instruction after  *)
(* the other.  Ipv6Addition, for words of any size: what a word cannot     *)
(* hold is added to the next.  Strings, for any lengths: digit by digit    *)
(* and, for an address, part by part.  RingSize, for integers of any       *)
(* width: bit by bit.                                                      *)
(***************************************************************************)
EXTENDS Utilities, DataLemmas

-----------------------------------------------------------------------------
(* Paths                                                                   *)

\* create_path by itself; Utilities runs it so.
PathsSpec == PathsInit /\ [][PathsNext]_pathVars

TypeOK ==
    /\ kind \in [Path -> Kinds]
    /\ pc \in [Process -> {"idle", "is_dir", "mkdir"}]
    /\ path \in [Process -> Path \cup {<< >>}]
    /\ upto \in [Process -> Nat]
    /\ ret \in [Process -> {0, -1}]
    /\ refused \in [Process -> BOOLEAN]
    /\ before \in [Process -> SUBSET Path]

\* A process on its way has all parts behind it, and has seen that the one it
\* is about to make was not there when it was called.
OnTheWay(p) ==
    pc[p] # "idle" =>
        /\ path[p] \in Path /\ upto[p] \in 1 .. Len(path[p])
        /\ \A n \in 1 .. (upto[p] - 1) : kind[SubSeq(path[p], 1, n)] = "dir"
        /\ before[p] \subseteq Dirs
        /\ pc[p] = "mkdir" => Buf(p) \notin before[p]

\* The inductive invariant.
IInv ==
    /\ TypeOK
    /\ \A p \in Process : OnTheWay(p)
    /\ PathMade /\ LostRaceGrows

\* What is there stays what it is.
Grows == \A x \in Path : kind[x] # "none" => kind'[x] = kind[x]

-----------------------------------------------------------------------------
(* Parts of a path                                                         *)

\* The beginnings of a path are paths.
LEMMA PartIsPath ==
  ASSUME NEW x \in Path, NEW n \in 1 .. Len(x)
  PROVE  /\ SubSeq(x, 1, n) \in Path
         /\ Len(SubSeq(x, 1, n)) = n
         /\ n > 1 => Front(SubSeq(x, 1, n)) = SubSeq(x, 1, n - 1)
  <1>1. PICK k \in 1 .. Depth : x \in [1 .. k -> Name]
    BY DEF Path
  <1>2. k \in Nat /\ k <= Depth /\ Len(x) = k /\ x \in Seq(Name)
    BY <1>1, PathsAssumption DEF PathsAssumption
  <1>3. \A i \in 1 .. n : x[i] \in Name
    BY <1>1, <1>2
  <1>4. /\ SubSeq(x, 1, n) \in Seq(Name)
        /\ Len(SubSeq(x, 1, n)) = n
        /\ \A i \in 1 .. n : SubSeq(x, 1, n)[i] = x[i]
    BY <1>2, <1>3, SubSeqProperties
  <1>5. SubSeq(x, 1, n) \in [1 .. n -> Name]
    BY <1>4, LenProperties
  <1>6. n \in 1 .. Depth
    BY <1>2, PathsAssumption DEF PathsAssumption
  <1>7. ASSUME n > 1
        PROVE  Front(SubSeq(x, 1, n)) = SubSeq(x, 1, n - 1)
    <2>1. SubSeq(SubSeq(x, 1, n), 1, n - 1) = SubSeq(x, 1, n - 1)
      <3>1. 1 \in 1 .. Len(x) /\ n \in 1 .. Len(x)
        BY <1>2, <1>7
      <3>2. 1 \in 1 .. (n - 1 + 1) /\ n - 1 \in 1 .. (n - 1 + 1)
        BY <1>7
      <3>3. SubSeq(SubSeq(x, 1, n), 1, n - 1) = SubSeq(x, 1 + 1 - 1, 1 + (n - 1) - 1)
        BY <1>2, <3>1, <3>2, SubSeqOfSubSeq
      <3> QED
        BY <3>3
    <2> QED
      BY <1>4, <2>1 DEF Front
  <1> QED
    BY <1>4, <1>5, <1>6, <1>7 DEF Path

\* The whole path is the last of its parts.
LEMMA WholePath ==
  ASSUME NEW x \in Path
  PROVE  Len(x) \in Nat \ {0} /\ SubSeq(x, 1, Len(x)) = x /\ x # << >>
  <1>1. PICK k \in 1 .. Depth : x \in [1 .. k -> Name]
    BY DEF Path
  <1>2. k \in Nat \ {0} /\ Len(x) = k /\ x \in Seq(Name)
    BY <1>1, PathsAssumption DEF PathsAssumption
  <1> QED
    BY <1>2, SubSeqFull

-----------------------------------------------------------------------------
(* Steps                                                                   *)

\* The first state: nobody has called yet.
LEMMA IInvInit == PathsInit => IInv
  <1> SUFFICES ASSUME PathsInit
               PROVE  IInv
    OBVIOUS
  <1>1. TypeOK
    BY DEF PathsInit, TypeOK, Kinds
  <1>2. \A p \in Process : pc[p] = "idle" /\ path[p] = << >>
    BY DEF PathsInit
  <1> QED
    BY <1>1, <1>2 DEF IInv, OnTheWay, PathMade, LostRaceGrows, Returned

\* Nothing but mkdir changes the tree, and it only makes a directory where
\* nothing is.
LEMMA TreeGrows ==
  ASSUME TypeOK, PathsNext
  PROVE  Grows /\ Dirs \subseteq Dirs'
  <1>1. Grows
    <2>1. kind' = kind => Grows
      BY DEF Grows
    <2>2. ASSUME NEW p \in Process, Mkdir(p)
          PROVE  Grows
      BY <2>2 DEF Mkdir, MkdirPossible, Grows, TypeOK
    <2>3. ASSUME NEW p \in Process, ~Mkdir(p),
                 \/ create_path_rejects(p) \/ create_path_root(p)
                 \/ \E x \in Path : create_path(p, x)
                 \/ FindsDir(p) \/ FindsNoDir(p) \/ Mkdir(p) \/ MkdirFails(p)
          PROVE  kind' = kind
      BY <2>3 DEF create_path_rejects, create_path_root, create_path, FindsDir,
         FindsNoDir, MkdirFails
    <2> QED
      BY <2>1, <2>2, <2>3 DEF PathsNext
  <1> QED
    BY <1>1 DEF Grows, Dirs

\* What holds of a process stays true while others step.
LEMMA OthersStep ==
  ASSUME IInv, Grows, NEW q \in Process,
         /\ pc'[q] = pc[q] /\ path'[q] = path[q] /\ upto'[q] = upto[q]
         /\ ret'[q] = ret[q] /\ refused'[q] = refused[q] /\ before'[q] = before[q]
  PROVE  /\ OnTheWay(q)'
         /\ Returned(q)' /\ ret'[q] = 0 => Parts(path'[q]) \subseteq Dirs'
         /\ Returned(q)' /\ ret'[q] = -1 /\ ~refused'[q] =>
               \/ \E x \in Parts(path'[q]) : kind'[x] = "other"
               \/ Parts(path'[q]) \cap (Dirs' \ before'[q]) # {}
  <1>1. Dirs \subseteq Dirs'
    BY DEF Grows, Dirs
  <1>2. path[q] \in Path \cup {<< >>}
    BY DEF IInv, TypeOK
  <1>3. OnTheWay(q)'
    <2> SUFFICES ASSUME pc[q] # "idle"
                 PROVE  OnTheWay(q)'
      BY DEF OnTheWay
    <2>1. /\ path[q] \in Path /\ upto[q] \in 1 .. Len(path[q])
          /\ \A n \in 1 .. (upto[q] - 1) : kind[SubSeq(path[q], 1, n)] = "dir"
          /\ before[q] \subseteq Dirs
          /\ pc[q] = "mkdir" => Buf(q) \notin before[q]
      BY DEF IInv, OnTheWay
    <2>2. \A n \in 1 .. (upto[q] - 1) : SubSeq(path[q], 1, n) \in Path
      BY <2>1, WholePath, PartIsPath
    <2> QED
      BY <1>1, <2>1, <2>2 DEF OnTheWay, Grows, Buf
  <1>4. Returned(q) => path[q] \in Path /\ Parts(path[q]) \subseteq Path
    BY <1>2, PartIsPath DEF Returned, Parts
  <1>5. ASSUME Returned(q), ret[q] = 0
        PROVE  Parts(path[q]) \subseteq Dirs'
    BY <1>1, <1>5 DEF IInv, PathMade
  <1>6. ASSUME Returned(q), ret[q] = -1, ~refused[q]
        PROVE  \/ \E x \in Parts(path[q]) : kind'[x] = "other"
               \/ Parts(path[q]) \cap (Dirs' \ before[q]) # {}
    BY <1>1, <1>4, <1>6 DEF IInv, LostRaceGrows, Grows
  <1>7. Returned(q)' <=> Returned(q)
    BY DEF Returned
  <1> QED
    BY <1>3, <1>5, <1>6, <1>7

\* What a step owes: the types, what holds of the process that makes it, and
\* nothing of the others touched.
StepOf(p) ==
    /\ TypeOK'
    /\ OnTheWay(p)'
    /\ Returned(p)' /\ ret'[p] = 0 => Parts(path'[p]) \subseteq Dirs'
    /\ Returned(p)' /\ ret'[p] = -1 /\ ~refused'[p] =>
          \/ \E x \in Parts(path'[p]) : kind'[x] = "other"
          \/ Parts(path'[p]) \cap (Dirs' \ before'[p]) # {}
    /\ \A q \in Process : q # p =>
          /\ pc'[q] = pc[q] /\ path'[q] = path[q] /\ upto'[q] = upto[q]
          /\ ret'[q] = ret[q] /\ refused'[q] = refused[q] /\ before'[q] = before[q]

\* Then the invariant is kept.
LEMMA StepKeeps ==
  ASSUME IInv, Grows, NEW p \in Process, StepOf(p)
  PROVE  IInv'
  <1>1. TypeOK'
    BY DEF StepOf
  <1>2. ASSUME NEW q \in Process
        PROVE  /\ OnTheWay(q)'
               /\ Returned(q)' /\ ret'[q] = 0 => Parts(path'[q]) \subseteq Dirs'
               /\ Returned(q)' /\ ret'[q] = -1 /\ ~refused'[q] =>
                     \/ \E x \in Parts(path'[q]) : kind'[x] = "other"
                     \/ Parts(path'[q]) \cap (Dirs' \ before'[q]) # {}
    BY OthersStep DEF StepOf
  <1> QED
    BY <1>1, <1>2 DEF IInv, PathMade, LostRaceGrows

\* A call begins; or it is over at once, and there is no path it is about.
LEMMA CallStep ==
  ASSUME IInv, NEW p \in Process,
         \/ create_path_rejects(p) \/ create_path_root(p)
         \/ \E x \in Path : create_path(p, x)
  PROVE  StepOf(p)
  <1>1. CASE create_path_rejects(p) \/ create_path_root(p)
    <2>1. TypeOK' /\ pc'[p] = "idle" /\ path'[p] = << >>
      BY <1>1 DEF create_path_rejects, create_path_root, IInv, TypeOK
    <2> QED
      BY <1>1, <2>1 DEF create_path_rejects, create_path_root, IInv, TypeOK,
         StepOf, OnTheWay, Returned
  <1>2. ASSUME NEW x \in Path, create_path(p, x)
        PROVE  StepOf(p)
    <2>1. /\ TypeOK' /\ Dirs' = Dirs
          /\ pc'[p] = "is_dir" /\ path'[p] = x /\ upto'[p] = 1
          /\ before'[p] = Dirs
      BY <1>2 DEF create_path, IInv, TypeOK, Dirs
    <2>2. OnTheWay(p)'
      BY <2>1, WholePath DEF OnTheWay
    <2> QED
      BY <1>2, <2>1, <2>2 DEF create_path, IInv, TypeOK, StepOf, Returned
  <1> QED
    BY <1>1, <1>2

\* Going on to the next part keeps the types.
LEMMA NextPartTypes ==
  ASSUME TypeOK, NEW p \in Process, NextPart(p), kind' \in [Path -> Kinds]
  PROVE  TypeOK'
  <1>1. CASE upto[p] = Len(path[p])
    BY <1>1 DEF NextPart, TypeOK
  <1>2. CASE upto[p] # Len(path[p])
    <2>1. upto[p] + 1 \in Nat
      BY DEF TypeOK
    <2> QED
      BY <1>2, <2>1 DEF NextPart, TypeOK
  <1> QED
    BY <1>1, <1>2

\* The part in hand is a directory, so the parts behind grow by one, or the
\* whole path is there.
LEMMA AdvanceStep ==
  ASSUME IInv, Grows, TypeOK', NEW p \in Process, pc[p] # "idle", NextPart(p),
         kind'[Buf(p)] = "dir"
  PROVE  StepOf(p)
  <1>1. /\ path[p] \in Path /\ upto[p] \in 1 .. Len(path[p])
        /\ \A n \in 1 .. (upto[p] - 1) : kind[SubSeq(path[p], 1, n)] = "dir"
        /\ before[p] \subseteq Dirs
    BY DEF IInv, OnTheWay
  <1>2. Len(path[p]) \in Nat \ {0}
    BY <1>1, WholePath
  <1>3. \A n \in 1 .. Len(path[p]) : SubSeq(path[p], 1, n) \in Path
    BY <1>1, PartIsPath
  <1>4. \A n \in 1 .. upto[p] : kind'[SubSeq(path[p], 1, n)] = "dir"
    BY <1>1, <1>2, <1>3 DEF Grows, Buf
  <1>5. path' = path /\ before' = before /\ refused' = refused
    BY DEF NextPart
  <1>6. Dirs \subseteq Dirs'
    BY DEF Grows, Dirs
  <1>7. CASE upto[p] = Len(path[p])
    <2>1. pc'[p] = "idle" /\ ret'[p] = 0 /\ upto' = upto
      BY <1>7 DEF NextPart, IInv, TypeOK
    <2>2. Parts(path[p]) \subseteq Dirs'
      BY <1>3, <1>4, <1>7 DEF Parts, Dirs
    <2> QED
      BY <1>5, <1>7, <2>1, <2>2 DEF NextPart, IInv, TypeOK, StepOf, OnTheWay, Returned
  <1>8. CASE upto[p] # Len(path[p])
    <2>1. pc'[p] = "is_dir" /\ upto'[p] = upto[p] + 1 /\ ret' = ret
      BY <1>8 DEF NextPart, IInv, TypeOK
    <2>2. OnTheWay(p)'
      BY <1>1, <1>2, <1>4, <1>5, <1>6, <1>8, <2>1 DEF OnTheWay
    <2> QED
      BY <1>5, <1>8, <2>1, <2>2 DEF NextPart, IInv, TypeOK, StepOf, Returned
  <1> QED
    BY <1>7, <1>8

\* lstat finds the part.
LEMMA FindsDirStep ==
  ASSUME IInv, Grows, NEW p \in Process, FindsDir(p)
  PROVE  StepOf(p)
  <1>1. TypeOK'
    BY NextPartTypes DEF FindsDir, IInv, TypeOK
  <1> QED
    BY <1>1, AdvanceStep DEF FindsDir, is_dir

\* lstat does not find it, so it was not there when the call began either.
LEMMA FindsNoDirStep ==
  ASSUME IInv, NEW p \in Process, FindsNoDir(p)
  PROVE  StepOf(p)
  <1>1. TypeOK' /\ Dirs' = Dirs /\ pc'[p] = "mkdir"
    BY DEF FindsNoDir, IInv, TypeOK, Dirs
  <1>2. Buf(p) \notin before[p]
    BY DEF FindsNoDir, is_dir, IInv, OnTheWay, Dirs
  <1>3. OnTheWay(p)'
    BY <1>1, <1>2 DEF FindsNoDir, IInv, OnTheWay, Buf
  <1> QED
    BY <1>1, <1>3 DEF FindsNoDir, IInv, TypeOK, StepOf, Returned

\* mkdir makes it.
LEMMA MkdirStep ==
  ASSUME IInv, Grows, NEW p \in Process, Mkdir(p)
  PROVE  StepOf(p)
  <1>1. Buf(p) \in Path
    BY PartIsPath DEF Mkdir, IInv, OnTheWay, Buf
  <1>2. kind' \in [Path -> Kinds]
    BY <1>1 DEF Mkdir, IInv, TypeOK, Kinds
  <1>3. TypeOK'
    BY <1>2, NextPartTypes DEF Mkdir, IInv
  <1>4. kind'[Buf(p)] = "dir"
    BY <1>1 DEF Mkdir, IInv, TypeOK
  <1> QED
    BY <1>4, <1>3, AdvanceStep DEF Mkdir

\* mkdir fails without a refusal: the parent is there, so there is something
\* at the part itself, and if that is a directory it has come since the call.
LEMMA MkdirFailsStep ==
  ASSUME IInv, NEW p \in Process, MkdirFails(p)
  PROVE  StepOf(p)
  <1>1. /\ path[p] \in Path /\ upto[p] \in 1 .. Len(path[p])
        /\ \A n \in 1 .. (upto[p] - 1) : kind[SubSeq(path[p], 1, n)] = "dir"
        /\ Buf(p) \notin before[p]
    BY DEF MkdirFails, IInv, OnTheWay
  <1>2. /\ Buf(p) \in Path /\ Len(Buf(p)) = upto[p] /\ Buf(p) \in Parts(path[p])
        /\ upto[p] > 1 => Front(Buf(p)) = SubSeq(path[p], 1, upto[p] - 1)
    BY <1>1, PartIsPath DEF Buf, Parts
  <1>3. upto[p] \in Nat
    BY DEF IInv, TypeOK
  <1>4. ParentIsDir(Buf(p))
    <2> SUFFICES ASSUME upto[p] > 1
                 PROVE  kind[Front(Buf(p))] = "dir"
      BY <1>2 DEF ParentIsDir
    <2>1. upto[p] - 1 \in 1 .. (upto[p] - 1)
      BY <1>3
    <2> QED
      BY <1>1, <1>2, <2>1
  <1>5. TypeOK' /\ kind' = kind /\ Dirs' = Dirs /\ pc'[p] = "idle" /\ ret'[p] = -1
    BY DEF MkdirFails, MkdirPossible, IInv, TypeOK, Dirs
  <1>6. refused'[p] <=> MkdirPossible(Buf(p))
    BY DEF MkdirFails, IInv, TypeOK
  <1>7. ASSUME ~refused'[p]
        PROVE  \/ kind[Buf(p)] = "other"
               \/ Buf(p) \in Parts(path[p]) \cap (Dirs \ before[p])
    <2>1. kind[Buf(p)] # "none"
      BY <1>4, <1>6, <1>7 DEF MkdirPossible
    <2>2. kind[Buf(p)] \in {"none", "dir", "other"}
      BY <1>2 DEF IInv, TypeOK, Kinds
    <2> QED
      BY <1>1, <1>2, <2>1, <2>2 DEF Dirs
  <1> QED
    BY <1>2, <1>5, <1>7 DEF MkdirFails, IInv, TypeOK, StepOf, OnTheWay, Returned

\* Every step keeps the invariant.
LEMMA IInvStep == IInv /\ [PathsNext]_pathVars => IInv'
  <1> SUFFICES ASSUME IInv, [PathsNext]_pathVars
               PROVE  IInv'
    OBVIOUS
  <1>1. CASE UNCHANGED pathVars
    BY <1>1 DEF pathVars, IInv, TypeOK, OnTheWay, PathMade, LostRaceGrows, Returned,
       Dirs, Buf
  <1>2. CASE PathsNext
    <2>1. Grows
      BY <1>2, TreeGrows DEF IInv
    <2> QED
      BY <1>2, <2>1, StepKeeps, CallStep, FindsDirStep, FindsNoDirStep, MkdirStep,
         MkdirFailsStep DEF PathsNext
  <1> QED
    BY <1>1, <1>2

-----------------------------------------------------------------------------
(* Theorems                                                                *)

\* The inductive invariant holds throughout.
THEOREM Invariance == PathsSpec => []IInv
  <1> QED
    BY IInvInit, IInvStep, PTL DEF PathsSpec

\* create_path returns 0 only when every part of the path is a directory,
\* whatever other processes make meanwhile.
THEOREM PathsMade == PathsSpec => []PathMade
  <1>1. IInv => PathMade
    BY DEF IInv
  <1> QED
    BY <1>1, Invariance, PTL

\* It returns -1 without an obstacle or a refusal only if another process
\* made part of the path in the meantime.
THEOREM LostRacesGrow == PathsSpec => []LostRaceGrows
  <1>1. IInv => LostRaceGrows
    BY DEF IInv
  <1> QED
    BY <1>1, Invariance, PTL

-----------------------------------------------------------------------------
(* Messages                                                                *)

\* The printers and setters by themselves; Utilities runs them so.
FiltersSpec == FiltersInit /\ [][FiltersNext]_messageVars

Calls == [name : {"none", "mylog_loging", "dbg_print", "xstrerror"}, arg : 0 .. 5 \cup Errnos,
          at : {"begun", "passed", "tested", "written", "end"}, fn : Callback \cup {NULL},
          result : Callback \cup Outcomes \cup Errnos \cup {"", "printed"},
          fns : SUBSET (Callback \cup {NULL}), levels : SUBSET (0 .. 5), shared : BOOLEAN]

FiltersTypeOK ==
    /\ log_fn \in Callback \cup {NULL}
    /\ g_mylog_level \in Severities /\ debug_level \in DebugLevels
    /\ xstrerror_buf \in Errnos \cup {""}
    /\ call \in [Logger -> Calls]

\* What MessageJudged says of a call that has returned.
Judged(c) ==
    /\ c.name = "mylog_loging" =>
          /\ \E level \in c.levels : c.result = "dropped" <=> c.arg < level
          /\ c.result \in Callback => c.result \in c.fns
          /\ c.result = "stderr" => NULL \in c.fns
          /\ c.result = "crashed" => NULL \in c.fns /\ c.fns \cap Callback # {}
    /\ c.name = "dbg_print" =>
          /\ \E level \in c.levels : c.result = "dropped" <=> c.arg > level
          /\ c.arg = 1 => c.result = "printed"
    /\ c.name = "xstrerror" /\ ~c.shared => c.result = c.arg

\* A call that is under way has noted the settings that are in force, the
\* level it has passed was one of them, and so was the callback it has read.
Noted(c) ==
    /\ c.name # "none"
    /\ c.name = "mylog_loging" =>
          /\ c.at \in {"begun", "passed", "tested"} /\ c.arg \in Severities
          /\ log_fn \in c.fns /\ g_mylog_level \in c.levels
          /\ c.at # "begun" => \E level \in c.levels : ~(c.arg < level)
          /\ c.at = "tested" => c.fn \in Callback /\ c.fn \in c.fns
    /\ c.name = "dbg_print" =>
          c.at = "begun" /\ c.arg \in DebugLevels /\ debug_level \in c.levels
    /\ c.name = "xstrerror" =>
          /\ c.at \in {"begun", "written"} /\ c.arg \in Errnos
          /\ c.at = "written" /\ ~c.shared => xstrerror_buf = c.arg

\* Two calls of one function that overlap both know.
Sharing == \A t, u \in InCall : t # u /\ call[t].name = call[u].name => call[t].shared

\* The inductive invariant.
FiltersIInv ==
    /\ FiltersTypeOK
    /\ \A t \in Logger : IF call[t].at = "end" THEN Judged(call[t]) ELSE Noted(call[t])
    /\ Sharing

LEMMA FiltersIInvInit == FiltersInit => FiltersIInv
  <1> SUFFICES ASSUME FiltersInit
               PROVE  FiltersIInv
    OBVIOUS
  <1>1. NoCall \in Calls /\ NoCall.at = "end" /\ NoCall.name = "none"
    BY DEF NoCall, Calls, Outcomes
  <1>2. \A t \in Logger : call[t] = NoCall
    BY DEF FiltersInit
  <1>3. FiltersTypeOK
    <2>1. call \in [Logger -> Calls]
      BY <1>1 DEF FiltersInit
    <2>2. log_fn = NULL /\ g_mylog_level = 0 /\ debug_level = 5 /\ xstrerror_buf = ""
      BY DEF FiltersInit
    <2>3. 0 \in Severities /\ 5 \in DebugLevels
      BY DEF Severities, DebugLevels
    <2> QED
      BY <2>1, <2>2, <2>3 DEF FiltersTypeOK
  <1>4. \A t \in Logger : Judged(call[t])
    BY <1>1, <1>2 DEF Judged
  <1>5. InCall = {}
    BY <1>1, <1>2 DEF InCall
  <1> QED
    BY <1>1, <1>2, <1>3, <1>4, <1>5 DEF FiltersIInv, Sharing

\* A call that goes on, or returns, and leaves the settings alone.
LEMMA OneMoves ==
  ASSUME FiltersIInv, UNCHANGED staticVars, NEW t \in InCall, NEW c \in Calls,
         call' = [call EXCEPT ![t] = c], c.name = call[t].name, c.shared = call[t].shared,
         xstrerror_buf' \in Errnos \cup {""},
         \A u \in InCall : u # t /\ call[u].name = "xstrerror" /\ ~call[u].shared =>
             xstrerror_buf' = xstrerror_buf,
         IF c.at = "end" THEN Judged(c) ELSE Noted(c)'
  PROVE  FiltersIInv'
  <1>1. log_fn' = log_fn /\ g_mylog_level' = g_mylog_level /\ debug_level' = debug_level
    BY DEF staticVars
  <1>2. t \in Logger /\ call \in [Logger -> Calls]
    BY DEF InCall, FiltersIInv, FiltersTypeOK
  <1>3. call'[t] = c /\ \A u \in Logger \ {t} : call'[u] = call[u]
    BY <1>2
  <1>4. FiltersTypeOK'
    BY <1>1, <1>2 DEF FiltersIInv, FiltersTypeOK
  <1>5. ASSUME NEW u \in Logger
        PROVE  IF call'[u].at = "end" THEN Judged(call'[u]) ELSE Noted(call[u])'
    <2>1. CASE u = t
      <3>1. PICK d : d = call[u]'
        OBVIOUS
      <3> QED
        BY <1>3, <2>1, <3>1 DEF Noted
    <2>2. CASE u # t
      <3>1. call'[u] = call[u]
        BY <1>3, <2>2
      <3>2. IF call[u].at = "end" THEN Judged(call[u]) ELSE Noted(call[u])
        BY DEF FiltersIInv
      <3>3. call[u].at # "end" => u \in InCall
        BY DEF InCall
      <3> QED
        BY <1>1, <2>2, <3>1, <3>2, <3>3 DEF Noted
    <2> QED
      BY <2>1, <2>2
  <1>6. InCall' \subseteq InCall
    BY <1>3 DEF InCall
  <1>7. \A u \in Logger : call'[u].name = call[u].name /\ call'[u].shared = call[u].shared
    BY <1>3
  <1>8. Sharing'
    BY <1>6, <1>7 DEF FiltersIInv, Sharing, InCall
  <1> QED
    BY <1>4, <1>5, <1>8 DEF FiltersIInv, Judged

\* A setting that is made is noted by the calls it concerns.
LEMMA SettingNoted ==
  ASSUME FiltersIInv, NEW fns \in SUBSET (Callback \cup {NULL}), NEW levels \in SUBSET (0 .. 5),
         NEW names \in SUBSET {"mylog_loging", "dbg_print"},
         Seen(fns, levels, names), xstrerror_buf' = xstrerror_buf,
         log_fn' \in Callback \cup {NULL}, g_mylog_level' \in Severities, debug_level' \in DebugLevels,
         log_fn' = log_fn \/ ("mylog_loging" \in names /\ log_fn' \in fns),
         g_mylog_level' = g_mylog_level \/ ("mylog_loging" \in names /\ g_mylog_level' \in levels),
         debug_level' = debug_level \/ ("dbg_print" \in names /\ debug_level' \in levels)
  PROVE  FiltersIInv'
  <1>1. call \in [Logger -> Calls]
    BY DEF FiltersIInv, FiltersTypeOK
  <1>2. ASSUME NEW u \in Logger
        PROVE  /\ call'[u] \in Calls /\ call'[u].name = call[u].name /\ call'[u].arg = call[u].arg
               /\ call'[u].at = call[u].at /\ call'[u].fn = call[u].fn
               /\ call'[u].shared = call[u].shared
               /\ call[u].at = "end" => call'[u] = call[u]
               /\ call[u].at # "end" =>
                    /\ call[u].fns \subseteq call'[u].fns /\ call[u].levels \subseteq call'[u].levels
                    /\ call[u].name \in names => fns \subseteq call'[u].fns /\ levels \subseteq call'[u].levels
    <2>1. PICK c \in Calls : c = call[u]
      BY <1>1
    <2>2. PICK d : d = [c EXCEPT !.fns = @ \cup fns, !.levels = @ \cup levels]
      OBVIOUS
    <2>3. /\ d \in Calls /\ d.name = c.name /\ d.arg = c.arg /\ d.at = c.at /\ d.fn = c.fn
          /\ d.shared = c.shared /\ d.fns = c.fns \cup fns /\ d.levels = c.levels \cup levels
      BY <2>2 DEF Calls
    <2>4. call'[u] = IF u \notin InCall \/ c.name \notin names THEN c ELSE d
      BY <2>1, <2>2 DEF Seen
    <2>5. u \notin InCall <=> c.at = "end"
      BY <2>1 DEF InCall
    <2> HIDE <2>2
    <2> QED
      BY <2>1, <2>3, <2>4, <2>5
  <1>3. call' \in [Logger -> Calls]
    <2>1. call' = [u \in Logger |-> call'[u]]
      BY DEF Seen
    <2> QED
      BY <1>2, <2>1
  <1>4. FiltersTypeOK'
    BY <1>3 DEF FiltersIInv, FiltersTypeOK
  <1>5. ASSUME NEW u \in Logger
        PROVE  IF call'[u].at = "end" THEN Judged(call'[u]) ELSE Noted(call[u])'
    <2>1. IF call[u].at = "end" THEN Judged(call[u]) ELSE Noted(call[u])
      BY DEF FiltersIInv
    <2>2. CASE call[u].at = "end"
      BY <1>2, <2>1, <2>2
    <2>3. CASE call[u].at # "end"
      <3>1. PICK c : c = call[u]
        OBVIOUS
      <3>2. PICK d : d = call'[u]
        OBVIOUS
      <3>3. /\ d.name = c.name /\ d.arg = c.arg /\ d.at = c.at /\ d.fn = c.fn /\ d.shared = c.shared
            /\ c.fns \subseteq d.fns /\ c.levels \subseteq d.levels
            /\ c.name \in names => fns \subseteq d.fns /\ levels \subseteq d.levels
        BY <1>2, <2>3, <3>1, <3>2
      <3>4. Noted(c)
        BY <2>1, <2>3, <3>1
      <3>5. d.name = "mylog_loging" => log_fn' \in d.fns /\ g_mylog_level' \in d.levels
        BY <3>3, <3>4 DEF Noted
      <3>6. d.name = "dbg_print" => debug_level' \in d.levels
        BY <3>3, <3>4 DEF Noted
      <3>7. Noted(d)'
        BY <3>3, <3>4, <3>5, <3>6 DEF Noted
      <3> QED
        BY <1>2, <2>3, <3>2, <3>7
    <2> QED
      BY <1>2, <2>2, <2>3
  <1>6. InCall' = InCall
    BY <1>2 DEF InCall
  <1>7. Sharing'
    BY <1>2, <1>6 DEF FiltersIInv, Sharing, InCall
  <1> QED
    BY <1>4, <1>5, <1>7 DEF FiltersIInv, Judged

\* A call begins: it and those of the same function know of each other.
LEMMA BeginKeeps ==
  ASSUME FiltersIInv, NEW t \in Logger, NEW name, NEW arg, Begin(t, name, arg),
         \/ name = "mylog_loging" /\ arg \in Severities
         \/ name = "dbg_print" /\ arg \in DebugLevels
         \/ name = "xstrerror" /\ arg \in Errnos
  PROVE  FiltersIInv'
  <1>1. /\ log_fn' = log_fn /\ g_mylog_level' = g_mylog_level /\ debug_level' = debug_level
        /\ xstrerror_buf' = xstrerror_buf /\ t \notin InCall
    BY DEF Begin, staticVars
  <1>2. /\ call \in [Logger -> Calls] /\ log_fn \in Callback \cup {NULL}
        /\ g_mylog_level \in 0 .. 5 /\ debug_level \in 0 .. 5
    <2>1. /\ call \in [Logger -> Calls] /\ log_fn \in Callback \cup {NULL}
          /\ g_mylog_level \in Severities /\ debug_level \in DebugLevels
      BY DEF FiltersIInv, FiltersTypeOK
    <2> QED
      BY <2>1 DEF Severities, DebugLevels
  <1>3. /\ call'[t] \in Calls /\ call'[t].name = name /\ call'[t].arg = arg /\ call'[t].at = "begun"
        /\ call'[t].fns = {log_fn} /\ call'[t].levels = {Level(name)}
        /\ call'[t].shared <=> \E v \in InCall : call[v].name = name
    <2>1. PICK b \in BOOLEAN : b = \E v \in InCall : call[v].name = name
      OBVIOUS
    <2>2. call'[t] = [NoCall EXCEPT !.name = name, !.arg = arg, !.at = "begun", !.fns = {log_fn},
                                    !.levels = {Level(name)}, !.shared = b]
      BY <2>1 DEF Begin
    <2>3. arg \in 0 .. 5 \cup Errnos
      BY DEF Severities, DebugLevels
    <2>4. Level(name) \in 0 .. 5
      BY <1>2 DEF Level
    <2>5. /\ call'[t] \in Calls /\ call'[t].name = name /\ call'[t].arg = arg /\ call'[t].at = "begun"
          /\ call'[t].fns = {log_fn} /\ call'[t].levels = {Level(name)} /\ call'[t].shared = b
      <3>1. PICK c \in Calls : c = NoCall
        <4>1. NoCall \in Calls
          BY DEF NoCall, Calls, Outcomes
        <4> QED
          BY <4>1
      <3>2. PICK f \in Callback \cup {NULL} : f = log_fn
        BY <1>2
      <3>3. PICK l \in 0 .. 5 : l = Level(name)
        BY <2>4
      <3>4. PICK d : d = [c EXCEPT !.name = name, !.arg = arg, !.at = "begun", !.fns = {f},
                                   !.levels = {l}, !.shared = b]
        OBVIOUS
      <3>5. /\ d \in Calls /\ d.name = name /\ d.arg = arg /\ d.at = "begun"
            /\ d.fns = {f} /\ d.levels = {l} /\ d.shared = b
        BY <2>3, <3>4 DEF Calls
      <3> QED
        BY <2>2, <3>1, <3>2, <3>3, <3>4, <3>5
    <2> QED
      BY <2>1, <2>5
  <1>4. ASSUME NEW u \in Logger, u # t
        PROVE  /\ call'[u] \in Calls /\ call'[u].name = call[u].name /\ call'[u].arg = call[u].arg
               /\ call'[u].at = call[u].at /\ call'[u].fn = call[u].fn
               /\ call'[u].fns = call[u].fns /\ call'[u].levels = call[u].levels
               /\ call'[u].shared <=> call[u].shared \/ (u \in InCall /\ call[u].name = name)
               /\ u \notin InCall => call'[u] = call[u]
    <2>1. PICK c \in Calls : c = call[u]
      BY <1>2
    <2>2. PICK b \in BOOLEAN : b = (c.shared \/ (u \in InCall /\ c.name = name))
      OBVIOUS
    <2>3. call'[u] = [c EXCEPT !.shared = b]
      BY <1>4, <2>1, <2>2 DEF Begin
    <2>4. u \notin InCall => b = c.shared
      BY <2>2 DEF Calls
    <2>5. [c EXCEPT !.shared = c.shared] = c
      BY DEF Calls
    <2> QED
      BY <2>1, <2>2, <2>3, <2>4, <2>5, ZenonT(60) DEF Calls
  <1>5. call' \in [Logger -> Calls]
    <2>1. call' = [u \in Logger |-> call'[u]]
      BY DEF Begin
    <2> QED
      BY <1>3, <1>4, <2>1
  <1>6. FiltersTypeOK'
    BY <1>1, <1>5 DEF FiltersIInv, FiltersTypeOK
  <1>7. ASSUME NEW u \in Logger
        PROVE  IF call'[u].at = "end" THEN Judged(call'[u]) ELSE Noted(call[u])'
    <2>1. CASE u = t
      <3>1. Noted(call[u])'
        BY <1>1, <1>3, <2>1 DEF Noted, Level
      <3> QED
        BY <1>3, <2>1, <3>1
    <2>2. CASE u # t
      <3>1. IF call[u].at = "end" THEN Judged(call[u]) ELSE Noted(call[u])
        BY DEF FiltersIInv
      <3>2. CASE call[u].at = "end"
        BY <1>4, <2>2, <3>1, <3>2 DEF InCall
      <3>3. CASE call[u].at # "end"
        BY <1>1, <1>4, <2>2, <3>1, <3>3 DEF Noted
      <3> QED
        BY <1>4, <2>2, <3>2, <3>3
    <2> QED
      BY <2>1, <2>2
  <1>8. InCall' = InCall \cup {t}
    BY <1>3, <1>4 DEF InCall
  <1>9. ASSUME NEW u \in InCall', NEW v \in InCall', u # v, call'[u].name = call'[v].name
        PROVE  call'[u].shared
    <2>1. u \in Logger /\ v \in Logger
      BY DEF InCall
    <2>2. CASE u = t
      BY <1>3, <1>4, <1>8, <1>9, <2>1, <2>2
    <2>3. CASE v = t
      BY <1>3, <1>4, <1>8, <1>9, <2>1, <2>3
    <2>4. CASE u # t /\ v # t
      BY <1>4, <1>8, <1>9, <2>1, <2>4 DEF FiltersIInv, Sharing
    <2> QED
      BY <2>2, <2>3, <2>4
  <1> QED
    BY <1>6, <1>7, <1>9 DEF FiltersIInv, Sharing, Judged

\* What a call does after it has begun.
LEMMA CallKeeps ==
  ASSUME FiltersIInv, NEW t \in Logger,
         \/ MylogDrop(t) \/ MylogPass(t) \/ MylogTest(t) \/ MylogCall(t)
         \/ DbgPrint(t) \/ XstrerrorWrite(t) \/ XstrerrorRead(t)
  PROVE  FiltersIInv'
  <1>1. PICK c \in Calls : c = call[t]
    BY DEF FiltersIInv, FiltersTypeOK
  <1>2. c.at # "end" /\ t \in InCall /\ Noted(c)
    <2>1. c.at # "end"
      BY <1>1 DEF MylogDrop, MylogPass, MylogTest, MylogCall, DbgPrint, XstrerrorWrite, XstrerrorRead, At
    <2> QED
      BY <1>1, <2>1 DEF FiltersIInv, InCall
  <1>3. /\ call \in [Logger -> Calls] /\ log_fn \in Callback \cup {NULL} /\ debug_level \in DebugLevels
        /\ xstrerror_buf \in Errnos \cup {""}
    BY DEF FiltersIInv, FiltersTypeOK
  <1>4. NULL \notin Callback /\ Callback \cap Outcomes = {}
    BY FiltersAssumption
  \* A call that moves on, or returns, and writes no text.
  <1>5. ASSUME NEW d \in Calls, d.name = c.name, d.shared = c.shared, call' = [call EXCEPT ![t] = d],
               UNCHANGED staticVars, UNCHANGED xstrerror_buf,
               IF d.at = "end" THEN Judged(d) ELSE Noted(d)
        PROVE  FiltersIInv'
    <2>1. Noted(d) => Noted(d)'
      BY <1>5 DEF Noted, staticVars
    <2>2. IF d.at = "end" THEN Judged(d) ELSE Noted(d)'
      BY <1>5, <2>1
    <2> QED
      BY <1>1, <1>2, <1>3, <1>5, <2>2, OneMoves
  <1>6. ASSUME NEW r \in Callback \cup Outcomes \cup Errnos \cup {"", "printed"}, Finish(t, r),
               UNCHANGED staticVars, UNCHANGED xstrerror_buf,
               c.name = "mylog_loging" =>
                  /\ \E level \in c.levels : r = "dropped" <=> c.arg < level
                  /\ r \in Callback => r \in c.fns
                  /\ r = "stderr" => NULL \in c.fns
                  /\ r = "crashed" => NULL \in c.fns /\ c.fns \cap Callback # {},
               c.name = "dbg_print" =>
                  /\ \E level \in c.levels : r = "dropped" <=> c.arg > level
                  /\ c.arg = 1 => r = "printed",
               c.name = "xstrerror" /\ ~c.shared => r = c.arg
        PROVE  FiltersIInv'
    <2>1. PICK d : d = [c EXCEPT !.at = "end", !.result = r]
      OBVIOUS
    <2>2. /\ d \in Calls /\ d.name = c.name /\ d.shared = c.shared /\ d.at = "end" /\ d.result = r
          /\ d.arg = c.arg /\ d.fns = c.fns /\ d.levels = c.levels
      BY <2>1 DEF Calls
    <2>3. call' = [call EXCEPT ![t] = d]
      BY <1>1, <1>6, <2>1 DEF Finish
    <2>4. Judged(d)
      BY <1>6, <2>2 DEF Judged
    <2> QED
      BY <1>5, <1>6, <2>2, <2>3, <2>4
  <1>7. CASE MylogDrop(t)
    <2>1. c.name = "mylog_loging" /\ c.arg < g_mylog_level /\ g_mylog_level \in c.levels
      BY <1>1, <1>2, <1>7 DEF MylogDrop, At, Dropped, Noted
    <2>2. Finish(t, "dropped") /\ UNCHANGED staticVars /\ UNCHANGED xstrerror_buf
      BY <1>7 DEF MylogDrop
    <2> QED
      BY <1>4, <1>6, <2>1, <2>2 DEF Outcomes
  <1>8. CASE MylogPass(t)
    <2>1. c.name = "mylog_loging" /\ ~(c.arg < g_mylog_level) /\ g_mylog_level \in c.levels
      BY <1>1, <1>2, <1>8 DEF MylogPass, At, Dropped, Noted
    <2>2. PICK d : d = [c EXCEPT !.at = "passed"]
      OBVIOUS
    <2>3. /\ d \in Calls /\ d.name = c.name /\ d.shared = c.shared /\ d.at = "passed"
          /\ d.arg = c.arg /\ d.fns = c.fns /\ d.levels = c.levels
      BY <2>2 DEF Calls
    <2>4. call' = [call EXCEPT ![t] = d] /\ UNCHANGED staticVars /\ UNCHANGED xstrerror_buf
      BY <1>1, <1>8, <2>2 DEF MylogPass
    <2>5. Noted(d)
      BY <1>2, <2>1, <2>3 DEF Noted
    <2> QED
      BY <1>5, <2>3, <2>4, <2>5
  <1>9. CASE MylogTest(t)
    <2>1. /\ c.name = "mylog_loging" /\ log_fn \in c.fns
          /\ \E level \in c.levels : ~(c.arg < level)
      BY <1>1, <1>2, <1>9 DEF MylogTest, At, Noted
    <2>2. UNCHANGED staticVars /\ UNCHANGED xstrerror_buf
      BY <1>9 DEF MylogTest
    <2>3. CASE log_fn = NULL
      <3>1. Finish(t, "stderr")
        BY <1>9, <2>3 DEF MylogTest
      <3> QED
        BY <1>4, <1>6, <2>1, <2>2, <2>3, <3>1 DEF Outcomes
    <2>4. CASE log_fn # NULL
      <3>1. PICK f \in Callback : f = log_fn
        BY <1>3, <2>4
      <3>2. PICK d : d = [c EXCEPT !.at = "tested", !.fn = f]
        OBVIOUS
      <3>3. /\ d \in Calls /\ d.name = c.name /\ d.shared = c.shared /\ d.at = "tested" /\ d.fn = f
            /\ d.arg = c.arg /\ d.fns = c.fns /\ d.levels = c.levels
        BY <3>2 DEF Calls
      <3>4. call' = [call EXCEPT ![t] = d]
        BY <1>1, <1>9, <2>4, <3>1, <3>2 DEF MylogTest
      <3>5. Noted(d)
        BY <1>2, <2>1, <3>1, <3>3 DEF Noted
      <3> QED
        BY <1>5, <2>2, <3>3, <3>4, <3>5
    <2> QED
      BY <2>3, <2>4
  <1>10. CASE MylogCall(t)
    <2>1. /\ c.name = "mylog_loging" /\ log_fn \in c.fns /\ c.fn \in Callback /\ c.fn \in c.fns
          /\ \E level \in c.levels : ~(c.arg < level)
      BY <1>1, <1>2, <1>10 DEF MylogCall, At, Noted
    <2>2. UNCHANGED staticVars /\ UNCHANGED xstrerror_buf
      BY <1>10 DEF MylogCall
    <2>3. PICK f \in {c.fn, log_fn} : Finish(t, IF f = NULL THEN "crashed" ELSE f)
      BY <1>1, <1>10 DEF MylogCall
    <2>4. CASE f = NULL
      BY <1>4, <1>6, <2>1, <2>2, <2>3, <2>4 DEF Outcomes
    <2>5. CASE f # NULL
      <3>1. f \in Callback /\ f \in c.fns
        BY <1>3, <2>1, <2>3, <2>5
      <3>2. f # "dropped" /\ f # "stderr" /\ f # "crashed"
        BY <1>4, <3>1 DEF Outcomes
      <3> QED
        BY <1>6, <2>1, <2>2, <2>3, <2>5, <3>1, <3>2
    <2> QED
      BY <2>4, <2>5
  <1>11. CASE DbgPrint(t)
    <2>1. c.name = "dbg_print" /\ debug_level \in c.levels /\ c.arg \in 1 .. 5
      BY <1>1, <1>2, <1>11 DEF DbgPrint, At, Noted, DebugLevels
    <2>2. UNCHANGED staticVars /\ UNCHANGED xstrerror_buf
      BY <1>11 DEF DbgPrint
    <2>3. CASE c.arg > debug_level
      <3>1. Finish(t, "dropped")
        BY <1>1, <1>11, <2>3 DEF DbgPrint
      <3>2. c.arg # 1
        <4>1. debug_level \in 1 .. 5
          BY <1>3 DEF DebugLevels
        <4> QED
          BY <2>3, <4>1
      <3> QED
        BY <1>6, <2>1, <2>2, <2>3, <3>1, <3>2 DEF Outcomes
    <2>4. CASE ~(c.arg > debug_level)
      <3>1. Finish(t, "printed")
        BY <1>1, <1>11, <2>4 DEF DbgPrint
      <3> QED
        BY <1>6, <2>1, <2>2, <2>4, <3>1
    <2> QED
      BY <2>3, <2>4
  <1>12. CASE XstrerrorWrite(t)
    <2>1. c.name = "xstrerror" /\ c.arg \in Errnos
      BY <1>1, <1>2, <1>12 DEF XstrerrorWrite, At, Noted
    <2>2. PICK d : d = [c EXCEPT !.at = "written"]
      OBVIOUS
    <2>3. /\ d \in Calls /\ d.name = c.name /\ d.shared = c.shared /\ d.at = "written" /\ d.arg = c.arg
      BY <2>2 DEF Calls
    <2>4. call' = [call EXCEPT ![t] = d] /\ UNCHANGED staticVars /\ xstrerror_buf' = d.arg
      BY <1>1, <1>12, <2>2, <2>3 DEF XstrerrorWrite
    <2>5. Noted(d)'
      BY <2>1, <2>3, <2>4 DEF Noted
    <2>6. \A u \in InCall : u # t /\ call[u].name = "xstrerror" => call[u].shared
      BY <1>1, <1>2, <2>1 DEF FiltersIInv, Sharing
    <2> QED
      BY <1>1, <1>2, <2>1, <2>3, <2>4, <2>5, <2>6, OneMoves
  <1>13. CASE XstrerrorRead(t)
    <2>1. c.name = "xstrerror" /\ (~c.shared => xstrerror_buf = c.arg)
      BY <1>1, <1>2, <1>13 DEF XstrerrorRead, At, Noted
    <2>2. Finish(t, xstrerror_buf) /\ UNCHANGED staticVars /\ UNCHANGED xstrerror_buf
      BY <1>13 DEF XstrerrorRead
    <2> QED
      BY <1>3, <1>6, <2>1, <2>2
  <1> QED
    BY <1>7, <1>8, <1>9, <1>10, <1>11, <1>12, <1>13

LEMMA FiltersIInvStep == FiltersIInv /\ [FiltersNext]_messageVars => FiltersIInv'
  <1> SUFFICES ASSUME FiltersIInv, [FiltersNext]_messageVars
               PROVE  FiltersIInv'
    OBVIOUS
  <1>1. /\ log_fn \in Callback \cup {NULL} /\ g_mylog_level \in Severities /\ debug_level \in DebugLevels
        /\ Severities \subseteq 0 .. 5 /\ DebugLevels \subseteq 0 .. 5
    <2>1. log_fn \in Callback \cup {NULL} /\ g_mylog_level \in Severities /\ debug_level \in DebugLevels
      BY DEF FiltersIInv, FiltersTypeOK
    <2>2. Severities \subseteq 0 .. 5 /\ DebugLevels \subseteq 0 .. 5
      BY DEF Severities, DebugLevels
    <2> QED
      BY <2>1, <2>2
  <1>2. ASSUME NEW t \in Logger,
               \/ \E arg \in Severities  : Begin(t, "mylog_loging", arg)
               \/ \E arg \in DebugLevels : Begin(t, "dbg_print", arg)
               \/ \E arg \in Errnos      : Begin(t, "xstrerror", arg)
        PROVE  FiltersIInv'
    BY <1>2, BeginKeeps
  <1>3. ASSUME NEW t \in Logger,
               \/ MylogDrop(t) \/ MylogPass(t) \/ MylogTest(t) \/ MylogCall(t)
               \/ DbgPrint(t) \/ XstrerrorWrite(t) \/ XstrerrorRead(t)
        PROVE  FiltersIInv'
    BY <1>3, CallKeeps
  <1>4. ASSUME NEW cb \in Callback \cup {NULL}, mylog_set_log_callback(cb)
        PROVE  FiltersIInv'
    <2>7. Seen({cb}, {}, {"mylog_loging"})
      BY <1>4 DEF mylog_set_log_callback
    <2>1. /\ xstrerror_buf' = xstrerror_buf /\ log_fn' = cb
          /\ g_mylog_level' = g_mylog_level /\ debug_level' = debug_level
      BY <1>4 DEF mylog_set_log_callback, Set
    <2>2. PICK fns \in SUBSET (Callback \cup {NULL}) : fns = {cb}
      OBVIOUS
    <2>3. PICK levels \in SUBSET (0 .. 5) : levels = {}
      OBVIOUS
    <2>4. PICK names \in SUBSET {"mylog_loging", "dbg_print"} : names = {"mylog_loging"}
      OBVIOUS
    <2>5. /\ fns \in SUBSET (Callback \cup {NULL}) /\ levels \in SUBSET (0 .. 5)
          /\ Seen(fns, levels, names) /\ log_fn' \in fns /\ "mylog_loging" \in names
      BY <2>1, <2>2, <2>3, <2>4, <2>7
    <2>6. /\ log_fn' \in Callback \cup {NULL} /\ g_mylog_level' \in Severities /\ debug_level' \in DebugLevels
          /\ log_fn' = log_fn \/ ("mylog_loging" \in names /\ log_fn' \in fns)
          /\ g_mylog_level' = g_mylog_level \/ ("mylog_loging" \in names /\ g_mylog_level' \in levels)
          /\ debug_level' = debug_level \/ ("dbg_print" \in names /\ debug_level' \in levels)
      BY <1>1, <2>1, <2>5
    <2> HIDE <2>2, <2>3, <2>4
    <2> QED
      BY <1>1, <2>1, <2>5, <2>6, SettingNoted
  <1>5. ASSUME NEW level \in Severities, mylog_set_log_level(level)
        PROVE  FiltersIInv'
    <2>7. Seen({}, {level}, {"mylog_loging"})
      BY <1>5 DEF mylog_set_log_level
    <2>1. /\ xstrerror_buf' = xstrerror_buf /\ log_fn' = log_fn
          /\ g_mylog_level' = level /\ debug_level' = debug_level
      BY <1>5 DEF mylog_set_log_level, Set
    <2>2. PICK fns \in SUBSET (Callback \cup {NULL}) : fns = {}
      OBVIOUS
    <2>3. PICK levels \in SUBSET (0 .. 5) : levels = {level}
      BY <1>1
    <2>4. PICK names \in SUBSET {"mylog_loging", "dbg_print"} : names = {"mylog_loging"}
      OBVIOUS
    <2>5. /\ fns \in SUBSET (Callback \cup {NULL}) /\ levels \in SUBSET (0 .. 5)
          /\ Seen(fns, levels, names) /\ g_mylog_level' \in levels /\ "mylog_loging" \in names
      BY <2>1, <2>2, <2>3, <2>4, <2>7
    <2>6. /\ log_fn' \in Callback \cup {NULL} /\ g_mylog_level' \in Severities /\ debug_level' \in DebugLevels
          /\ log_fn' = log_fn \/ ("mylog_loging" \in names /\ log_fn' \in fns)
          /\ g_mylog_level' = g_mylog_level \/ ("mylog_loging" \in names /\ g_mylog_level' \in levels)
          /\ debug_level' = debug_level \/ ("dbg_print" \in names /\ debug_level' \in levels)
      BY <1>1, <2>1, <2>5
    <2> HIDE <2>2, <2>3, <2>4
    <2> QED
      BY <1>1, <2>1, <2>5, <2>6, SettingNoted
  <1>6. ASSUME NEW level, dbg_level_set(level)
        PROVE  FiltersIInv'
    <2>1. xstrerror_buf' = xstrerror_buf /\ log_fn' = log_fn /\ g_mylog_level' = g_mylog_level
      BY <1>6 DEF dbg_level_set, Set
    <2>2. CASE level \in DebugLevels
      <3>1. Seen({}, {level}, {"dbg_print"}) /\ debug_level' = level
        BY <1>6, <2>2 DEF dbg_level_set
      <3>2. PICK fns \in SUBSET (Callback \cup {NULL}) : fns = {}
        OBVIOUS
      <3>3. PICK levels \in SUBSET (0 .. 5) : levels = {level}
        BY <1>1, <2>2
      <3>4. PICK names \in SUBSET {"mylog_loging", "dbg_print"} : names = {"dbg_print"}
        OBVIOUS
      <3>5. /\ fns \in SUBSET (Callback \cup {NULL}) /\ levels \in SUBSET (0 .. 5)
            /\ Seen(fns, levels, names) /\ debug_level' \in levels /\ "dbg_print" \in names
        BY <3>1, <3>2, <3>3, <3>4
      <3>6. /\ log_fn' \in Callback \cup {NULL} /\ g_mylog_level' \in Severities /\ debug_level' \in DebugLevels
            /\ log_fn' = log_fn \/ ("mylog_loging" \in names /\ log_fn' \in fns)
            /\ g_mylog_level' = g_mylog_level \/ ("mylog_loging" \in names /\ g_mylog_level' \in levels)
            /\ debug_level' = debug_level \/ ("dbg_print" \in names /\ debug_level' \in levels)
        BY <1>1, <2>1, <2>2, <3>1, <3>5
      <3> HIDE <3>2, <3>3, <3>4
      <3> QED
        BY <1>1, <2>1, <2>2, <3>1, <3>5, <3>6, SettingNoted
    <2>3. CASE level \notin DebugLevels
      <3>1. debug_level' = debug_level /\ call' = call
        BY <1>6, <2>3 DEF dbg_level_set
      <3> QED
        BY <2>1, <3>1, ZenonT(60) DEF FiltersIInv, FiltersTypeOK, Judged, Noted, Sharing, InCall
    <2> QED
      BY <2>2, <2>3
  <1>7. CASE UNCHANGED messageVars
    <2>1. /\ log_fn' = log_fn /\ g_mylog_level' = g_mylog_level /\ debug_level' = debug_level
          /\ xstrerror_buf' = xstrerror_buf /\ call' = call
      BY <1>7 DEF messageVars, staticVars
    <2> QED
      BY <2>1, ZenonT(60) DEF FiltersIInv, FiltersTypeOK, Judged, Noted, Sharing, InCall
  <1> QED
    BY <1>2, <1>3, <1>4, <1>5, <1>6, <1>7 DEF FiltersNext

\* Messages are judged by settings of their time, however the threads that
\* print and the one that sets interleave (mylog.c:71-75,
\* debug_print.cpp:14-27, 41-52).
THEOREM MessagesJudged == FiltersSpec => []MessageJudged
  <1>1. FiltersIInv => MessageJudged
    BY DEF FiltersIInv, MessageJudged, Judged, InCall
  <1> QED
    BY <1>1, FiltersIInvInit, FiltersIInvStep, PTL DEF FiltersSpec

-----------------------------------------------------------------------------
(* The packet filter                                                       *)

\* The filter program by itself; Utilities runs it so.
FilterSpec == FilterInit /\ [][FilterNext]_filterVars

LEMMA CodeLength == Len(code_tcp) = 10
  BY DEF code_tcp

\* What a load and a jump do.
LEMMA Loads ==
  ASSUME NEW op, NEW p, NEW i \in Nat, NEW a, NEW x, op.code \in {"ldb", "ldh"}
  PROVE  Execute(op, p, Running(i, a, x))
           = IF EndOf(op.k) > p.len THEN Ended(0) ELSE Running(i + 1, p.at[op.k], x)
  <1>1. PICK m : m = Running(i, a, x)
    OBVIOUS
  <1>2. m.pc = i /\ m.x = x
    BY <1>1 DEF Running
  <1>3. Execute(op, p, m) = IF EndOf(op.k) > p.len THEN Ended(0)
                            ELSE Running(m.pc + 1, p.at[op.k], m.x)
    <2>1. CASE op.code = "ldb"
      BY <2>1, SMT DEF Execute
    <2>2. CASE op.code = "ldh"
      BY <2>2, SMT DEF Execute
    <2> QED
      BY <2>1, <2>2
  <1> QED
    BY <1>1, <1>2, <1>3

LEMMA Jumps ==
  ASSUME NEW op, NEW p, NEW i \in Nat, NEW a, NEW x, op.code \in {"jeq", "jge", "jgt", "jset"}
  PROVE  Execute(op, p, Running(i, a, x))
           = Running(i + 1 + (IF Holds(op, a) THEN op.jt ELSE op.jf), a, x)
  <1>1. PICK m : m = Running(i, a, x)
    OBVIOUS
  <1>2. m.pc = i /\ m.a = a /\ m.x = x
    BY <1>1 DEF Running
  <1>3. Execute(op, p, m) = Running(m.pc + 1 + (IF Holds(op, m.a) THEN op.jt ELSE op.jf), m.a, m.x)
    <2>1. op.code \notin {"ret", "ldb", "ldh", "ldh_x", "ldxb"}
      OBVIOUS
    <2> QED
      BY <2>1, SMT DEF Execute
  <1> QED
    BY <1>1, <1>2, <1>3

\* What each instruction of code_tcp does.
LEMMA EndOfLoads == EndOf(9) = 10 /\ EndOf(6) = 8 /\ EndOf(0) = 1
  BY DEF EndOf

LEMMA LoadsProtocol ==
  ASSUME NEW p, NEW a \in Nat, NEW x \in Nat
  PROVE  Execute(code_tcp[1], p, Running(1, a, x)) = IF 10 > p.len THEN Ended(0) ELSE Running(2, p.at[9], x)
  <1>1. PICK op : op = code_tcp[1]
    OBVIOUS
  <1>2. op.code = "ldb" /\ op.k = 9
    BY <1>1, SMT DEF code_tcp, Load
  <1>4. Execute(op, p, Running(1, a, x)) = IF EndOf(9) > p.len THEN Ended(0) ELSE Running(1 + 1, p.at[9], x)
    BY <1>2, Loads, SMT
  <1> QED
    BY EndOfLoads, <1>1, <1>4, SMT

LEMMA TestsProtocol ==
  ASSUME NEW p, NEW a \in Nat, NEW x \in Nat
  PROVE  Execute(code_tcp[2], p, Running(2, a, x)) = Running(IF a = 6 THEN 3 ELSE 10, a, x)
  <1>1. PICK op : op = code_tcp[2]
    OBVIOUS
  <1>2. op.code = "jeq" /\ op.jt = 0 /\ op.jf = 7 /\ op.k = 6
    BY <1>1, SMT DEF code_tcp, Jump
  <1>3. Holds(op, a) <=> a = 6
    BY <1>2, SMT DEF Holds
  <1>4. Execute(op, p, Running(2, a, x)) = Running(2 + 1 + (IF Holds(op, a) THEN 0 ELSE 7), a, x)
    BY <1>2, Jumps, SMT
  <1> QED
    BY <1>1, <1>3, <1>4, SMT

LEMMA LoadsFragment ==
  ASSUME NEW p, NEW a \in Nat, NEW x \in Nat
  PROVE  Execute(code_tcp[3], p, Running(3, a, x)) = IF 8 > p.len THEN Ended(0) ELSE Running(4, p.at[6], x)
  <1>1. PICK op : op = code_tcp[3]
    OBVIOUS
  <1>2. op.code = "ldh" /\ op.k = 6
    BY <1>1, SMT DEF code_tcp, Load
  <1>4. Execute(op, p, Running(3, a, x)) = IF EndOf(6) > p.len THEN Ended(0) ELSE Running(3 + 1, p.at[6], x)
    BY <1>2, Loads, SMT
  <1> QED
    BY EndOfLoads, <1>1, <1>4, SMT

LEMMA TestsFragment ==
  ASSUME NEW p, NEW a \in Nat, NEW x \in Nat
  PROVE  Execute(code_tcp[4], p, Running(4, a, x)) = Running(IF a % 8192 = 0 THEN 5 ELSE 10, a, x)
  <1>1. PICK op : op = code_tcp[4]
    OBVIOUS
  <1>2. op.code = "jset" /\ op.jt = 5 /\ op.jf = 0 /\ op.k = 8191
    BY <1>1, SMT DEF code_tcp, Jump
  <1>3. Holds(op, a) <=> a % 8192 # 0
    BY <1>2, SMT DEF Holds
  <1>4. Execute(op, p, Running(4, a, x)) = Running(4 + 1 + (IF Holds(op, a) THEN 5 ELSE 0), a, x)
    BY <1>2, Jumps, SMT
  <1> QED
    BY <1>1, <1>3, <1>4, SMT

LEMMA LoadsLength ==
  ASSUME NEW p, NEW a \in Nat, NEW x \in Nat
  PROVE  Execute(code_tcp[5], p, Running(5, a, x)) = IF 1 > p.len THEN Ended(0) ELSE Running(6, a, 4 * Ihl(p.at))
  <1>1. PICK op : op = code_tcp[5]
    OBVIOUS
  <1>2. op.code = "ldxb" /\ op.k = 0
    BY <1>1, SMT DEF code_tcp, Load
  <1>4. Execute(op, p, Running(5, a, x)) = IF EndOf(0) > p.len THEN Ended(0) ELSE Running(5 + 1, a, 4 * Ihl(p.at))
    BY <1>2, SMT DEF Execute, Running
  <1> QED
    BY EndOfLoads, <1>1, <1>4, SMT

LEMMA LoadsPort ==
  ASSUME NEW p, NEW a \in Nat, NEW x \in Nat
  PROVE  Execute(code_tcp[6], p, Running(6, a, x)) = IF EndOf(x + 2) > p.len THEN Ended(0) ELSE Running(7, p.at[x + 2], x)
  <1>1. PICK op : op = code_tcp[6]
    OBVIOUS
  <1>2. op.code = "ldh_x" /\ op.k = 2
    BY <1>1, SMT DEF code_tcp, Load
  <1>4. Execute(op, p, Running(6, a, x)) = IF EndOf(x + 2) > p.len THEN Ended(0) ELSE Running(6 + 1, p.at[x + 2], x)
    BY <1>2, SMT DEF Execute, Running
  <1> QED
    BY EndOfLoads, <1>1, <1>4, SMT

LEMMA TestsLowest ==
  ASSUME NEW p, NEW a \in Nat, NEW x \in Nat
  PROVE  Execute(code_tcp[7], p, Running(7, a, x)) = Running(IF a >= 100 THEN 8 ELSE 10, a, x)
  <1>1. PICK op : op = code_tcp[7]
    OBVIOUS
  <1>2. op.code = "jge" /\ op.jt = 0 /\ op.jf = 2 /\ op.k = 100
    BY <1>1, SMT DEF code_tcp, Jump
  <1>3. Holds(op, a) <=> a >= 100
    BY <1>2, SMT DEF Holds
  <1>4. Execute(op, p, Running(7, a, x)) = Running(7 + 1 + (IF Holds(op, a) THEN 0 ELSE 2), a, x)
    BY <1>2, Jumps, SMT
  <1> QED
    BY <1>1, <1>3, <1>4, SMT

LEMMA TestsHighest ==
  ASSUME NEW p, NEW a \in Nat, NEW x \in Nat
  PROVE  Execute(code_tcp[8], p, Running(8, a, x)) = Running(IF a > 200 THEN 10 ELSE 9, a, x)
  <1>1. PICK op : op = code_tcp[8]
    OBVIOUS
  <1>2. op.code = "jgt" /\ op.jt = 1 /\ op.jf = 0 /\ op.k = 200
    BY <1>1, SMT DEF code_tcp, Jump
  <1>3. Holds(op, a) <=> a > 200
    BY <1>2, SMT DEF Holds
  <1>4. Execute(op, p, Running(8, a, x)) = Running(8 + 1 + (IF Holds(op, a) THEN 1 ELSE 0), a, x)
    BY <1>2, Jumps, SMT
  <1> QED
    BY <1>1, <1>3, <1>4, SMT

LEMMA Accepts ==
  ASSUME NEW p, NEW a \in Nat, NEW x \in Nat
  PROVE  Execute(code_tcp[9], p, Running(9, a, x)) = Ended(262144)
  <1>1. PICK op : op = code_tcp[9]
    OBVIOUS
  <1>2. op.code = "ret" /\ op.k = 262144
    BY <1>1, SMT DEF code_tcp, Ret
  <1>4. Execute(op, p, Running(9, a, x)) = Ended(262144)
    BY <1>2, SMT DEF Execute
  <1> QED
    BY <1>1, <1>4, SMT

LEMMA Refuses ==
  ASSUME NEW p, NEW a \in Nat, NEW x \in Nat
  PROVE  Execute(code_tcp[10], p, Running(10, a, x)) = Ended(0)
  <1>1. PICK op : op = code_tcp[10]
    OBVIOUS
  <1>2. op.code = "ret" /\ op.k = 0
    BY <1>1, SMT DEF code_tcp, Ret
  <1>4. Execute(op, p, Running(10, a, x)) = Ended(0)
    BY <1>2, SMT DEF Execute
  <1> QED
    BY <1>1, <1>4, SMT

\* Execution until the program has returned.
Further(p, m) == IF m.ret # -1 THEN m ELSE Execute(code_tcp[m.pc], p, m)

LEMMA RunMeans ==
  ASSUME NEW p
  PROVE  \E f : /\ f[0] = Running(1, 0, 0)
                /\ \A n \in 1 .. 10 : f[n] = Further(p, f[n - 1])
                /\ Run(p) = f[10].ret
  <1> DEFINE Runs(f) == f = [n \in 0 .. Len(code_tcp) |->
                               IF n = 0 THEN Running(1, 0, 0)
                               ELSE LET m == f[n - 1]
                                    IN  IF m.ret # -1 THEN m ELSE Execute(code_tcp[m.pc], p, m)]
  <1>1. PICK s0 : s0 = Running(1, 0, 0)
    OBVIOUS
  <1>2. PICK s1, s2, s3, s4, s5 : /\ s1 = Further(p, s0) /\ s2 = Further(p, s1) /\ s3 = Further(p, s2)
                                  /\ s4 = Further(p, s3) /\ s5 = Further(p, s4)
    OBVIOUS
  <1>3. PICK s6, s7, s8, s9, s10 : /\ s6 = Further(p, s5) /\ s7 = Further(p, s6) /\ s8 = Further(p, s7)
                                   /\ s9 = Further(p, s8) /\ s10 = Further(p, s9)
    OBVIOUS
  <1>4. PICK g : g = [n \in 0 .. 10 |-> IF n = 0 THEN s0 ELSE <<s1, s2, s3, s4, s5, s6, s7, s8, s9, s10>>[n]]
    OBVIOUS
  <1>5. /\ g[0] = s0 /\ g[1] = s1 /\ g[2] = s2 /\ g[3] = s3 /\ g[4] = s4 /\ g[5] = s5
        /\ g[6] = s6 /\ g[7] = s7 /\ g[8] = s8 /\ g[9] = s9 /\ g[10] = s10
    BY <1>4
  <1>6. Runs(g)
    <2>1. \A n \in 1 .. 10 : g[n] = Further(p, g[n - 1])
      <3>1. \A n \in 1 .. 10 : n = 1 \/ n = 2 \/ n = 3 \/ n = 4 \/ n = 5 \/ n = 6 \/ n = 7 \/ n = 8 \/ n = 9 \/ n = 10
        OBVIOUS
      <3> QED
        BY <1>2, <1>3, <1>5, <3>1
    <2>2. g = [n \in 0 .. 10 |-> g[n]]
      BY <1>4
    <2>3. \A n \in 0 .. 10 : n # 0 => n \in 1 .. 10
      OBVIOUS
    <2> HIDE <1>4
    <2>4. g = [n \in 0 .. 10 |-> IF n = 0 THEN Running(1, 0, 0) ELSE Further(p, g[n - 1])]
      BY <1>1, <1>5, <2>1, <2>2, <2>3
    <2>5. g = [n \in 0 .. Len(code_tcp) |-> IF n = 0 THEN Running(1, 0, 0) ELSE Further(p, g[n - 1])]
      BY <2>4, CodeLength, Zenon
    <2> QED
      BY <2>5, Zenon DEF Further
  <1>7. PICK f : f = CHOOSE r : Runs(r)
    OBVIOUS
  <1>8. Runs(f)
    <2> HIDE DEF Runs
    <2> QED
      BY <1>6, <1>7
  <1>9. f[0] = Running(1, 0, 0) /\ \A n \in 1 .. 10 : f[n] = Further(p, f[n - 1])
    <2>1. f = [n \in 0 .. 10 |-> IF n = 0 THEN Running(1, 0, 0) ELSE Further(p, f[n - 1])]
      <3>1. f = [n \in 0 .. Len(code_tcp) |-> IF n = 0 THEN Running(1, 0, 0) ELSE Further(p, f[n - 1])]
        BY <1>8, Zenon DEF Further
      <3> QED
        BY <3>1, CodeLength, Zenon
    <2>2. 0 \in 0 .. 10 /\ \A n \in 1 .. 10 : n \in 0 .. 10 /\ n # 0
      OBVIOUS
    <2> QED
      BY <2>1, <2>2
  <1>10. Run(p) = f[10].ret
    BY <1>7, CodeLength, SMT DEF Run
  <1> QED
    BY <1>9, <1>10

\* What the program has returned it still has in the end.
LEMMA Stays ==
  ASSUME NEW p, NEW f, \A n \in 1 .. 10 : f[n] = Further(p, f[n - 1]),
         NEW i \in 0 .. 10, NEW k \in Nat, f[i] = Ended(k)
  PROVE  f[10].ret = k
  <1>1. Ended(k).ret = k /\ k # -1
    BY SMT DEF Ended
  <1>2. Further(p, Ended(k)) = Ended(k)
    BY <1>1, SMT DEF Further
  <1>3. \A n \in 0 .. 9 : f[n] = Ended(k) => f[n + 1] = Ended(k)
    <2>1. \A n \in 0 .. 9 : n + 1 \in 1 .. 10 /\ (n + 1) - 1 = n
      OBVIOUS
    <2> QED
      BY <1>2, <2>1, SMT
  <1>4. f[10] = Ended(k)
    <2>1. PICK r : r = Ended(k)
      OBVIOUS
    <2>2. /\ (f[0] = r => f[1] = r) /\ (f[1] = r => f[2] = r) /\ (f[2] = r => f[3] = r)
          /\ (f[3] = r => f[4] = r) /\ (f[4] = r => f[5] = r) /\ (f[5] = r => f[6] = r)
          /\ (f[6] = r => f[7] = r) /\ (f[7] = r => f[8] = r) /\ (f[8] = r => f[9] = r)
          /\ (f[9] = r => f[10] = r)
      BY <1>3, <2>1, SMT
    <2>3. \/ i = 0 \/ i = 1 \/ i = 2 \/ i = 3 \/ i = 4 \/ i = 5
          \/ i = 6 \/ i = 7 \/ i = 8 \/ i = 9 \/ i = 10
      OBVIOUS
    <2> QED
      BY <2>1, <2>2, <2>3, SMT
  <1> QED
    BY <1>1, <1>4, SMT

\* Which datagrams the program lets pass: its jumps, counted by hand, lead
\* where they should.
LEMMA PassesWanted ==
  ASSUME NEW p \in Datagrams
  PROVE  Passes(p) <=> Wanted(p)
  <1>1. p.len \in Nat /\ p.at \in [Offsets -> Nat]
    BY DatagramsAssumption, SMT
  <1>2. PICK h \in 0 .. 15 : h = Ihl(p.at)
    <2>1. p.at[0] \in Nat
      BY <1>1, SMT DEF Offsets
    <2>2. p.at[0] % 16 \in 0 .. 15
      BY <2>1, SMT
    <2> QED
      BY <2>2, SMT DEF Ihl
  <1>3. PICK o \in Offsets : o = 4 * h + 2 /\ o = PortOffset(Ihl(p.at))
    BY <1>2, SMT DEF Offsets, PortOffset
  <1>4. PICK protocol \in Nat : protocol = p.at[9]
    BY <1>1, SMT DEF Offsets
  <1>5. PICK fragment \in Nat : fragment = p.at[6]
    BY <1>1, SMT DEF Offsets
  <1>6. PICK port \in Nat : port = p.at[o]
    BY <1>1, SMT
  <1>7. PICK end \in Nat : end = EndOf(o)
    BY <1>2, <1>3, SMT DEF EndOf
  <1>8. Wanted(p) <=> /\ 10 <= p.len /\ protocol = 6 /\ fragment % 8192 = 0
                      /\ end <= p.len /\ port \in 100 .. 200
    <2>1. EndOf(9) = 10
      BY SMT DEF EndOf
    <2> QED
      BY <1>3, <1>4, <1>5, <1>6, <1>7, <2>1, SMT DEF Wanted, Dest, TCP
  <1>9. PICK f : /\ f[0] = Running(1, 0, 0) /\ Run(p) = f[10].ret
                 /\ \A n \in 1 .. 10 : f[n] = Further(p, f[n - 1])
    BY RunMeans, SMT
  <1>10. \A i \in 0 .. 10, k \in Nat : f[i] = Ended(k) => Run(p) = k
    BY <1>9, Stays, SMT
  \* Where the program goes on, and where it ends.
  <1>11. ASSUME NEW n \in 0 .. 9, NEW i \in 1 .. 10, NEW a, NEW x, f[n] = Running(i, a, x)
         PROVE  f[n + 1] = Execute(code_tcp[i], p, Running(i, a, x))
    <2>1. n + 1 \in 1 .. 10 /\ (n + 1) - 1 = n
      OBVIOUS
    <2>2. f[n + 1] = Further(p, f[n])
      BY <1>9, <2>1, SMT
    <2>3. Running(i, a, x).ret = -1 /\ Running(i, a, x).pc = i
      BY SMT DEF Running
    <2> QED
      BY <1>11, <2>2, <2>3, SMT DEF Further
  <1>12. ASSUME NEW n \in 0 .. 9, NEW a \in Nat, NEW x \in Nat, f[n] = Running(10, a, x)
         PROVE  Run(p) = 0
    <2>1. f[n + 1] = Ended(0)
      <3>1. f[n + 1] = Execute(code_tcp[10], p, Running(10, a, x))
        BY <1>11, <1>12, SMT
      <3> QED
        BY <3>1, Refuses, SMT
    <2>2. n + 1 \in 0 .. 10 /\ 0 \in Nat
      OBVIOUS
    <2> QED
      BY <1>10, <2>1, <2>2, SMT
  <1>13. f[1] = IF 10 > p.len THEN Ended(0) ELSE Running(2, protocol, 0)
    <2>1. f[0 + 1] = Execute(code_tcp[1], p, Running(1, 0, 0))
      BY <1>9, <1>11, SMT
    <2> QED
      BY <1>4, <2>1, LoadsProtocol, SMT
  <1>14. CASE 10 > p.len
    <2>1. Run(p) = 0
      BY <1>10, <1>13, <1>14, SMT
    <2> QED
      BY <1>1, <1>8, <1>14, <2>1, SMT DEF Passes
  <1>15. CASE ~(10 > p.len)
    <2>1. f[2] = Running(IF protocol = 6 THEN 3 ELSE 10, protocol, 0)
      <3>1. f[1 + 1] = Execute(code_tcp[2], p, Running(2, protocol, 0))
        BY <1>11, <1>13, <1>15, SMT
      <3> QED
        BY <3>1, TestsProtocol, SMT
    <2>2. CASE protocol # 6
      <3>1. Run(p) = 0
        BY <1>12, <2>1, <2>2, SMT
      <3> QED
        BY <1>8, <2>2, <3>1, SMT DEF Passes
    <2>3. CASE protocol = 6
      <3>1. f[3] = Running(4, fragment, 0)
        <4>1. f[2 + 1] = Execute(code_tcp[3], p, Running(3, protocol, 0))
          BY <1>11, <2>1, <2>3, SMT
        <4> QED
          BY <1>1, <1>5, <1>15, <4>1, LoadsFragment, SMT
      <3>2. f[4] = Running(IF fragment % 8192 = 0 THEN 5 ELSE 10, fragment, 0)
        <4>1. f[3 + 1] = Execute(code_tcp[4], p, Running(4, fragment, 0))
          BY <1>11, <3>1, SMT
        <4> QED
          BY <4>1, TestsFragment, SMT
      <3>3. CASE fragment % 8192 # 0
        <4>1. Run(p) = 0
          BY <1>12, <3>2, <3>3, SMT
        <4> QED
          BY <1>8, <3>3, <4>1, SMT DEF Passes
      <3>4. CASE fragment % 8192 = 0
        <4>1. f[5] = Running(6, fragment, 4 * h)
          <5>1. f[4 + 1] = Execute(code_tcp[5], p, Running(5, fragment, 0))
            BY <1>11, <3>2, <3>4, SMT
          <5> QED
            BY <1>1, <1>2, <1>15, <5>1, LoadsLength, SMT
        <4>2. f[6] = IF end > p.len THEN Ended(0) ELSE Running(7, port, 4 * h)
          <5>1. f[5 + 1] = Execute(code_tcp[6], p, Running(6, fragment, 4 * h))
            BY <1>11, <4>1, SMT
          <5>2. 4 * h \in Nat
            BY <1>2, SMT
          <5>3. Execute(code_tcp[6], p, Running(6, fragment, 4 * h))
                  = IF EndOf(4 * h + 2) > p.len THEN Ended(0) ELSE Running(7, p.at[4 * h + 2], 4 * h)
            BY <5>2, LoadsPort, SMT
          <5>4. EndOf(4 * h + 2) = end /\ p.at[4 * h + 2] = port
            BY <1>3, <1>6, <1>7
          <5> QED
            BY <5>1, <5>3, <5>4
        <4>3. CASE end > p.len
          <5>1. Run(p) = 0
            BY <1>10, <4>2, <4>3, SMT
          <5> QED
            BY <1>1, <1>7, <1>8, <4>3, <5>1, SMT DEF Passes
        <4>4. CASE ~(end > p.len)
          <5>1. PICK x \in Nat : x = 4 * h
            BY <1>2, SMT
          <5>2. f[7] = Running(IF port >= 100 THEN 8 ELSE 10, port, x)
            <6>1. f[6 + 1] = Execute(code_tcp[7], p, Running(7, port, x))
              BY <1>11, <4>2, <4>4, <5>1, SMT
            <6> QED
              BY <6>1, TestsLowest, SMT
          <5>3. CASE ~(port >= 100)
            <6>1. Run(p) = 0
              BY <1>12, <5>2, <5>3, SMT
            <6> QED
              BY <1>8, <5>3, <6>1, SMT DEF Passes
          <5>4. CASE port >= 100
            <6>1. f[8] = Running(IF port > 200 THEN 10 ELSE 9, port, x)
              <7>1. f[7 + 1] = Execute(code_tcp[8], p, Running(8, port, x))
                BY <1>11, <5>2, <5>4, SMT
              <7> QED
                BY <7>1, TestsHighest, SMT
            <6>2. CASE port > 200
              <7>1. Run(p) = 0
                BY <1>12, <6>1, <6>2, SMT
              <7> QED
                BY <1>8, <6>2, <7>1, SMT DEF Passes
            <6>3. CASE ~(port > 200)
              <7>1. f[8 + 1] = Execute(code_tcp[9], p, Running(9, port, x))
                BY <1>11, <6>1, <6>3, SMT
              <7>2. f[9] = Ended(262144)
                BY <7>1, Accepts, SMT
              <7>3. Run(p) = 262144
                BY <1>10, <7>2, SMT
              <7>4. Wanted(p)
                BY <1>1, <1>7, <1>8, <1>15, <2>3, <3>4, <4>4, <5>4, <6>3, SMT
              <7> QED
                BY <7>3, <7>4, SMT DEF Passes
            <6> QED
              BY <6>2, <6>3, SMT
          <5> QED
            BY <5>3, <5>4, SMT
        <4> QED
          BY <4>3, <4>4, SMT
      <3> QED
        BY <3>3, <3>4, SMT
    <2> QED
      BY <2>2, <2>3, SMT
  <1> QED
    BY <1>14, <1>15, SMT

\* What is queued and was filtered is wanted.
FilterIInv ==
    /\ socket \in Seq([datagram : Datagrams, filtered : BOOLEAN])
    /\ \A i \in 1 .. Len(socket) : socket[i].filtered => Wanted(socket[i].datagram)
    /\ FilteredExactly

LEMMA FilterStart == FilterInit => FilterIInv
  BY DEF FilterInit, FilterIInv, FilteredExactly

LEMMA ArriveKeeps ==
  ASSUME FilterIInv, NEW p \in Datagrams, Arrive(p)
  PROVE  FilterIInv'
  <1>1. UNCHANGED printed
    BY DEF Arrive
  <1>2. CASE /\ demo = "open" \/ Passes(p)
             /\ socket' = Append(socket, [datagram |-> p, filtered |-> demo # "open"])
             /\ UNCHANGED kept_out
    <2>1. PICK d \in [datagram : Datagrams, filtered : BOOLEAN] :
              d = [datagram |-> p, filtered |-> demo # "open"]
      <3>1. PICK b \in BOOLEAN : b = (demo # "open")
        OBVIOUS
      <3>2. [datagram |-> p, filtered |-> b] \in [datagram : Datagrams, filtered : BOOLEAN]
        OBVIOUS
      <3> QED
        BY <3>1, <3>2
    <2>2. d.filtered => Wanted(d.datagram)
      BY <1>2, <2>1, PassesWanted
    <2>3. socket' = Append(socket, d) /\ socket \in Seq([datagram : Datagrams, filtered : BOOLEAN])
      BY <1>2, <2>1 DEF FilterIInv
    <2>4. socket' \in Seq([datagram : Datagrams, filtered : BOOLEAN]) /\ Len(socket') = Len(socket) + 1
      BY <2>3
    <2>5. \A i \in 1 .. Len(socket') : socket'[i] = IF i \in 1 .. Len(socket) THEN socket[i] ELSE d
      BY <2>3
    <2>6. \A i \in 1 .. Len(socket') : socket'[i].filtered => Wanted(socket'[i].datagram)
      BY <2>2, <2>5 DEF FilterIInv
    <2>7. FilteredExactly'
      BY <1>1, <1>2 DEF FilterIInv, FilteredExactly
    <2> QED
      BY <2>4, <2>6, <2>7 DEF FilterIInv
  <1>3. CASE /\ ~(demo = "open" \/ Passes(p))
             /\ kept_out' = <<p>> /\ UNCHANGED socket
    <2>1. ~Wanted(p) /\ kept_out'[1] = p
      BY <1>3, PassesWanted
    <2> QED
      BY <1>1, <1>3, <2>1 DEF FilterIInv, FilteredExactly
  <1> QED
    BY <1>2, <1>3 DEF Arrive

LEMMA ReceiveKeeps ==
  ASSUME FilterIInv, Receive
  PROVE  FilterIInv'
  <1>1. /\ socket \in Seq([datagram : Datagrams, filtered : BOOLEAN]) /\ socket # << >>
        /\ socket' = Tail(socket) /\ UNCHANGED kept_out
    BY DEF FilterIInv, Receive
  <1>2. PICK d \in [datagram : Datagrams, filtered : BOOLEAN] : d = socket[1] /\ d = Head(socket)
    <2>1. Len(socket) \in Nat /\ Len(socket) # 0
      BY <1>1
    <2>2. 1 \in 1 .. Len(socket)
      BY <2>1
    <2>3. socket[1] \in [datagram : Datagrams, filtered : BOOLEAN]
      BY <1>1, <2>2, ElementOfSeq
    <2>4. socket[1] = Head(socket)
      OBVIOUS
    <2> QED
      BY <2>3, <2>4
  <1>3. PICK p \in Datagrams : p = d.datagram
    OBVIOUS
  <1>4. d.filtered => Wanted(p)
    BY <1>1, <1>2, <1>3 DEF FilterIInv
  <1>5. PICK buf : /\ buf = [k \in Offsets |-> IF EndOf(k) <= p.len THEN p.at[k] ELSE packet_buf[k]]
                   /\ printed' = << [from |-> d, protocol |-> buf[9],
                                     port |-> IF buf[9] \in {TCP, UDP} THEN Dest(buf) ELSE -1] >>
    BY <1>2, <1>3 DEF Receive
  <1>6. ASSUME EndOf(9) <= p.len, EndOf(PortOffset(Ihl(p.at))) <= p.len
        PROVE  buf[9] = p.at[9] /\ Dest(buf) = Dest(p.at)
    <2>1. p.len \in Nat /\ p.at \in [Offsets -> Nat]
      BY DatagramsAssumption
    <2>2. \A k \in Offsets : EndOf(k) <= p.len => buf[k] = p.at[k]
      BY <1>5
    <2>3. 0 \in Offsets /\ 9 \in Offsets
      BY DEF Offsets
    <2>4. EndOf(0) <= p.len
      BY <1>6, <2>1, EndOfLoads
    <2>5. buf[9] = p.at[9] /\ buf[0] = p.at[0]
      BY <1>6, <2>2, <2>3, <2>4
    <2>6. PICK h \in 0 .. 15 : h = Ihl(p.at) /\ h = Ihl(buf)
      <3>1. p.at[0] \in Nat
        BY <2>1, <2>3
      <3>2. p.at[0] % 16 \in 0 .. 15
        BY <3>1
      <3> QED
        BY <2>5, <3>2 DEF Ihl
    <2>7. PortOffset(h) \in Offsets
      BY DEF Offsets
    <2>8. buf[PortOffset(h)] = p.at[PortOffset(h)]
      BY <1>6, <2>2, <2>6, <2>7
    <2> QED
      BY <2>5, <2>6, <2>8 DEF Dest
  <1>7. FilteredExactly'
    <2>1. kept_out' # << >> => ~Wanted(kept_out'[1])
      BY <1>1 DEF FilterIInv, FilteredExactly
    <2>2. /\ printed'[1].from = d /\ printed'[1].protocol = buf[9]
          /\ printed'[1].port = IF buf[9] \in {TCP, UDP} THEN Dest(buf) ELSE -1
      BY <1>5
    <2> QED
      BY <1>3, <1>4, <1>6, <2>1, <2>2 DEF FilteredExactly
  <1>8. /\ socket' \in Seq([datagram : Datagrams, filtered : BOOLEAN])
        /\ \A i \in 1 .. Len(socket') : i + 1 \in 1 .. Len(socket) /\ socket'[i] = socket[i + 1]
    BY <1>1
  <1>9. \A i \in 1 .. Len(socket') : socket'[i].filtered => Wanted(socket'[i].datagram)
    BY <1>8 DEF FilterIInv
  <1> QED
    BY <1>7, <1>8, <1>9 DEF FilterIInv

LEMMA FilterStep == FilterIInv /\ [FilterNext]_filterVars => FilterIInv'
  <1> SUFFICES ASSUME FilterIInv, [FilterNext]_filterVars
               PROVE  FilterIInv'
    OBVIOUS
  <1>1. ASSUME NEW p \in Datagrams, Arrive(p)
        PROVE  FilterIInv'
    BY <1>1, ArriveKeeps
  <1>2. CASE Receive
    BY <1>2, ReceiveKeeps
  <1>3. CASE InitFilter \/ ReceiveFails \/ UNCHANGED filterVars
    BY <1>3 DEF InitFilter, ReceiveFails, filterVars, FilterIInv, FilteredExactly
  <1> QED
    BY <1>1, <1>2, <1>3 DEF FilterNext

\* What the filter refuses is not wanted; what is printed after it was attached
\* is wanted, and with its own protocol and port, whatever the buffer still
\* holds: for every set of datagrams (bpf_demo.cpp:46-58, 121-144).
THEOREM FilterExact == FilterSpec => []FilteredExactly
  <1>1. FilterIInv => FilteredExactly
    BY DEF FilterIInv
  <1> QED
    BY <1>1, FilterStart, FilterStep, PTL DEF FilterSpec

-----------------------------------------------------------------------------
(* Addition to an address                                                  *)

\* One call of ipv6_addition; Utilities makes it so.
AdditionSpec == AdditionInit /\ [][given' = given]_given

\* The word that is written, and the addend of the next word: nothing is lost.
LEMMA CarryOrBorrow ==
  ASSUME NEW t \in Int, -Base <= t, t < 2 * Base
  PROVE  /\ t % Base \in 0 .. Base - 1
         /\ NextAddend(t) \in {-1, 0, 1}
         /\ t = (t % Base) + NextAddend(t) * Base
         /\ t \in 0 .. Base - 1 => NextAddend(t) = 0
  <1>1. Base \in Nat \ {0, 1}
    BY BaseAssumption
  <1>2. CASE t < Base
    <2>1. t % Base = IF t < 0 THEN t + Base ELSE t
      BY <1>1, <1>2, RemainderAround
    <2>2. CASE t < 0
      <3>1. NextAddend(t) = -1
        BY <2>2 DEF NextAddend
      <3> QED
        BY <1>1, <2>1, <2>2, <3>1
    <2>3. CASE t >= 0
      <3>1. t \div Base = 0
        BY <1>1, <1>2, <2>3
      <3>2. NextAddend(t) = 0
        BY <1>1, <2>3, <3>1, RemainderAround DEF NextAddend
      <3> QED
        BY <1>1, <1>2, <2>1, <2>3, <3>2
    <2> QED
      BY <2>2, <2>3
  <1>3. CASE t >= Base
    <2>1. t % Base = t - Base
      BY <1>1, <1>3, RemainderIs
    <2>2. t \div Base = 1
      BY <1>1, <1>3
    <2>3. NextAddend(t) = 1
      BY <1>1, <1>3, <2>2, RemainderAround DEF NextAddend
    <2> QED
      BY <1>1, <1>3, <2>1, <2>3
  <1> QED
    BY <1>1, <1>2, <1>3

\* What is still to be added to the next word.
Owed(r) == IF r.done THEN 0 ELSE r.n

Carries   == -(Base \div 2) .. Base \div 2
Additions == [addr : Addresses, n : Carries, done : BOOLEAN]

\* One iteration of the loop: what is left to add comes to the next word.
LEMMA WordAdded ==
  ASSUME NEW r \in Additions, NEW i \in 1 .. 4
  PROVE  /\ AddToWord(r, i) \in Additions
         /\ \A j \in 1 .. 4 : j # i => AddToWord(r, i).addr[j] = r.addr[j]
         /\ r.addr[i] + Owed(r) = AddToWord(r, i).addr[i] + Owed(AddToWord(r, i)) * Base
  <1>1. Base \in Nat \ {0, 1} /\ Base \div 2 \in Nat /\ 1 <= Base \div 2 /\ Base \div 2 <= Base
    BY BaseAssumption
  <1>2. /\ r = [addr |-> r.addr, n |-> r.n, done |-> r.done]
        /\ r.addr \in [1 .. 4 -> 0 .. Base - 1]
        /\ r.n \in -(Base \div 2) .. Base \div 2 /\ r.done \in BOOLEAN
    BY DEF Additions, Addresses, Carries
  <1>3. PICK a \in 0 .. Base - 1 : a = r.addr[i]
    BY <1>2
  <1>4. CASE r.done
    <2>1. AddToWord(r, i) = r /\ Owed(r) = 0
      BY <1>4 DEF AddToWord, Owed
    <2> QED
      BY <1>1, <1>3, <2>1
  <1>5. CASE ~r.done
    <2>1. PICK t \in Int : t = a + r.n /\ -Base <= t /\ t < 2 * Base
      BY <1>1, <1>2
    <2>2. PICK w \in 0 .. Base - 1, c \in {-1, 0, 1} :
              /\ w = t % Base /\ c = NextAddend(t) /\ t = w + c * Base
              /\ t \in 0 .. Base - 1 => c = 0
      BY <2>1, CarryOrBorrow
    <2>3. PICK q : q = AddToWord(r, i)
      OBVIOUS
    <2>4. q = [addr |-> [r.addr EXCEPT ![i] = w], n |-> c, done |-> t \in 0 .. Base - 1]
      BY <1>3, <1>5, <2>1, <2>2, <2>3 DEF AddToWord
    <2>5. q.addr = [r.addr EXCEPT ![i] = w] /\ q.n = c /\ q.done = (t \in 0 .. Base - 1)
      BY <2>4
    <2>6. q.addr \in Addresses /\ q.addr[i] = w /\ \A j \in 1 .. 4 : j # i => q.addr[j] = r.addr[j]
      BY <1>2, <2>5 DEF Addresses
    <2>7. q \in Additions
      <3>1. c \in Carries
        BY <1>1 DEF Carries
      <3>2. CASE t \in 0 .. Base - 1
        <4>1. q = [addr |-> q.addr, n |-> c, done |-> TRUE]
          BY <2>4, <2>5, <3>2
        <4>2. [addr |-> q.addr, n |-> c, done |-> TRUE] \in Additions
          BY <2>6, <3>1 DEF Additions
        <4> QED
          BY <4>1, <4>2
      <3>3. CASE ~(t \in 0 .. Base - 1)
        <4>1. q = [addr |-> q.addr, n |-> c, done |-> FALSE]
          <5>1. PICK s : s = [r.addr EXCEPT ![i] = w] /\ s = q.addr
            BY <2>5
          <5>2. (t \in 0 .. Base - 1) = FALSE
            BY <3>3
          <5>3. q = [addr |-> s, n |-> c, done |-> t \in 0 .. Base - 1]
            BY <2>4, <5>1
          <5> QED
            BY <5>1, <5>2, <5>3, Zenon
        <4>2. [addr |-> q.addr, n |-> c, done |-> FALSE] \in Additions
          BY <2>6, <3>1 DEF Additions
        <4> QED
          BY <4>1, <4>2
      <3> QED
        BY <3>2, <3>3
    <2>8. Owed(r) = r.n /\ Owed(q) = c
      BY <1>5, <2>2, <2>5 DEF Owed
    <2> QED
      BY <1>3, <2>1, <2>2, <2>3, <2>6, <2>7, <2>8
  <1> QED
    BY <1>4, <1>5, <1>2

\* One more digit.
LEMMA NumberBelow ==
  ASSUME NEW M \in Nat, NEW x \in 0 .. M - 1, NEW w \in 0 .. Base - 1
  PROVE  x * Base + w \in 0 .. M * Base - 1
  <1>1. Base \in Nat \ {0, 1}
    BY BaseAssumption
  <1>2. (M - 1 - x) * Base >= 0 /\ x * Base >= 0
    BY <1>1
  <1>3. (M - 1 - x) * Base = M * Base - Base - x * Base
    BY <1>1
  <1> QED
    BY <1>1, <1>2, <1>3

\* Two words and the carry between them.
LEMMA CarryOver ==
  ASSUME NEW x \in Int, NEW y \in Int, NEW c \in Int, NEW d \in Int, NEW v \in Int, NEW w \in Int,
         NEW e \in Int, NEW M \in Int,
         x + c = y + d * M, v + e = w + c * Base
  PROVE  (x * Base + v) + e = (y * Base + w) + d * (M * Base)
  <1>1. Base \in Int
    BY BaseAssumption
  <1>2. x * Base + c * Base = (x + c) * Base
    BY <1>1
  <1>3. (y + d * M) * Base = y * Base + d * (M * Base)
    BY <1>1
  <1> QED
    BY <1>1, <1>2, <1>3

\* What is dropped is a multiple, so the rest is the remainder.
LEMMA RemainderOf ==
  ASSUME NEW S \in Nat \ {0}, NEW x \in Int, NEW q \in Int, NEW r \in 0 .. S - 1, x = S * q + r
  PROVE  x % S = r
  <1>1. x = S * (x \div S) + (x % S) /\ x \div S \in Int /\ x % S \in 0 .. S - 1
    OBVIOUS
  <1>2. PICK p \in Int, s \in 0 .. S - 1 : p = x \div S /\ s = x % S
    BY <1>1
  <1>3. S * p + s = S * q + r
    BY <1>1, <1>2
  <1>4. ~(p < q)
    BY <1>3, MultiplesApart
  <1>5. ~(q < p)
    BY <1>3, MultiplesApart
  <1> QED
    BY <1>2, <1>3, <1>4, <1>5

\* ipv6_addition adds modulo 2^128, whatever the number of values of a word.
LEMMA AdditionAdds ==
  ASSUME NEW a \in Addresses, NEW n \in Addends
  PROVE  Number(ipv6_addition(a, n)) = (Number(a) + n) % (Base * Base * Base * Base)
  <1>1. Base \in Nat \ {0, 1} /\ Base \div 2 \in Nat
    BY BaseAssumption
  <1>2. PICK r0 : r0 = [addr |-> a, n |-> n, done |-> n = 0]
    OBVIOUS
  <1>3. r0 \in Additions /\ r0.addr = a /\ Owed(r0) = n /\ n \in Int
    <2>1. n \in Carries /\ n \in Int
      BY <1>1 DEF Addends, Carries
    <2>2. CASE n = 0
      <3>1. r0 = [addr |-> a, n |-> n, done |-> TRUE]
        BY <1>2, <2>2
      <3> QED
        BY <2>1, <2>2, <3>1 DEF Additions, Owed
    <2>3. CASE n # 0
      <3>1. r0 = [addr |-> a, n |-> n, done |-> FALSE]
        BY <1>2, <2>3
      <3> QED
        BY <2>1, <3>1 DEF Additions, Owed
    <2> QED
      BY <2>2, <2>3
  <1>4. PICK r1 \in Additions : r1 = AddToWord(r0, 4)
    BY <1>3, WordAdded
  <1>5. PICK r2 \in Additions : r2 = AddToWord(r1, 3)
    BY WordAdded
  <1>6. PICK r3 \in Additions : r3 = AddToWord(r2, 2)
    BY WordAdded
  <1>7. PICK r4 \in Additions : r4 = AddToWord(r3, 1)
    BY WordAdded
  <1>8. ipv6_addition(a, n) = r4.addr
    BY <1>2, <1>4, <1>5, <1>6, <1>7 DEF ipv6_addition
  <1>9. /\ r1.addr[3] = a[3] /\ r1.addr[2] = a[2] /\ r1.addr[1] = a[1]
        /\ r2.addr[4] = r1.addr[4] /\ r2.addr[2] = a[2] /\ r2.addr[1] = a[1]
        /\ r3.addr[4] = r1.addr[4] /\ r3.addr[3] = r2.addr[3] /\ r3.addr[1] = a[1]
        /\ r4.addr[4] = r1.addr[4] /\ r4.addr[3] = r2.addr[3] /\ r4.addr[2] = r3.addr[2]
    <2>1. \A j \in 1 .. 4 : j # 4 => r1.addr[j] = a[j]
      BY <1>3, <1>4, WordAdded
    <2>2. \A j \in 1 .. 4 : j # 3 => r2.addr[j] = r1.addr[j]
      BY <1>5, WordAdded
    <2>3. \A j \in 1 .. 4 : j # 2 => r3.addr[j] = r2.addr[j]
      BY <1>6, WordAdded
    <2>4. \A j \in 1 .. 4 : j # 1 => r4.addr[j] = r3.addr[j]
      BY <1>7, WordAdded
    <2> QED
      BY <2>1, <2>2, <2>3, <2>4
  <1>10. PICK a1, a2, a3, a4 \in 0 .. Base - 1 : a1 = a[1] /\ a2 = a[2] /\ a3 = a[3] /\ a4 = a[4]
    BY DEF Addresses
  <1>11. PICK w1, w2, w3, w4 \in 0 .. Base - 1 :
             w1 = r4.addr[1] /\ w2 = r4.addr[2] /\ w3 = r4.addr[3] /\ w4 = r4.addr[4]
    BY SMTT(30) DEF Additions, Addresses
  <1>12. PICK o1, o2, o3, o4 \in Int :
             o1 = Owed(r1) /\ o2 = Owed(r2) /\ o3 = Owed(r3) /\ o4 = Owed(r4)
    <2>1. \A r \in Additions : Owed(r) \in Int
      BY <1>1 DEF Additions, Owed, Carries
    <2> QED
      BY <2>1
  <1>13. /\ a4 + n  = w4 + o1 * Base /\ a3 + o1 = w3 + o2 * Base
         /\ a2 + o2 = w2 + o3 * Base /\ a1 + o3 = w1 + o4 * Base
    <2>1. r0.addr[4] + Owed(r0) = r1.addr[4] + Owed(r1) * Base
      BY <1>3, <1>4, WordAdded
    <2>2. r1.addr[3] + Owed(r1) = r2.addr[3] + Owed(r2) * Base
      BY <1>5, WordAdded
    <2>3. r2.addr[2] + Owed(r2) = r3.addr[2] + Owed(r3) * Base
      BY <1>6, WordAdded
    <2>4. r3.addr[1] + Owed(r3) = r4.addr[1] + Owed(r4) * Base
      BY <1>7, WordAdded
    <2> QED
      BY <1>3, <1>9, <1>10, <1>11, <1>12, <2>1, <2>2, <2>3, <2>4
  <1>14. PICK x2, y2 \in Int : x2 = a1 * Base + a2 /\ y2 = w1 * Base + w2
    BY <1>1
  <1>15. PICK x3, y3 \in Int : x3 = x2 * Base + a3 /\ y3 = y2 * Base + w3
    BY <1>1
  <1>16. PICK x4, y4 \in Int : x4 = x3 * Base + a4 /\ y4 = y3 * Base + w4
    BY <1>1
  <1>17. PICK M2, M3, M4 \in Nat : M2 = Base * Base /\ M3 = M2 * Base /\ M4 = M3 * Base
    BY <1>1
  <1>18. x2 + o2 = y2 + o4 * M2
    <2>1. (a1 * Base + a2) + o2 = (w1 * Base + w2) + o4 * (Base * Base)
      BY <1>1, <1>13, CarryOver
    <2> QED
      BY <1>14, <1>17, <2>1
  <1>19. x3 + o1 = y3 + o4 * M3
    <2>1. (x2 * Base + a3) + o1 = (y2 * Base + w3) + o4 * (M2 * Base)
      BY <1>13, <1>18, CarryOver
    <2> QED
      BY <1>15, <1>17, <2>1
  <1>20. x4 + n = y4 + o4 * M4
    <2>1. (x3 * Base + a4) + n = (y3 * Base + w4) + o4 * (M3 * Base)
      BY <1>3, <1>13, <1>19, CarryOver
    <2> QED
      BY <1>16, <1>17, <2>1
  <1>21. y4 \in 0 .. M4 - 1
    <2>1. y2 \in 0 .. M2 - 1
      BY <1>1, <1>14, <1>17, NumberBelow
    <2>2. y3 \in 0 .. M3 - 1
      BY <1>15, <1>17, <2>1, NumberBelow
    <2> QED
      BY <1>16, <1>17, <2>2, NumberBelow
  <1>22. Number(a) = x4 /\ Number(r4.addr) = y4
    BY <1>10, <1>11, <1>14, <1>15, <1>16 DEF Number
  <1>23. Base * Base * Base * Base = M4
    BY <1>17
  <1>24. (x4 + n) % M4 = y4
    <2>1. M4 \in Nat \ {0} /\ x4 + n \in Int /\ x4 + n = M4 * o4 + y4
      BY <1>3, <1>20, <1>21
    <2> QED
      BY <1>21, <2>1, RemainderOf
  <1> QED
    BY <1>8, <1>22, <1>23, <1>24

\* For words of any number of values the result of ipv6_addition is the sum
\* modulo the number of the addresses, also for a negative addend
\* (ipv6_add.c:16-38).
THEOREM AddsModulo == AdditionSpec => []AdditionModulo
  <1>1. AdditionInit => AdditionModulo
    <2> SUFFICES ASSUME NEW a \in Addresses, NEW n \in Addends, given = <<"ipv6_addition", a, n>>
                 PROVE  AdditionModulo
      BY DEF AdditionInit
    <2> QED
      BY AdditionAdds DEF AdditionModulo
  <1>2. AdditionModulo /\ [given' = given]_given => AdditionModulo'
    BY DEF AdditionModulo, Given
  <1> QED
    BY <1>1, <1>2, PTL DEF AdditionSpec

-----------------------------------------------------------------------------
(* Hexadecimal                                                             *)

Byte == 0 .. 255

\* One call of a conversion, or of is_str_ip; Utilities makes it so.
StringsSpec == StringsInit /\ [][given' = given]_given

\* One character is converted there and back, and is told from others as its
\* value is.
LEMMA HexCharacters ==
  ASSUME NEW c \in Nat, NEW d \in Nat, isxdigit(c), isxdigit(d)
  PROVE  /\ HexValue(c) \in 0 .. 15 /\ HexDigit(HexValue(c)) = toupper(c)
         /\ SameButCase(c, d) <=> HexValue(c) = HexValue(d)
         /\ ~SameButCase(c, 0) /\ ~SameButCase(0, c)
  <1> DEFINE Kind(x) == \/ x \in 48 .. 57 /\ HexValue(x) = x - 48
                        \/ x \in 65 .. 70 /\ HexValue(x) = x - 55
                        \/ x \in 97 .. 102 /\ HexValue(x) = x - 87
  <1>1. ASSUME NEW x \in Nat, isxdigit(x)
        PROVE  Kind(x)
    <2>1. CASE x \in 48 .. 57
      BY <2>1 DEF HexValue, Digits
    <2>2. CASE x \in 65 .. 70
      <3>1. tolower(x) = x + 32 /\ x \notin Digits
        BY <2>2 DEF tolower, Digits
      <3>2. (x + 32 - 97 + 10) % 256 = x - 55
        BY <2>2
      <3> QED
        BY <2>2, <3>1, <3>2 DEF HexValue
    <2>3. CASE x \in 97 .. 102
      <3>1. tolower(x) = x /\ x \notin Digits
        BY <2>3 DEF tolower, Digits
      <3>2. (x - 97 + 10) % 256 = x - 87
        BY <2>3
      <3> QED
        BY <2>3, <3>1, <3>2 DEF HexValue
    <2> QED
      BY <1>1, <2>1, <2>2, <2>3 DEF isxdigit, Digits
  <1>2. Kind(c) /\ Kind(d)
    BY <1>1
  <1>3. HexDigit(HexValue(c)) = toupper(c)
    BY <1>2, SMT DEF HexDigit, toupper
  <1> QED
    BY <1>2, <1>3, SMT DEF SameButCase

\* The two digits of a byte, and the byte of two digits.
LEMMA Nibbles ==
  ASSUME NEW b \in Byte
  PROVE  /\ b \div 16 \in 0 .. 15 /\ b % 16 \in 0 .. 15
         /\ 16 * (b \div 16) + (b % 16) = b
  BY DEF Byte

LEMMA DigitsMakeByte ==
  ASSUME NEW h \in 0 .. 15, NEW l \in 0 .. 15
  PROVE  16 * h + l \in Byte
  BY SMT DEF Byte

LEMMA ByteStays ==
  ASSUME NEW x \in Byte
  PROVE  x % 256 = x
  BY SMT DEF Byte

LEMMA NibblesOf ==
  ASSUME NEW h \in 0 .. 15, NEW l \in 0 .. 15, NEW x \in Nat, x = 16 * h + l
  PROVE  x \div 16 = h /\ x % 16 = l
  <1>1. x = 16 * (x \div 16) + (x % 16)
    OBVIOUS
  <1>2. x \div 16 \in Int /\ x % 16 \in 0 .. 15
    OBVIOUS
  <1> QED
    BY <1>1, <1>2

\* A digit is one isxdigit accepts, with its value.
LEMMA Digit ==
  ASSUME NEW v \in 0 .. 15
  PROVE  HexDigit(v) \in Nat /\ isxdigit(HexDigit(v)) /\ HexValue(HexDigit(v)) = v
  <1>1. CASE v < 10
    BY <1>1, SMT DEF HexDigit, isxdigit, HexValue, Digits
  <1>2. CASE ~(v < 10)
    <2>1. HexDigit(v) = 55 + v /\ HexDigit(v) \notin Digits /\ tolower(HexDigit(v)) = 87 + v
      BY <1>2, SMT DEF HexDigit, Digits, tolower
    <2>2. (87 + v - 97 + 10) % 256 = v
      BY SMT
    <2> QED
      BY <1>2, <2>1, <2>2, SMT DEF isxdigit, HexValue
  <1> QED
    BY <1>1, <1>2

\* What becomes of a hexadecimal string.
LEMMA BytesOf ==
  ASSUME NEW s \in Seq(Nat), isxdigitstr(s), NEW k \in Nat, k = Len(s) \div 2
  PROVE  /\ Len(s) = 2 * k /\ Len(Converted(s)) = k /\ Converted(s) \in Seq(Byte)
         /\ \A i \in 1 .. k : /\ 2 * i - 1 \in 1 .. Len(s) /\ 2 * i \in 1 .. Len(s)
                             /\ isxdigit(s[2 * i - 1]) /\ isxdigit(s[2 * i])
                             /\ Converted(s)[i] = 16 * HexValue(s[2 * i - 1]) + HexValue(s[2 * i])
  <1>1. Len(s) \in Nat /\ Len(s) % 2 = 0 /\ \A i \in 1 .. Len(s) : isxdigit(s[i]) /\ s[i] \in Nat
    BY DEF isxdigitstr
  <1>2. Len(s) = 2 * k
    BY <1>1
  <1>3. \A i \in 1 .. k : /\ 2 * i - 1 \in 1 .. Len(s) /\ 2 * i \in 1 .. Len(s)
                         /\ isxdigit(s[2 * i - 1]) /\ isxdigit(s[2 * i])
                         /\ s[2 * i - 1] \in Nat /\ s[2 * i] \in Nat
    <2> SUFFICES ASSUME NEW i \in 1 .. k
                 PROVE  /\ 2 * i - 1 \in 1 .. Len(s) /\ 2 * i \in 1 .. Len(s)
                        /\ isxdigit(s[2 * i - 1]) /\ isxdigit(s[2 * i])
                        /\ s[2 * i - 1] \in Nat /\ s[2 * i] \in Nat
      OBVIOUS
    <2>1. 2 * i - 1 \in 1 .. Len(s) /\ 2 * i \in 1 .. Len(s)
      BY <1>1, <1>2
    <2> QED
      BY <1>1, <2>1
  <1>4. Converted(s) = [i \in 1 .. k |-> (16 * HexValue(s[2 * i - 1]) + HexValue(s[2 * i])) % 256]
    BY <1>1, <1>2 DEF Converted, str2bytes
  <1>5. ASSUME NEW i \in 1 .. k
        PROVE  /\ Converted(s)[i] = 16 * HexValue(s[2 * i - 1]) + HexValue(s[2 * i])
               /\ Converted(s)[i] \in Byte
    <2>1. PICK h, l \in 0 .. 15 : h = HexValue(s[2 * i - 1]) /\ l = HexValue(s[2 * i])
      <3>1. /\ isxdigit(s[2 * i - 1]) /\ isxdigit(s[2 * i])
            /\ s[2 * i - 1] \in Nat /\ s[2 * i] \in Nat
        BY <1>3
      <3>2. HexValue(s[2 * i - 1]) \in 0 .. 15 /\ HexValue(s[2 * i]) \in 0 .. 15
        BY <3>1, HexCharacters
      <3> QED
        BY <3>2
    <2>2. PICK x \in Byte : x = 16 * h + l
      <3>1. 16 * h + l \in Byte
        BY DigitsMakeByte
      <3> QED
        BY <3>1, Zenon
    <2>3. x % 256 = x
      BY ByteStays
    <2>4. Converted(s)[i] = (16 * HexValue(s[2 * i - 1]) + HexValue(s[2 * i])) % 256
      BY <1>4
    <2>5. Converted(s)[i] = x % 256
      BY <2>1, <2>2, <2>4, SMT
    <2> QED
      BY <2>1, <2>2, <2>3, <2>5, SMT
  <1>6. PICK f \in [1 .. k -> Byte] : f = Converted(s)
    <2>1. PICK f : f = Converted(s)
      OBVIOUS
    <2>2. f = [i \in 1 .. k |-> f[i]]
      BY <1>4, <2>1
    <2>3. \A i \in 1 .. k : f[i] \in Byte
      BY <1>5, <2>1
    <2>4. f \in [1 .. k -> Byte]
      BY ONLY <2>2, <2>3
    <2> QED
      BY <2>1, <2>4
  <1>7. Converted(s) \in Seq(Byte) /\ Len(Converted(s)) = k
    BY <1>6, FunctionIsSequence
  <1> QED
    BY <1>2, <1>3, <1>5, <1>7

\* Each character of the string of bytes is the first or the second of one.
LEMMA OddOrEven ==
  ASSUME NEW k \in Nat, NEW i \in 1 .. 2 * k
  PROVE  \E j \in 1 .. k : i = 2 * j - 1 \/ i = 2 * j
  <1>1. PICK j \in Int : j = (i + 1) \div 2
    OBVIOUS
  <1>2. 2 * j = i + 1 \/ 2 * j = i
    BY <1>1
  <1> QED
    BY <1>2

\* What becomes of bytes.
LEMMA StringOf ==
  ASSUME NEW data \in Seq(Byte), NEW k \in Nat, k = Len(data)
  PROVE  /\ bytes2strH(data) \in Seq(Nat) /\ Len(bytes2strH(data)) = 2 * k
         /\ \A i \in 1 .. k : /\ bytes2strH(data)[2 * i - 1] = HexDigit(data[i] \div 16)
                             /\ bytes2strH(data)[2 * i] = HexDigit(data[i] % 16)
         /\ isxdigitstr(bytes2strH(data))
  <1> DEFINE str == bytes2strH(data)
  <1>1. str = [i \in 1 .. 2 * k |->
                   HexDigit(IF i % 2 = 1 THEN data[(i + 1) \div 2] \div 16 ELSE data[(i + 1) \div 2] % 16)]
    BY DEF bytes2strH
  <1>2. \A i \in 1 .. 2 * k : \E j \in 1 .. k : i = 2 * j - 1 \/ i = 2 * j
    BY OddOrEven
  <1>3. ASSUME NEW j \in 1 .. k
        PROVE  /\ 2 * j - 1 \in 1 .. 2 * k /\ 2 * j \in 1 .. 2 * k
               /\ str[2 * j - 1] = HexDigit(data[j] \div 16)
               /\ str[2 * j] = HexDigit(data[j] % 16)
    <2>1. 2 * j - 1 \in 1 .. 2 * k /\ 2 * j \in 1 .. 2 * k
      OBVIOUS
    <2>2. (2 * j - 1) % 2 = 1 /\ (2 * j) % 2 = 0
      OBVIOUS
    <2>3. ((2 * j - 1) + 1) \div 2 = j /\ (2 * j + 1) \div 2 = j
      OBVIOUS
    <2>4. str[2 * j - 1] = HexDigit(data[j] \div 16)
      BY <1>1, <2>1, <2>2, <2>3
    <2>5. str[2 * j] = HexDigit(data[j] % 16)
      BY <1>1, <2>1, <2>2, <2>3, SMTT(30)
    <2> QED
      BY <2>1, <2>4, <2>5
  <1> HIDE DEF str
  <1>4. \A i \in 1 .. 2 * k : str[i] \in Nat /\ isxdigit(str[i])
    <2> SUFFICES ASSUME NEW i \in 1 .. 2 * k
                 PROVE  str[i] \in Nat /\ isxdigit(str[i])
      OBVIOUS
    <2>1. PICK j \in 1 .. k : i = 2 * j - 1 \/ i = 2 * j
      BY <1>2
    <2>2. data[j] \in Byte
      OBVIOUS
    <2>3. data[j] \div 16 \in 0 .. 15 /\ data[j] % 16 \in 0 .. 15
      BY <2>2, Nibbles
    <2> QED
      BY <1>3, <2>1, <2>3, Digit
  <1>5. str \in [1 .. 2 * k -> Nat]
    <2>1. str = [i \in 1 .. 2 * k |-> str[i]]
      BY <1>1
    <2> QED
      BY <1>4, <2>1
  <1>6. str \in Seq(Nat) /\ Len(str) = 2 * k
    <2>1. PICK n \in Nat : n = 2 * k
      OBVIOUS
    <2>2. str \in [1 .. n -> Nat]
      BY <1>5, <2>1
    <2> QED
      BY ONLY <2>1, <2>2, FunctionIsSequence
  <1>7. isxdigitstr(str)
    <2>1. Len(str) % 2 = 0 /\ DOMAIN str = 1 .. 2 * k
      BY <1>5, <1>6
    <2> QED
      BY <1>4, <2>1 DEF isxdigitstr
  <1> QED
    BY <1>3, <1>6, <1>7 DEF str

\* A hexadecimal string comes back in upper case.
LEMMA StringBack ==
  ASSUME NEW s \in Seq(Nat), isxdigitstr(s)
  PROVE  bytes2strH(Converted(s)) = str2upper(s)
  <1>1. Len(s) \in Nat /\ \A i \in 1 .. Len(s) : isxdigit(s[i]) /\ s[i] \in Nat
    BY DEF isxdigitstr
  <1>2. PICK k \in Nat : k = Len(s) \div 2
    BY <1>1
  <1>3. PICK d \in Seq(Byte) : d = Converted(s)
    BY <1>2, BytesOf
  <1>4. /\ Len(s) = 2 * k /\ Len(d) = k
        /\ \A i \in 1 .. k : /\ 2 * i - 1 \in 1 .. Len(s) /\ 2 * i \in 1 .. Len(s)
                            /\ isxdigit(s[2 * i - 1]) /\ isxdigit(s[2 * i])
                            /\ d[i] = 16 * HexValue(s[2 * i - 1]) + HexValue(s[2 * i])
    BY <1>2, <1>3, BytesOf, ZenonT(60)
  <1>5. PICK str \in Seq(Nat) : str = bytes2strH(d)
    BY <1>4, StringOf
  <1>6. /\ Len(str) = 2 * k
        /\ \A i \in 1 .. k : /\ str[2 * i - 1] = HexDigit(d[i] \div 16)
                            /\ str[2 * i] = HexDigit(d[i] % 16)
    BY <1>4, <1>5, StringOf
  <1>7. \A i \in 1 .. k : str[2 * i - 1] = toupper(s[2 * i - 1]) /\ str[2 * i] = toupper(s[2 * i])
    <2> SUFFICES ASSUME NEW i \in 1 .. k
                 PROVE  str[2 * i - 1] = toupper(s[2 * i - 1]) /\ str[2 * i] = toupper(s[2 * i])
      OBVIOUS
    <2>1. PICK b, c \in Nat : b = s[2 * i - 1] /\ c = s[2 * i]
      BY <1>1, <1>4
    <2>2. isxdigit(b) /\ isxdigit(c)
      BY <1>4, <2>1
    <2>3. PICK h, l \in 0 .. 15 : h = HexValue(b) /\ l = HexValue(c)
      BY <2>2, HexCharacters
    <2>4. HexDigit(h) = toupper(b) /\ HexDigit(l) = toupper(c)
      BY <2>2, <2>3, HexCharacters
    <2>5. d[i] = 16 * h + l
      BY <1>4, <2>1, <2>3
    <2>6. PICK x \in Nat : x = 16 * h + l
      OBVIOUS
    <2>7. x \div 16 = h /\ x % 16 = l
      BY <2>6, NibblesOf, ZenonT(60)
    <2>10. str[2 * i - 1] = HexDigit(x \div 16) /\ str[2 * i] = HexDigit(x % 16)
      BY <1>6, <2>5, <2>6
    <2> QED
      BY <2>1, <2>4, <2>7, <2>10
  <1>8. \A i \in 1 .. 2 * k : str[i] = toupper(s[i])
    <2> SUFFICES ASSUME NEW i \in 1 .. 2 * k
                 PROVE  str[i] = toupper(s[i])
      OBVIOUS
    <2>1. PICK j \in 1 .. k : i = 2 * j - 1 \/ i = 2 * j
      BY OddOrEven
    <2> QED
      BY <1>7, <2>1
  <1>9. str = [i \in 1 .. 2 * k |-> toupper(s[i])]
    <2>1. str = [i \in 1 .. 2 * k |-> str[i]]
      BY <1>6
    <2> QED
      BY <1>8, <2>1
  <1>10. DOMAIN s = 1 .. 2 * k
    BY <1>4
  <1> QED
    BY <1>3, <1>5, <1>9, <1>10 DEF str2upper

\* So do bytes.
LEMMA BytesBack ==
  ASSUME NEW data \in Seq(Byte)
  PROVE  isxdigitstr(bytes2strH(data)) /\ Converted(bytes2strH(data)) = data
         /\ Len(bytes2strH(data)) = 2 * Len(data)
  <1>1. PICK k \in Nat : k = Len(data)
    OBVIOUS
  <1>2. PICK str \in Seq(Nat) : str = bytes2strH(data)
    BY <1>1, StringOf
  <1>3. /\ Len(str) = 2 * k /\ isxdigitstr(str)
        /\ \A i \in 1 .. k : /\ str[2 * i - 1] = HexDigit(data[i] \div 16)
                            /\ str[2 * i] = HexDigit(data[i] % 16)
    BY <1>1, <1>2, StringOf
  <1>4. k = Len(str) \div 2
    BY <1>3
  <1>5. PICK d \in Seq(Byte) : d = Converted(str)
    BY <1>3, <1>4, BytesOf
  <1>6. Len(d) = k /\ \A i \in 1 .. k : d[i] = 16 * HexValue(str[2 * i - 1]) + HexValue(str[2 * i])
    BY <1>3, <1>4, <1>5, BytesOf
  <1>7. \A i \in 1 .. k : d[i] = data[i]
    <2> SUFFICES ASSUME NEW i \in 1 .. k
                 PROVE  d[i] = data[i]
      OBVIOUS
    <2>1. PICK b \in Byte : b = data[i]
      BY <1>1
    <2>2. PICK h, l \in 0 .. 15 : h = b \div 16 /\ l = b % 16 /\ 16 * h + l = b
      BY Nibbles
    <2>3. HexValue(HexDigit(h)) = h /\ HexValue(HexDigit(l)) = l
      BY Digit
    <2> QED
      BY <1>3, <1>6, <2>1, <2>2, <2>3
  <1>8. d = data
    BY <1>1, <1>6, <1>7, SeqEqual
  <1> QED
    BY <1>1, <1>2, <1>3, <1>5, <1>8

\* Two hexadecimal strings differ only in case exactly if their bytes agree.
LEMMA EqualBytes ==
  ASSUME NEW s \in Seq(Nat), NEW t \in Seq(Nat), isxdigitstr(s), isxdigitstr(t)
  PROVE  equal_nocase(s, t) <=> Len(s) = Len(t) /\ Converted(s) = Converted(t)
  <1>1. /\ Len(s) \in Nat /\ \A i \in 1 .. Len(s) : isxdigit(s[i]) /\ s[i] \in Nat
        /\ Len(t) \in Nat /\ \A i \in 1 .. Len(t) : isxdigit(t[i]) /\ t[i] \in Nat
    <2>1. DOMAIN s = 1 .. Len(s) /\ DOMAIN t = 1 .. Len(t) /\ Len(s) \in Nat /\ Len(t) \in Nat
      OBVIOUS
    <2>2. (\A i \in 1 .. Len(s) : s[i] \in Nat) /\ (\A i \in 1 .. Len(t) : t[i] \in Nat)
      OBVIOUS
    <2> QED
      BY <2>1, <2>2 DEF isxdigitstr
  <1>2. equal_nocase(s, t) =>
            Len(s) = Len(t) /\ \A i \in 1 .. Len(s) : SameButCase(s[i], t[i])
    <2> SUFFICES ASSUME equal_nocase(s, t)
                 PROVE  Len(s) = Len(t) /\ \A i \in 1 .. Len(s) : SameButCase(s[i], t[i])
      OBVIOUS
    <2>1. ~(Len(s) < Len(t))
      <3> SUFFICES ASSUME Len(s) < Len(t)
                   PROVE  FALSE
        OBVIOUS
      <3>1. PICK i \in 1 .. Len(t) : i = Len(s) + 1
        BY <1>1
      <3>2. CharAt(s, i) = 0 /\ CharAt(t, i) = t[i]
        BY <1>1, <3>1 DEF CharAt
      <3>3. SameButCase(CharAt(s, i), CharAt(t, i))
        BY <1>1 DEF equal_nocase
      <3> QED
        BY <1>1, <3>2, <3>3, HexCharacters
    <2>2. ~(Len(t) < Len(s))
      <3> SUFFICES ASSUME Len(t) < Len(s)
                   PROVE  FALSE
        OBVIOUS
      <3>1. PICK i \in 1 .. Len(s) : i = Len(t) + 1
        BY <1>1
      <3>2. CharAt(t, i) = 0 /\ CharAt(s, i) = s[i]
        BY <1>1, <3>1 DEF CharAt
      <3>3. SameButCase(CharAt(s, i), CharAt(t, i))
        BY <1>1 DEF equal_nocase
      <3> QED
        BY <1>1, <3>2, <3>3, HexCharacters
    <2>3. \A i \in 1 .. Len(s) : SameButCase(CharAt(s, i), CharAt(t, i))
      BY <1>1, <2>1, <2>2 DEF equal_nocase
    <2> QED
      BY <1>1, <2>1, <2>2, <2>3 DEF CharAt
  <1>3. Len(s) = Len(t) /\ (\A i \in 1 .. Len(s) : SameButCase(s[i], t[i])) => equal_nocase(s, t)
    BY <1>1 DEF equal_nocase, CharAt
  <1>4. ASSUME Len(s) = Len(t)
        PROVE  (\A i \in 1 .. Len(s) : SameButCase(s[i], t[i])) <=> Converted(s) = Converted(t)
    <2>1. PICK k \in Nat : k = Len(s) \div 2 /\ k = Len(t) \div 2
      BY <1>1, <1>4
    <2>2. PICK d, e \in Seq(Byte) : d = Converted(s) /\ e = Converted(t)
      BY <2>1, BytesOf
    <2>3. /\ Len(s) = 2 * k /\ Len(d) = k /\ Len(e) = k
          /\ \A i \in 1 .. k : /\ 2 * i - 1 \in 1 .. Len(s) /\ 2 * i \in 1 .. Len(s)
                              /\ d[i] = 16 * HexValue(s[2 * i - 1]) + HexValue(s[2 * i])
      BY <2>1, <2>2, BytesOf
    <2>4. \A i \in 1 .. k : e[i] = 16 * HexValue(t[2 * i - 1]) + HexValue(t[2 * i])
      BY <2>1, <2>2, BytesOf
    <2>5. d = e <=> \A i \in 1 .. k : d[i] = e[i]
      BY <2>3, SeqEqual
    <2>6. ASSUME NEW i \in 1 .. k
          PROVE  d[i] = e[i] <=> /\ SameButCase(s[2 * i - 1], t[2 * i - 1])
                                 /\ SameButCase(s[2 * i], t[2 * i])
      <3>1. PICK b, c, f, g \in Nat : b = s[2 * i - 1] /\ c = s[2 * i] /\ f = t[2 * i - 1] /\ g = t[2 * i]
        BY <1>1, <1>4, <2>3
      <3>2. isxdigit(b) /\ isxdigit(c) /\ isxdigit(f) /\ isxdigit(g)
        BY <1>1, <1>4, <2>3, <3>1
      <3>3. PICK h, l, m, n \in 0 .. 15 : h = HexValue(b) /\ l = HexValue(c) /\ m = HexValue(f) /\ n = HexValue(g)
        BY <3>2, HexCharacters
      <3>4. (SameButCase(b, f) <=> h = m) /\ (SameButCase(c, g) <=> l = n)
        BY <3>2, <3>3, HexCharacters
      <3>5. d[i] = 16 * h + l /\ e[i] = 16 * m + n
        BY <2>3, <2>4, <3>1, <3>3
      <3>6. 16 * h + l = 16 * m + n <=> h = m /\ l = n
        OBVIOUS
      <3> QED
        BY <3>1, <3>4, <3>5, <3>6
    <2>7. (\A i \in 1 .. k : SameButCase(s[2 * i - 1], t[2 * i - 1]) /\ SameButCase(s[2 * i], t[2 * i]))
             <=> \A i \in 1 .. Len(s) : SameButCase(s[i], t[i])
      <3>1. \A i \in 1 .. Len(s) : \E j \in 1 .. k : i = 2 * j - 1 \/ i = 2 * j
        BY <2>3, OddOrEven
      <3> QED
        BY <2>3, <3>1
    <2> QED
      BY <2>2, <2>5, <2>6, <2>7
  <1> QED
    BY <1>2, <1>3, <1>4

\* The strings that are checked, of any length, are hexadecimal strings.
LEMMA HexStringsAre ==
  ASSUME NEW s \in HexStrings
  PROVE  s \in Seq(Nat) /\ isxdigitstr(s)
  <1>1. PICK n \in 0 .. MaxHex : s \in [1 .. n -> Chars]
    BY DEF HexStrings, SeqsUpTo
  <1>2. n \in Nat /\ s \in [1 .. n -> Nat]
    BY <1>1, StringsAssumption, SMTT(30) DEF Chars
  <1> QED
    BY <1>2, FunctionIsSequence DEF HexStrings

\* Whatever the lengths of the strings: what isxdigitstr accepts is converted to
\* bytes and back into its own upper case form, strcmp_nocase tells two strings
\* apart exactly as their bytes do, and bytes survive the way through a string
\* (utils.c:63-80, 97-101, 251-252).
THEOREM HexKept == StringsSpec => []HexRoundTrip
  <1>1. StringsInit => HexRoundTrip
    <2>1. ASSUME NEW s \in HexStrings, NEW t \in HexStrings, given = <<"strings", s, t>>
          PROVE  HexRoundTrip
      <3>1. s \in Seq(Nat) /\ t \in Seq(Nat) /\ isxdigitstr(s) /\ isxdigitstr(t)
        BY HexStringsAre
      <3>2. given[1] = "strings" /\ given[2] = s /\ given[3] = t
        BY <2>1
      <3> QED
        BY <3>1, <3>2, StringBack, EqualBytes DEF HexRoundTrip, Given
    <2>2. ASSUME NEW a \in 0 .. 255, NEW b \in 0 .. 255, given = <<"bytes", <<a, b>>>>
          PROVE  HexRoundTrip
      <3>0. a \in Byte /\ b \in Byte
        BY DEF Byte
      <3>1. PICK data \in Seq(Byte) : data = <<a, b>> /\ Len(data) = 2
        <4>1. <<a, b>> \in Seq(Byte) /\ Len(<<a, b>>) = 2
          BY ONLY <3>0
        <4> QED
          BY <4>1
      <3>2. PICK str : str = bytes2strH(data)
        OBVIOUS
      <3>3. isxdigitstr(str) /\ Converted(str) = data /\ Len(str) = 4
        <4>1. Len(str) = 2 * Len(data)
          BY <3>1, <3>2, BytesBack
        <4>2. 2 * Len(data) = 4
          BY <3>1
        <4> QED
          BY <3>1, <3>2, <4>1, <4>2, BytesBack
      <3>4. str2bytes(str, 2) = data
        BY <3>3 DEF Converted
      <3>5. given[1] = "bytes" /\ given[2] = data
        BY <2>2, <3>1
      <3> QED
        BY <3>2, <3>3, <3>4, <3>5 DEF HexRoundTrip, Given
    <2>3. ASSUME NEW parts, given = <<"is_str_ip", parts>>
          PROVE  HexRoundTrip
      BY <2>3 DEF HexRoundTrip, Given
    <2> QED
      BY <2>1, <2>2, <2>3 DEF StringsInit
  <1>2. HexRoundTrip /\ [given' = given]_given => HexRoundTrip'
    BY DEF HexRoundTrip, Given
  <1> QED
    BY <1>1, <1>2, PTL DEF StringsSpec

-----------------------------------------------------------------------------
(* Dotted addresses                                                        *)

Text == Seq(Nat)

\* What has been read, and what is read before the first character.
Reads == {r \in [parts : Seq(Text), ok : BOOLEAN] : r.parts # << >>}
Begun == [parts |-> <<<< >>>>, ok |-> TRUE]

\* f is the reading of s, character by character.
Reading(f, s) ==
    /\ f \in [0 .. Len(s) -> Reads] /\ f[0] = Begun
    /\ \A k \in 1 .. Len(s) : f[k] = ReadChar(f[k - 1], s[k])

\* What a reading consists of.
LEMMA ReadsType ==
  ASSUME NEW r \in Reads
  PROVE  /\ r = [parts |-> r.parts, ok |-> r.ok] /\ r.parts \in Seq(Text) /\ r.ok \in BOOLEAN
         /\ Len(r.parts) \in Nat \ {0} /\ Last(r.parts) = r.parts[Len(r.parts)]
         /\ Last(r.parts) \in Text
  <1>1. r = [parts |-> r.parts, ok |-> r.ok] /\ r.parts \in Seq(Text) /\ r.ok \in BOOLEAN
    BY DEF Reads
  <1>2. Len(r.parts) \in Nat \ {0}
    BY <1>1 DEF Reads
  <1>3. Last(r.parts) = r.parts[Len(r.parts)]
    BY DEF Last
  <1> QED
    BY <1>1, <1>2, <1>3, ElementOfSeq

\* A character makes a reading of a reading.
LEMMA ReadCharType ==
  ASSUME NEW r \in Reads, NEW c \in Nat
  PROVE  ReadChar(r, c) \in Reads
  <1>1. /\ r = [parts |-> r.parts, ok |-> r.ok] /\ r.parts \in Seq(Text) /\ r.ok \in BOOLEAN
        /\ Len(r.parts) \in Nat \ {0} /\ Last(r.parts) \in Text
    BY ReadsType
  <1>2. CASE ~r.ok
    BY <1>2 DEF ReadChar
  <1>3. CASE r.ok /\ c = Dot
    <2>1. PICK ps : ps = Append(r.parts, << >>)
      OBVIOUS
    <2>2. << >> \in Text
      BY DEF Text
    <2>3. ps \in Seq(Text) /\ ps # << >>
      BY <1>1, <2>1, <2>2
    <2>4. ReadChar(r, c) = [parts |-> ps, ok |-> Len(r.parts) < 4]
      BY <1>3, <2>1 DEF ReadChar
    <2> QED
      BY <2>3, <2>4 DEF Reads
  <1>4. CASE r.ok /\ c # Dot
    <2>1. PICK part \in Text : part = Append(Last(r.parts), c)
      <3>1. PICK l \in Text : l = Last(r.parts)
        BY <1>1
      <3>2. Append(l, c) \in Text
        BY DEF Text
      <3> QED
        BY <3>1, <3>2
    <2>2. PICK ps : ps = [r.parts EXCEPT ![Len(r.parts)] = part]
      OBVIOUS
    <2>3. ps \in Seq(Text) /\ Len(ps) = Len(r.parts)
      BY <1>1, <2>1, <2>2
    <2>4. ReadChar(r, c) = [parts |-> ps, ok |-> c \in Digits /\ ~TooLong(part)]
      BY <1>4, <2>1, <2>2 DEF ReadChar
    <2>5. ps # << >>
      BY <1>1, <2>3
    <2> QED
      BY <2>3, <2>4, <2>5 DEF Reads
  <1> QED
    BY <1>2, <1>3, <1>4

\* So is what is there before the first character.
LEMMA BegunType == Begun \in Reads
  <1>1. << >> \in Text
    BY DEF Text
  <1>2. <<<< >>>> \in Seq(Text) /\ <<<< >>>> # << >>
    BY <1>1
  <1> QED
    BY <1>2 DEF Begun, Reads

\* Recursion for readings.
LEMMA ReadsRecursion ==
  ASSUME NEW x \in Reads, NEW n \in Nat, NEW g \in [1 .. n -> [Reads -> Reads]]
  PROVE  \E f \in [0 .. n -> Reads] : f[0] = x /\ \A k \in 1 .. n : f[k] = g[k][f[k - 1]]
  BY Recursion, SMT

\* is_str_ip decides by what the reading of the whole string ends with.
LEMMA ReadMeans ==
  ASSUME NEW s \in Text
  PROVE  \E f : /\ Reading(f, s) /\ f = Scanned(s)
                /\ is_str_ip(s) <=>
                       /\ f[Len(s)].ok /\ Len(f[Len(s)].parts) = 4
                       /\ \A i \in 1 .. 4 : /\ f[Len(s)].parts[i] # << >>
                                           /\ atoi(f[Len(s)].parts[i]) <= 255
  <1> DEFINE Means(f) == f = [k \in 0 .. Len(s) |->
                                IF k = 0 THEN [parts |-> <<<< >>>>, ok |-> TRUE]
                                         ELSE ReadChar(f[k - 1], s[k])]
  <1>1. Len(s) \in Nat /\ \A k \in 1 .. Len(s) : s[k] \in Nat
    BY DEF Text
  <1>2. PICK g : g = [k \in 1 .. Len(s) |-> [r \in Reads |-> ReadChar(r, s[k])]]
    OBVIOUS
  <1>3. g \in [1 .. Len(s) -> [Reads -> Reads]]
    <2>1. ASSUME NEW k \in 1 .. Len(s)
          PROVE  g[k] \in [Reads -> Reads]
      <3>1. \A r \in Reads : ReadChar(r, s[k]) \in Reads
        BY <1>1, ReadCharType
      <3>2. g[k] = [r \in Reads |-> ReadChar(r, s[k])]
        BY <1>2
      <3> QED
        BY <3>1, <3>2
    <2>2. g = [k \in 1 .. Len(s) |-> g[k]]
      BY <1>2
    <2> QED
      BY <2>1, <2>2
  <1>4. PICK e \in [0 .. Len(s) -> Reads] : e[0] = Begun /\ \A k \in 1 .. Len(s) : e[k] = g[k][e[k - 1]]
    <2>1. PICK n \in Nat : n = Len(s)
      BY <1>1
    <2>2. PICK x \in Reads : x = Begun
      BY BegunType
    <2>3. \E f \in [0 .. n -> Reads] : f[0] = x /\ \A k \in 1 .. n : f[k] = g[k][f[k - 1]]
      BY <1>3, <2>1, ReadsRecursion
    <2> QED
      BY <2>1, <2>2, <2>3
  <1>5. \A k \in 1 .. Len(s) : e[k] = ReadChar(e[k - 1], s[k])
    <2>1. \A k \in 1 .. Len(s) : k - 1 \in 0 .. Len(s)
      BY <1>1
    <2> QED
      BY <1>2, <1>4, <2>1
  <1>6. Means(e)
    <2>1. e = [k \in 0 .. Len(s) |-> e[k]]
      BY <1>4
    <2>2. \A k \in 0 .. Len(s) : k # 0 => k \in 1 .. Len(s)
      BY <1>1
    <2> QED
      BY <1>4, <1>5, <2>1, <2>2 DEF Begun
  <1>7. PICK f : f = CHOOSE h : Means(h)
    OBVIOUS
  <1>8. Means(f)
    <2> HIDE DEF Means
    <2> QED
      BY <1>6, <1>7
  <1>9. f[0] = Begun /\ \A k \in 1 .. Len(s) : f[k] = ReadChar(f[k - 1], s[k])
    <2>1. 0 \in 0 .. Len(s) /\ \A k \in 1 .. Len(s) : k \in 0 .. Len(s) /\ k # 0
      BY <1>1
    <2> QED
      BY <1>8, <2>1 DEF Begun
  <1>10. \A k \in 0 .. Len(s) : f[k] \in Reads
    <2>1. PICK S : S = {k \in 0 .. Len(s) : f[k] \in Reads}
      OBVIOUS
    <2>2. 0 \in S
      BY <1>1, <1>9, <2>1, BegunType
    <2>3. ASSUME NEW k \in 1 .. Len(s), k - 1 \in S
          PROVE  k \in S
      <3>1. ReadChar(f[k - 1], s[k]) \in Reads
        BY <1>1, <2>1, <2>3, ReadCharType
      <3> QED
        BY <1>9, <2>1, <3>1
    <2>4. \A k \in 0 .. Len(s) : k \in S
      BY ONLY <1>1, <2>2, <2>3, UpTo
    <2> QED
      BY <2>1, <2>4
  <1>11. Reading(f, s)
    <2>1. f = [k \in 0 .. Len(s) |-> f[k]]
      BY <1>8
    <2> HIDE DEF Means
    <2>2. f \in [0 .. Len(s) -> Reads]
      BY <1>10, <2>1
    <2> QED
      BY <1>9, <2>2 DEF Reading
  <1>12. is_str_ip(s) <=> /\ f[Len(s)].ok /\ Len(f[Len(s)].parts) = 4
                          /\ \A i \in 1 .. 4 : /\ f[Len(s)].parts[i] # << >>
                                              /\ atoi(f[Len(s)].parts[i]) <= 255
    BY <1>7 DEF is_str_ip, Scanned
  <1>13. f = Scanned(s)
    BY <1>7 DEF Scanned
  <1> QED
    BY <1>11, <1>12, <1>13

\* Recursion for strings and for numbers.
LEMMA TextRecursion ==
  ASSUME NEW x \in Text, NEW n \in Nat, NEW g \in [1 .. n -> [Text -> Text]]
  PROVE  \E f \in [0 .. n -> Text] : f[0] = x /\ \A k \in 1 .. n : f[k] = g[k][f[k - 1]]
  BY Recursion, SMT

\* Int, which the provers would otherwise not take for the set D of Recursion.
Value == Int

LEMMA ValueRecursion ==
  ASSUME NEW x \in Value, NEW n \in Nat, NEW g \in [1 .. n -> [Value -> Value]]
  PROVE  \E f \in [0 .. n -> Value] : f[0] = x /\ \A k \in 1 .. n : f[k] = g[k][f[k - 1]]
  BY Recursion, SMT

LEMMA IntRecursion ==
  ASSUME NEW x \in Int, NEW n \in Nat, NEW g \in [1 .. n -> [Int -> Int]]
  PROVE  \E f \in [0 .. n -> Int] : f[0] = x /\ \A k \in 1 .. n : f[k] = g[k][f[k - 1]]
  <1>1. x \in Value /\ g \in [1 .. n -> [Value -> Value]]
    BY DEF Value
  <1>2. \E f \in [0 .. n -> Value] : f[0] = x /\ \A k \in 1 .. n : f[k] = g[k][f[k - 1]]
    BY <1>1, ValueRecursion, ZenonT(60)
  <1> QED
    BY <1>2 DEF Value

\* A dotted string is made part by part.
LEMMA DottedMeans ==
  ASSUME NEW n \in Nat \ {0}, NEW parts \in [1 .. n -> Text]
  PROVE  \E u \in [1 .. n -> Text] :
             /\ u[1] = parts[1] /\ Dotted(parts) = u[n]
             /\ \A j \in 2 .. n : u[j] = u[j - 1] \o <<Dot>> \o parts[j]
  <1> DEFINE Means(u) == u = [k \in DOMAIN parts |->
                                IF k = 1 THEN parts[1] ELSE u[k - 1] \o <<Dot>> \o parts[k]]
  <1>1. DOMAIN parts = 1 .. n /\ Len(parts) = n
    <2>1. Len(parts) = n
      BY FunctionIsSequence
    <2> QED
      BY <2>1
  <1>2. \A q \in Text, p \in Text : q \o <<Dot>> \o p \in Text
    BY DEF Text, Dot
  <1>3. PICK m \in Nat : n = m + 1
    OBVIOUS
  <1>4. PICK g : g = [k \in 1 .. m |-> [q \in Text |-> q \o <<Dot>> \o parts[k + 1]]]
    OBVIOUS
  <1>5. \A k \in 1 .. m : k + 1 \in 1 .. n /\ parts[k + 1] \in Text
    BY <1>3
  <1>6. g \in [1 .. m -> [Text -> Text]]
    <2>1. ASSUME NEW k \in 1 .. m
          PROVE  g[k] \in [Text -> Text]
      <3>1. \A q \in Text : q \o <<Dot>> \o parts[k + 1] \in Text
        BY <1>2, <1>5
      <3>2. g[k] = [q \in Text |-> q \o <<Dot>> \o parts[k + 1]]
        BY <1>4
      <3> QED
        BY <3>1, <3>2
    <2>2. g = [k \in 1 .. m |-> g[k]]
      BY <1>4
    <2> QED
      BY <2>1, <2>2
  <1>7. PICK e \in [0 .. m -> Text] : e[0] = parts[1] /\ \A k \in 1 .. m : e[k] = g[k][e[k - 1]]
    <2>1. PICK x \in Text : x = parts[1]
      BY <1>3
    <2>2. \E f \in [0 .. m -> Text] : f[0] = x /\ \A k \in 1 .. m : f[k] = g[k][f[k - 1]]
      BY <1>6, TextRecursion
    <2> QED
      BY <2>1, <2>2
  <1>8. PICK u : u = [k \in 1 .. n |-> e[k - 1]]
    OBVIOUS
  <1>9. Means(u)
    <2>1. u[1] = parts[1]
      BY <1>3, <1>7, <1>8
    <2>2. ASSUME NEW k \in 1 .. n, k # 1
          PROVE  u[k] = u[k - 1] \o <<Dot>> \o parts[k]
      <3>1. PICK l \in 1 .. m : k = l + 1 /\ l = k - 1
        BY <1>3, <2>2
      <3>2. l - 1 \in 0 .. m /\ l \in 0 .. m /\ k - 1 \in 1 .. n /\ (k - 1) - 1 = l - 1
        BY <1>3, <3>1
      <3>3. u[k] = e[l] /\ u[k - 1] = e[l - 1]
        BY <1>8, <3>1, <3>2
      <3>4. e[l] = g[l][e[l - 1]] /\ e[l - 1] \in Text
        BY <1>7, <3>2
      <3>5. g[l] = [q \in Text |-> q \o <<Dot>> \o parts[l + 1]]
        BY <1>4
      <3>6. g[l][e[l - 1]] = e[l - 1] \o <<Dot>> \o parts[l + 1]
        BY <3>4, <3>5
      <3> QED
        BY <3>1, <3>3, <3>4, <3>6
    <2>3. u = [k \in 1 .. n |-> u[k]]
      BY <1>8
    <2> QED
      BY <1>1, <2>1, <2>2, <2>3
  <1>10. PICK d : d = CHOOSE h : Means(h)
    OBVIOUS
  <1>11. Means(d)
    <2> HIDE DEF Means
    <2> QED
      BY <1>9, <1>10
  <1>12. d[1] = parts[1] /\ \A j \in 2 .. n : d[j] = d[j - 1] \o <<Dot>> \o parts[j]
    <2>1. 1 \in 1 .. n /\ \A j \in 2 .. n : j \in 1 .. n /\ j # 1
      OBVIOUS
    <2> QED
      BY <1>1, <1>11, <2>1
  <1>13. \A j \in 1 .. n : d[j] \in Text
    <2>1. PICK S : S = {k \in 0 .. m : d[k + 1] \in Text}
      OBVIOUS
    <2>2. 0 \in S
      BY <1>3, <1>12, <2>1
    <2>3. ASSUME NEW k \in 1 .. m, k - 1 \in S
          PROVE  k \in S
      <3>1. d[k] \in Text
        BY <2>1, <2>3
      <3>2. k + 1 \in 2 .. n /\ (k + 1) - 1 = k
        BY <1>3
      <3>3. d[k + 1] = d[k] \o <<Dot>> \o parts[k + 1]
        BY <1>12, <3>2
      <3>4. d[k + 1] \in Text
        BY <1>2, <1>5, <3>1, <3>3
      <3> QED
        BY <2>1, <3>4
    <2>4. \A k \in 0 .. m : k \in S
      BY ONLY <2>2, <2>3, UpTo, m \in Nat
    <2>5. \A j \in 1 .. n : j - 1 \in 0 .. m /\ (j - 1) + 1 = j
      BY <1>3
    <2> QED
      BY <2>1, <2>4, <2>5
  <1>14. Dotted(parts) = d[n]
    BY <1>1, <1>10 DEF Dotted
  <1>15. d \in [1 .. n -> Text]
    <2>1. d = [k \in 1 .. n |-> d[k]]
      BY <1>1, <1>11
    <2> HIDE DEF Means
    <2> QED
      BY <1>13, <2>1
  <1> QED
    BY <1>12, <1>14, <1>15

\* The digits of a number.
LEMMA AtoiMeans ==
  ASSUME NEW p \in Text
  PROVE  /\ Len(p) = 1 => atoi(p) = p[1] - 48
         /\ Len(p) = 2 => atoi(p) = 10 * (p[1] - 48) + p[2] - 48
         /\ Len(p) = 3 => atoi(p) = 10 * (10 * (p[1] - 48) + p[2] - 48) + p[3] - 48
  <1> DEFINE Means(f) == f = [k \in 0 .. Len(p) |-> IF k = 0 THEN 0 ELSE 10 * f[k - 1] + p[k] - 48]
  <1>1. PICK n \in Nat : n = Len(p)
    BY DEF Text
  <1>2. \A k \in 1 .. n : p[k] \in Nat
    BY <1>1 DEF Text
  <1>3. PICK g : g = [k \in 1 .. n |-> [v \in Int |-> 10 * v + p[k] - 48]]
    OBVIOUS
  <1>4. g \in [1 .. n -> [Int -> Int]]
    <2>1. ASSUME NEW k \in 1 .. n
          PROVE  g[k] \in [Int -> Int]
      <3>1. \A v \in Int : 10 * v + p[k] - 48 \in Int
        BY <1>2
      <3>2. g[k] = [v \in Int |-> 10 * v + p[k] - 48]
        BY <1>3
      <3> QED
        BY <3>1, <3>2
    <2>2. g = [k \in 1 .. n |-> g[k]]
      BY <1>3
    <2> QED
      BY <2>1, <2>2
  <1>5. PICK e \in [0 .. n -> Int] : e[0] = 0 /\ \A k \in 1 .. n : e[k] = g[k][e[k - 1]]
    <2>1. PICK x \in Int : x = 0
      OBVIOUS
    <2>2. \E f \in [0 .. n -> Int] : f[0] = x /\ \A k \in 1 .. n : f[k] = g[k][f[k - 1]]
      BY <1>4, IntRecursion
    <2> QED
      BY <2>1, <2>2
  <1>6. Means(e)
    <2>1. e = [k \in 0 .. n |-> e[k]]
      BY <1>5
    <2>2. ASSUME NEW k \in 0 .. n, k # 0
          PROVE  e[k] = 10 * e[k - 1] + p[k] - 48
      <3>1. k \in 1 .. n /\ k - 1 \in 0 .. n
        BY <2>2
      <3>2. e[k] = g[k][e[k - 1]] /\ e[k - 1] \in Int
        BY <1>5, <3>1
      <3>3. g[k] = [v \in Int |-> 10 * v + p[k] - 48]
        BY <1>3, <3>1
      <3> QED
        BY <3>2, <3>3
    <2> QED
      BY <1>1, <1>5, <2>1, <2>2
  <1>7. PICK f : f = CHOOSE h : Means(h)
    OBVIOUS
  <1>8. Means(f)
    <2> HIDE DEF Means
    <2> QED
      BY <1>6, <1>7
  <1>9. f[0] = 0 /\ \A k \in 1 .. n : f[k] = 10 * f[k - 1] + p[k] - 48
    <2>1. 0 \in 0 .. n /\ \A k \in 1 .. n : k \in 0 .. n /\ k # 0
      OBVIOUS
    <2> QED
      BY <1>1, <1>8, <2>1
  <1>10. atoi(p) = f[n]
    BY <1>1, <1>7 DEF atoi
  <1> HIDE DEF Means
  <1>11. n \in 1 .. 3 => f[1] = p[1] - 48 /\ p[1] \in Nat
    BY <1>2, <1>9
  <1>12. n \in 2 .. 3 => f[2] = 10 * f[1] + p[2] - 48 /\ p[2] \in Nat
    BY <1>2, <1>9
  <1>13. n = 3 => f[3] = 10 * f[2] + p[3] - 48
    BY <1>9
  <1>14. CASE n = 1
    BY <1>1, <1>10, <1>11, <1>14
  <1>15. CASE n = 2
    <2>1. f[1] = p[1] - 48 /\ f[2] = 10 * f[1] + p[2] - 48
      BY <1>11, <1>12, <1>15
    <2> QED
      BY <1>1, <1>10, <1>15, <2>1
  <1>16. CASE n = 3
    <2>1. f[1] = p[1] - 48 /\ f[2] = 10 * f[1] + p[2] - 48 /\ f[3] = 10 * f[2] + p[3] - 48
      BY <1>11, <1>12, <1>13, <1>16
    <2> QED
      BY <1>1, <1>10, <1>16, <2>1
  <1> QED
    BY <1>1, <1>14, <1>15, <1>16

\* A string that is_str_ip takes for a part of an address, but for its value.
Good(p, k) == k <= 3 /\ \A i \in 1 .. k : p[i] \in Digits

\* The last element is replaced.
LEMMA LastReplaced ==
  ASSUME NEW ps \in Seq(Text), NEW q \in Text, NEW p \in Text
  PROVE  [Append(ps, q) EXCEPT ![Len(ps) + 1] = p] = Append(ps, p)
  <1>1. PICK s : s = Append(ps, q)
    OBVIOUS
  <1>2. PICK t : t = Append(ps, p)
    OBVIOUS
  <1>3. PICK n \in Nat : n = Len(ps)
    OBVIOUS
  <1>4. /\ s \in Seq(Text) /\ Len(s) = n + 1 /\ s[n + 1] = q /\ \A i \in 1 .. n : s[i] = ps[i]
        /\ t \in Seq(Text) /\ Len(t) = n + 1 /\ t[n + 1] = p /\ \A i \in 1 .. n : t[i] = ps[i]
    BY <1>1, <1>2, <1>3
  <1>5. PICK e : e = [s EXCEPT ![n + 1] = p]
    OBVIOUS
  <1>6. e \in Seq(Text) /\ Len(e) = n + 1
    BY <1>4, <1>5
  <1>7. \A i \in 1 .. n + 1 : e[i] = t[i]
    BY <1>4, <1>5
  <1>8. e = t
    BY <1>4, <1>6, <1>7, SeqEqual
  <1> QED
    BY <1>1, <1>2, <1>3, <1>5, <1>8

\* Reading one part, behind the parts ps.
LEMMA PartRead ==
  ASSUME NEW ps \in Seq(Text), NEW p \in Text, \A i \in 1 .. Len(p) : p[i] # Dot,
         NEW h, h[0] \in Reads, h[0].ok => h[0].parts = Append(ps, << >>),
         \A k \in 1 .. Len(p) : h[k] = ReadChar(h[k - 1], p[k])
  PROVE  /\ h[Len(p)].ok <=> h[0].ok /\ Good(p, Len(p))
         /\ h[Len(p)].ok => h[Len(p)].parts = Append(ps, p)
  <1> DEFINE ReadTo(k) == /\ h[k].ok <=> h[0].ok /\ Good(p, k)
                          /\ h[k].ok => h[k].parts = Append(ps, SubSeq(p, 1, k))
             S == {k \in 0 .. Len(p) : ReadTo(k)}
  <1>1. Len(p) \in Nat /\ p \in Seq(Nat) /\ \A k \in 1 .. Len(p) : p[k] \in Nat
    BY DEF Text
  <1>2. 0 \in S
    <2>1. SubSeq(p, 1, 0) = << >>
      BY <1>1
    <2>2. Good(p, 0)
      BY DEF Good
    <2>3. ReadTo(0)
      BY <2>1, <2>2
    <2>4. 0 \in 0 .. Len(p)
      BY <1>1
    <2> QED
      BY <2>3, <2>4
  <1>3. ASSUME NEW k \in 1 .. Len(p), k - 1 \in S
        PROVE  k \in S
    <2>1. PICK l \in 0 .. Len(p) - 1 : l = k - 1 /\ k = l + 1
      BY <1>1
    <2>2. ReadTo(l)
      BY <1>3, <2>1
    <2>3. PICK r : r = h[l]
      OBVIOUS
    <2>4. h[k] = ReadChar(r, p[k]) /\ p[k] \in Nat /\ p[k] # Dot
      BY <1>1, <2>1, <2>3
    <2>5. Good(p, k) <=> Good(p, l) /\ k <= 3 /\ p[k] \in Digits
      BY <2>1 DEF Good
    <2>6. CASE ~r.ok
      <3>1. h[k] = r
        BY <2>4, <2>6 DEF ReadChar
      <3>2. ~h[l].ok /\ ~h[k].ok
        BY <2>3, <2>6, <3>1
      <3>3. ReadTo(k)
        BY <2>2, <2>5, <3>2
      <3>4. k \in 0 .. Len(p)
        BY <1>1
      <3> QED
        BY <3>3, <3>4
    <2>7. CASE r.ok
      <3>1. h[0].ok /\ Good(p, l) /\ r.parts = Append(ps, SubSeq(p, 1, l))
        BY <2>2, <2>3, <2>7
      <3>2. PICK q \in Text : q = SubSeq(p, 1, l) /\ Len(q) = l
        <4>1. SubSeq(p, 1, l) \in Seq(Nat) /\ Len(SubSeq(p, 1, l)) = l
          BY <1>1, <2>1
        <4> QED
          BY <4>1 DEF Text
      <3>3. PICK part \in Text : part = Append(q, p[k]) /\ Len(part) = l + 1
        <4>1. PICK c \in Nat : c = p[k]
          BY <2>4
        <4>2. q \in Seq(Nat)
          BY <3>2 DEF Text
        <4>3. Append(q, c) \in Seq(Nat) /\ Len(Append(q, c)) = l + 1
          BY <3>2, <4>2
        <4> QED
          BY <4>1, <4>3 DEF Text
      <3>4. part = SubSeq(p, 1, k) /\ Len(part) = k
        <4>1. SubSeq(p, 1, l + 1) = Append(SubSeq(p, 1, l), p[l + 1])
          BY <1>1, <2>1, SubSeqLonger
        <4> QED
          BY <2>1, <3>2, <3>3, <4>1
      <3>5. r.parts = Append(ps, q) /\ Len(r.parts) = Len(ps) + 1 /\ Last(r.parts) = q
        <4>1. r.parts = Append(ps, q)
          BY <3>1, <3>2
        <4>2. Len(Append(ps, q)) = Len(ps) + 1 /\ Append(ps, q)[Len(ps) + 1] = q
          OBVIOUS
        <4>3. Len(r.parts) = Len(ps) + 1 /\ r.parts[Len(ps) + 1] = q
          BY <4>1, <4>2
        <4>4. Last(r.parts) = q
          BY <4>3 DEF Last
        <4> QED
          BY <4>1, <4>3, <4>4
      <3>6. [r.parts EXCEPT ![Len(r.parts)] = part] = Append(ps, part)
        <4>1. [Append(ps, q) EXCEPT ![Len(ps) + 1] = part] = Append(ps, part)
          <5>1. q \in Text /\ part \in Text
            BY <3>2, <3>3
          <5> QED
            BY ONLY <5>1, LastReplaced, ps \in Seq(Text)
        <4> QED
          BY <3>5, <4>1
      <3>7. h[k] = [parts |-> Append(ps, part), ok |-> p[k] \in Digits /\ ~TooLong(part)]
        BY <2>4, <2>7, <3>3, <3>5, <3>6 DEF ReadChar
      <3>8. ~TooLong(part) <=> k <= 3
        <4>1. k \in Nat
          BY <2>1
        <4>2. PICK j \in Nat : j = k /\ j = Len(part)
          BY <3>4, <4>1
        <4>3. ~TooLong(part) <=> j <= 3
          BY <4>2 DEF TooLong
        <4> QED
          BY <4>2, <4>3
      <3>9. (h[k].ok <=> p[k] \in Digits /\ ~TooLong(part)) /\ h[k].parts = Append(ps, part)
        <4>1. PICK b \in BOOLEAN : b = (p[k] \in Digits /\ ~TooLong(part))
          OBVIOUS
        <4>2. PICK a : a = Append(ps, part)
          OBVIOUS
        <4>3. h[k] = [parts |-> a, ok |-> b]
          BY <3>7, <4>1, <4>2
        <4>4. h[k].ok = b /\ h[k].parts = a
          BY <4>3
        <4> QED
          BY <4>1, <4>2, <4>4
      <3>10. ReadTo(k)
        BY <2>5, <3>1, <3>4, <3>8, <3>9
      <3> QED
        BY <1>1, <3>10
    <2> QED
      BY <2>6, <2>7
  <1>4. Len(p) \in S
    <2>1. Len(p) \in 0 .. Len(p)
      BY <1>1
    <2> HIDE DEF S
    <2> QED
      BY <1>1, <1>2, <1>3, <2>1, UpTo
  <1>5. SubSeq(p, 1, Len(p)) = p
    BY <1>1
  <1>6. ReadTo(Len(p))
    BY <1>4
  <1> QED
    BY <1>5, <1>6

\* A string with one part more, and reading it as reading h behind reading e.
Joined(t, s, p) == t = s \o <<Dot>> \o p

ReadOn(e, h, s, p, f, t) ==
    /\ Reading(e, s)
    /\ h[0] = ReadChar(e[Len(s)], Dot) /\ h[0] \in Reads
    /\ \A k \in 1 .. Len(p) : h[k] = ReadChar(h[k - 1], p[k])
    /\ h[Len(p)] = f[Len(t)]

LEMMA Prolonged ==
  ASSUME NEW s \in Text, NEW p \in Text, NEW t \in Text, Joined(t, s, p),
         NEW f, Reading(f, t)
  PROVE  \E e, h : ReadOn(e, h, s, p, f, t)
  <1>1. PICK m \in Nat, n \in Nat : m = Len(s) /\ n = Len(p)
    BY DEF Text
  <1>2. /\ Len(t) = m + 1 + n /\ \A k \in 1 .. m : t[k] = s[k]
        /\ t[m + 1] = Dot /\ \A k \in 1 .. n : t[m + 1 + k] = p[k]
    BY <1>1 DEF Text, Joined
  <1>3. /\ f \in [0 .. m + 1 + n -> Reads] /\ f[0] = Begun
        /\ \A k \in 1 .. m + 1 + n : f[k] = ReadChar(f[k - 1], t[k])
    BY <1>2 DEF Reading
  <1>4. PICK e : e = [k \in 0 .. m |-> f[k]]
    OBVIOUS
  <1>5. PICK h : h = [k \in 0 .. n |-> f[m + 1 + k]]
    OBVIOUS
  <1>6. Reading(e, s)
    <2>0. \A k \in 0 .. m : k \in 0 .. m + 1 + n /\ (k # 0 => k \in 1 .. m + 1 + n)
      OBVIOUS
    <2>1. e \in [0 .. m -> Reads] /\ e[0] = Begun
      BY <1>3, <1>4, <2>0
    <2>2. ASSUME NEW k \in 1 .. m
          PROVE  e[k] = ReadChar(e[k - 1], s[k])
      <3>1. k \in 0 .. m /\ k - 1 \in 0 .. m /\ k \in 1 .. m + 1 + n
        OBVIOUS
      <3>2. e[k] = f[k] /\ e[k - 1] = f[k - 1] /\ t[k] = s[k]
        BY <1>2, <1>4, <3>1
      <3> QED
        BY <1>3, <3>1, <3>2
    <2> QED
      BY <1>1, <2>1, <2>2 DEF Reading
  <1>7. h[0] = ReadChar(e[m], Dot) /\ h[0] \in Reads
    <2>1. h[0] = f[m + 1] /\ e[m] = f[m]
      BY <1>4, <1>5
    <2>2. m + 1 \in 1 .. m + 1 + n /\ m + 1 - 1 = m
      OBVIOUS
    <2>3. f[m + 1] = ReadChar(f[m], t[m + 1]) /\ f[m + 1] \in Reads
      <3>1. PICK N \in Nat : N = m + 1 + n
        OBVIOUS
      <3>2. PICK i \in 1 .. N : i = m + 1 /\ i - 1 = m
        BY <2>2, <3>1
      <3>3. /\ f \in [0 .. N -> Reads]
            /\ \A k \in 1 .. N : f[k] = ReadChar(f[k - 1], t[k])
        BY <1>3, <3>1
      <3>4. f[i] = ReadChar(f[i - 1], t[i])
        BY <3>2, <3>3
      <3>5. f[i] \in Reads
        <4>1. i \in 0 .. N
          BY <3>2
        <4> QED
          BY <3>3, <4>1
      <3> QED
        BY <3>2, <3>4, <3>5
    <2> QED
      BY <1>2, <2>1, <2>3
  <1>8. ASSUME NEW k \in 1 .. n
        PROVE  h[k] = ReadChar(h[k - 1], p[k])
    <2>1. m + 1 + k \in 1 .. m + 1 + n /\ m + 1 + k - 1 = m + 1 + (k - 1) /\ k - 1 \in 0 .. n
      OBVIOUS
    <2>2. f[m + 1 + k] = ReadChar(f[m + 1 + (k - 1)], t[m + 1 + k])
      <3>1. PICK N \in Nat : N = m + 1 + n
        OBVIOUS
      <3>2. PICK i \in 1 .. N : i = m + 1 + k /\ i - 1 = m + 1 + (k - 1)
        BY <2>1, <3>1
      <3>3. \A j \in 1 .. N : f[j] = ReadChar(f[j - 1], t[j])
        BY <1>3, <3>1
      <3>4. f[i] = ReadChar(f[i - 1], t[i])
        BY <3>2, <3>3
      <3> QED
        BY <3>2, <3>4
    <2>3. h[k] = f[m + 1 + k] /\ h[k - 1] = f[m + 1 + (k - 1)]
      BY <1>5, <2>1
    <2> QED
      BY <1>2, <2>2, <2>3
  <1>9. h[n] = f[Len(t)]
    BY <1>2, <1>5
  <1> QED
    BY <1>1, <1>6, <1>7, <1>8, <1>9 DEF ReadOn

\* What reading the part behind a dot begins with.
LEMMA DotRead ==
  ASSUME NEW r \in Reads, NEW ps \in Seq(Text), r.ok => r.parts = ps
  PROVE  /\ ReadChar(r, Dot).ok <=> r.ok /\ Len(ps) < 4
         /\ ReadChar(r, Dot).ok => ReadChar(r, Dot).parts = Append(ps, << >>)
  <1>1. CASE ~r.ok
    BY <1>1 DEF ReadChar
  <1>2. CASE r.ok
    <2>1. PICK b \in BOOLEAN : b = (Len(ps) < 4)
      <3>1. (Len(ps) < 4) \in BOOLEAN
        OBVIOUS
      <3> QED
        BY <3>1, Zenon
    <2>2. PICK a : a = Append(ps, << >>)
      OBVIOUS
    <2>3. ReadChar(r, Dot) = [parts |-> a, ok |-> b]
      BY <1>2, <2>1, <2>2 DEF ReadChar
    <2>4. ReadChar(r, Dot).ok = b /\ ReadChar(r, Dot).parts = a
      BY <2>3
    <2> QED
      BY <1>2, <2>1, <2>2, <2>4
  <1> QED
    BY <1>1, <1>2

\* What reading the first j parts ends with.
ReadUpTo(parts, u, j) ==
    \A f : Reading(f, u[j]) =>
        /\ f[Len(u[j])].ok <=> j <= 4 /\ \A i \in 1 .. j : Good(parts[i], Len(parts[i]))
        /\ f[Len(u[j])].ok => f[Len(u[j])].parts = SubSeq(parts, 1, j)

\* Induction over the parts: the first one, and one more.
LEMMA FirstPart ==
  ASSUME NEW n \in Nat \ {0}, NEW parts \in Seq(Text), Len(parts) = n,
         NEW u, u[1] = parts[1], \A i \in 1 .. Len(parts[1]) : parts[1][i] # Dot
  PROVE  ReadUpTo(parts, u, 1)
  <1>1. PICK p \in Text : p = parts[1]
    BY ElementOfSeq
  <1>2. SUFFICES ASSUME NEW f, Reading(f, p)
                 PROVE  /\ f[Len(p)].ok <=> Good(p, Len(p))
                        /\ f[Len(p)].ok => f[Len(p)].parts = SubSeq(parts, 1, 1)
    <2>1. (\A i \in 1 .. 1 : Good(parts[i], Len(parts[i]))) <=> Good(p, Len(p))
      BY <1>1
    <2> QED
      BY <1>1, <2>1 DEF ReadUpTo
  <1>3. PICK ps \in Seq(Text) : ps = << >>
    <2>1. << >> \in Seq(Text)
      OBVIOUS
    <2> QED
      BY <2>1, Zenon
  <1>4. Append(ps, << >>) = <<<< >>>> /\ Append(ps, p) = <<p>>
    BY <1>3
  <1>5. f[0] \in Reads /\ f[0].ok /\ f[0].parts = Append(ps, << >>)
    <2>1. f[0] = Begun
      BY <1>2 DEF Reading
    <2>2. Begun.ok /\ Begun.parts = <<<< >>>>
      BY DEF Begun
    <2> QED
      BY <1>4, <2>1, <2>2, BegunType
  <1>6. \A k \in 1 .. Len(p) : f[k] = ReadChar(f[k - 1], p[k])
    BY <1>2 DEF Reading
  <1>7. \A i \in 1 .. Len(p) : p[i] # Dot
    BY <1>1
  <1>8. /\ f[Len(p)].ok <=> f[0].ok /\ Good(p, Len(p))
        /\ f[Len(p)].ok => f[Len(p)].parts = Append(ps, p)
    BY ONLY <1>5, <1>6, <1>7, PartRead, ps \in Seq(Text), p \in Text
  <1>9. SubSeq(parts, 1, 1) = <<p>>
    <2>1. PICK x : x = SubSeq(parts, 1, 1)
      OBVIOUS
    <2>2. x \in Seq(Text) /\ Len(x) = 1 /\ x[1] = p
      BY <1>1, <2>1
    <2>3. <<p>> \in Seq(Text) /\ Len(<<p>>) = 1 /\ <<p>>[1] = p
      OBVIOUS
    <2>4. \A i \in 1 .. Len(x) : x[i] = <<p>>[i]
      BY <2>2, <2>3
    <2>5. x = <<p>>
      BY <2>2, <2>3, <2>4, SeqEqual
    <2> QED
      BY <2>1, <2>5
  <1> QED
    BY <1>4, <1>5, <1>8, <1>9

LEMMA OnePartMore ==
  ASSUME NEW n \in Nat \ {0}, NEW parts \in Seq(Text), Len(parts) = n,
         NEW u \in [1 .. n -> Text], NEW j \in 2 .. n, u[j] = u[j - 1] \o <<Dot>> \o parts[j],
         \A i \in 1 .. Len(parts[j]) : parts[j][i] # Dot, ReadUpTo(parts, u, j - 1)
  PROVE  ReadUpTo(parts, u, j)
  <1>1. PICK l \in 1 .. n : l = j - 1 /\ j = l + 1
    OBVIOUS
  <1>2. PICK p \in Text : p = parts[j]
    BY ElementOfSeq
  <1>3. PICK s \in Text, t \in Text : s = u[l] /\ t = u[j]
    <2>1. l \in 1 .. n /\ j \in 1 .. n
      OBVIOUS
    <2> QED
      BY <2>1
  <1>4. t = s \o <<Dot>> \o p
    <2>1. u[j] = u[l] \o <<Dot>> \o parts[j]
      BY <1>1
    <2> QED
      BY <1>2, <1>3, <2>1, Zenon
  <1>5. PICK ps \in Seq(Text) : ps = SubSeq(parts, 1, l) /\ Len(ps) = l
    <2>1. SubSeq(parts, 1, l) \in Seq(Text) /\ Len(SubSeq(parts, 1, l)) = l
      BY <1>1
    <2> QED
      BY <2>1, Zenon
  <1>6. SubSeq(parts, 1, j) = Append(ps, p)
    <2>1. SubSeq(parts, 1, l + 1) = Append(SubSeq(parts, 1, l), parts[l + 1])
      BY <1>1, SubSeqLonger
    <2> QED
      BY <1>1, <1>2, <1>5, <2>1
  <1> DEFINE AllGood(k) == \A i \in 1 .. k : Good(parts[i], Len(parts[i]))
  <1>7. AllGood(j) <=> AllGood(l) /\ Good(p, Len(p))
    <2>1. \A i : i \in 1 .. j <=> i \in 1 .. l \/ i = j
      BY <1>1
    <2> QED
      BY <1>2, <2>1
  <1>8. \A e : Reading(e, s) =>
          /\ e[Len(s)].ok <=> l <= 4 /\ AllGood(l)
          /\ e[Len(s)].ok => e[Len(s)].parts = ps
    BY <1>1, <1>3, <1>5, SMTT(30) DEF ReadUpTo
  <1>9. SUFFICES ASSUME NEW f, Reading(f, t)
                 PROVE  /\ f[Len(t)].ok <=> j <= 4 /\ AllGood(j)
                        /\ f[Len(t)].ok => f[Len(t)].parts = Append(ps, p)
    BY <1>3, <1>6 DEF ReadUpTo
  <1>10. PICK e, h : /\ Reading(e, s)
                     /\ h[0] = ReadChar(e[Len(s)], Dot) /\ h[0] \in Reads
                     /\ \A k \in 1 .. Len(p) : h[k] = ReadChar(h[k - 1], p[k])
                     /\ h[Len(p)] = f[Len(t)]
    <2>1. Joined(t, s, p)
      BY <1>4 DEF Joined
    <2>2. \E e, h : ReadOn(e, h, s, p, f, t)
      BY <1>2, <1>3, <1>9, <2>1, Prolonged, Zenon
    <2> QED
      BY <2>2 DEF ReadOn
  <1>11. PICK r \in Reads : r = e[Len(s)]
    <2>1. Len(s) \in 0 .. Len(s)
      BY DEF Text
    <2> QED
      BY <1>10, <2>1 DEF Reading
  <1> HIDE DEF AllGood
  <1>12. (r.ok <=> l <= 4 /\ AllGood(l)) /\ (r.ok => r.parts = ps)
    BY <1>8, <1>10, <1>11
  <1>13. (h[0].ok <=> r.ok /\ l < 4) /\ (h[0].ok => h[0].parts = Append(ps, << >>))
    <2>1. /\ ReadChar(r, Dot).ok <=> r.ok /\ Len(ps) < 4
          /\ ReadChar(r, Dot).ok => ReadChar(r, Dot).parts = Append(ps, << >>)
      BY <1>12, DotRead
    <2> QED
      BY <1>5, <1>10, <1>11, <2>1
  <1>14. \A i \in 1 .. Len(p) : p[i] # Dot
    BY <1>2
  <1>15. /\ h[Len(p)].ok <=> h[0].ok /\ Good(p, Len(p))
         /\ h[Len(p)].ok => h[Len(p)].parts = Append(ps, p)
    BY ONLY <1>10, <1>13, <1>14, PartRead, ps \in Seq(Text), p \in Text
  <1>16. l <= 4 /\ l < 4 <=> j <= 4
    BY <1>1
  <1> QED
    BY <1>7, <1>10, <1>12, <1>13, <1>15, <1>16

\* What is_str_ip says of parts without a dot in them.
LEMMA AddressMeans ==
  ASSUME NEW n \in Nat \ {0}, NEW parts \in [1 .. n -> Text],
         \A j \in 1 .. n : \A i \in 1 .. Len(parts[j]) : parts[j][i] # Dot
  PROVE  is_str_ip(Dotted(parts)) <=>
           /\ n = 4
           /\ \A i \in 1 .. 4 : /\ parts[i] # << >> /\ Good(parts[i], Len(parts[i]))
                               /\ atoi(parts[i]) <= 255
  <1>1. parts \in Seq(Text) /\ Len(parts) = n
    BY FunctionIsSequence
  <1>2. PICK u \in [1 .. n -> Text] : /\ u[1] = parts[1] /\ Dotted(parts) = u[n]
                                     /\ \A j \in 2 .. n : u[j] = u[j - 1] \o <<Dot>> \o parts[j]
    BY DottedMeans
  <1>3. PICK m \in Nat : n = m + 1
    OBVIOUS
  <1>4. PICK S : S = {k \in 0 .. m : ReadUpTo(parts, u, k + 1)}
    OBVIOUS
  <1>5. 0 \in S
    <2>1. ReadUpTo(parts, u, 1)
      BY <1>1, <1>2, FirstPart
    <2>2. 0 \in 0 .. m /\ 0 + 1 = 1
      OBVIOUS
    <2> QED
      BY <1>4, <2>1, <2>2
  <1>6. ASSUME NEW k \in 1 .. m, k - 1 \in S
        PROVE  k \in S
    <2>1. PICK j \in 2 .. n : j = k + 1 /\ j - 1 = (k - 1) + 1
      BY <1>3
    <2>2. ReadUpTo(parts, u, j - 1)
      BY <1>4, <1>6, <2>1
    <2>3. ReadUpTo(parts, u, j)
      <3>1. j \in 1 .. n
        OBVIOUS
      <3>2. /\ u[j] = u[j - 1] \o <<Dot>> \o parts[j]
            /\ \A i \in 1 .. Len(parts[j]) : parts[j][i] # Dot
        BY <1>2, <3>1
      <3> QED
        BY <1>1, <2>2, <3>2, OnePartMore, Zenon
    <2> QED
      BY <1>4, <2>1, <2>3
  <1>7. m \in S
    <2>1. \A k \in 0 .. m : k \in S
      BY <1>5, <1>6, UpTo
    <2> QED
      BY <2>1
  <1>8. ReadUpTo(parts, u, n)
    BY <1>3, <1>4, <1>7
  <1>9. PICK s \in Text : s = u[n]
    OBVIOUS
  <1>10. PICK f : /\ Reading(f, s)
                  /\ is_str_ip(s) <=>
                       /\ f[Len(s)].ok /\ Len(f[Len(s)].parts) = 4
                       /\ \A i \in 1 .. 4 : /\ f[Len(s)].parts[i] # << >>
                                           /\ atoi(f[Len(s)].parts[i]) <= 255
    BY ReadMeans
  <1>11. SubSeq(parts, 1, n) = parts
    BY <1>1
  <1>12. PICK r : r = f[Len(s)]
    OBVIOUS
  <1>13. /\ r.ok <=> n <= 4 /\ \A i \in 1 .. n : Good(parts[i], Len(parts[i]))
         /\ r.ok => r.parts = parts
    BY <1>8, <1>9, <1>10, <1>11, <1>12 DEF ReadUpTo
  <1>14. is_str_ip(s) <=> /\ r.ok /\ Len(r.parts) = 4
                          /\ \A i \in 1 .. 4 : r.parts[i] # << >> /\ atoi(r.parts[i]) <= 255
    BY <1>10, <1>12
  <1>15. CASE ~r.ok
    BY <1>2, <1>9, <1>13, <1>14, <1>15
  <1>16. CASE r.ok
    BY <1>1, <1>2, <1>9, <1>13, <1>14, <1>16, ZenonT(60)
  <1> QED
    BY <1>15, <1>16

\* The parts that are checked: those that are octets, and the others.
LEMMA OctetsAre ==
  ASSUME NEW p \in Octets
  PROVE  /\ p \in Text /\ \A i \in 1 .. Len(p) : p[i] # Dot
         /\ p # << >> /\ Good(p, Len(p)) /\ atoi(p) <= 255
  <1>1. CASE p = <<48>>
    <2>1. p \in Text /\ Len(p) = 1 /\ p[1] = 48
      BY <1>1 DEF Text
    <2>2. atoi(p) = 0
      BY <2>1, AtoiMeans
    <2> QED
      BY <2>1, <2>2 DEF Good, Dot, Digits
  <1>2. CASE p = <<57, 57>>
    <2>1. p \in Text /\ Len(p) = 2 /\ p[1] = 57 /\ p[2] = 57
      BY <1>2 DEF Text
    <2>2. atoi(p) = 99
      BY <2>1, AtoiMeans
    <2> QED
      BY <2>1, <2>2 DEF Good, Dot, Digits
  <1>3. CASE p = <<50, 53, 53>>
    <2>1. p \in Text /\ Len(p) = 3 /\ p[1] = 50 /\ p[2] = 53 /\ p[3] = 53
      BY <1>3 DEF Text
    <2>2. atoi(p) = 255
      BY <2>1, AtoiMeans
    <2> QED
      BY <2>1, <2>2 DEF Good, Dot, Digits
  <1>4. CASE p = <<48, 48, 48>>
    <2>1. p \in Text /\ Len(p) = 3 /\ p[1] = 48 /\ p[2] = 48 /\ p[3] = 48
      BY <1>4 DEF Text
    <2>2. atoi(p) = 0
      BY <2>1, AtoiMeans
    <2> QED
      BY <2>1, <2>2 DEF Good, Dot, Digits
  <1> QED
    BY <1>1, <1>2, <1>3, <1>4 DEF Octets

LEMMA NonOctetsAre ==
  ASSUME NEW p \in NonOctets
  PROVE  /\ p \in Text /\ \A i \in 1 .. Len(p) : p[i] # Dot
         /\ ~(p # << >> /\ Good(p, Len(p)) /\ atoi(p) <= 255)
  <1>1. CASE p = << >>
    BY <1>1 DEF Text
  <1>2. CASE p = <<48, 48, 48, 48>>
    <2>1. p \in Text /\ Len(p) = 4 /\ \A i \in 1 .. 4 : p[i] = 48
      BY <1>2 DEF Text
    <2> QED
      BY <2>1 DEF Good, Dot
  <1>3. CASE p = <<50, 53, 54>>
    <2>1. p \in Text /\ Len(p) = 3 /\ p[1] = 50 /\ p[2] = 53 /\ p[3] = 54
      BY <1>3 DEF Text
    <2>2. atoi(p) = 256
      BY <2>1, AtoiMeans
    <2> QED
      BY <2>1, <2>2 DEF Dot
  <1>4. CASE p = <<57, 58>>
    <2>1. p \in Text /\ Len(p) = 2 /\ p[1] = 57 /\ p[2] = 58
      BY <1>4 DEF Text
    <2> QED
      BY <2>1 DEF Good, Dot, Digits
  <1>5. CASE p = <<47>>
    <2>1. p \in Text /\ Len(p) = 1 /\ p[1] = 47
      BY <1>5 DEF Text
    <2> QED
      BY <2>1 DEF Good, Dot, Digits
  <1>6. CASE p = <<49, 48, 48, 48, 48, 48>>
    <2>1. p \in Text /\ Len(p) = 6 /\ \A i \in 1 .. 6 : p[i] \in {48, 49}
      BY <1>6 DEF Text
    <2> QED
      BY <2>1 DEF Good, Dot
  <1> QED
    BY <1>1, <1>2, <1>3, <1>4, <1>5, <1>6 DEF NonOctets

\* For the addresses that are checked, of any number of parts.
LEMMA AddressIsOctets ==
  ASSUME NEW parts \in PartLists
  PROVE  is_str_ip(Dotted(parts)) <=> Len(parts) = 4 /\ \A i \in 1 .. 4 : parts[i] \in Octets
  <1>1. PICK n \in 0 .. MaxParts : parts \in [1 .. n -> Octets \cup NonOctets] /\ parts # << >>
    BY DEF PartLists, SeqsUpTo
  <1>2. n \in Nat /\ Len(parts) = n /\ n # 0
    <2>1. n \in Nat
      BY StringsAssumption
    <2>2. parts \in Seq(Octets \cup NonOctets) /\ Len(parts) = n
      BY <1>1, <2>1, FunctionIsSequence
    <2> QED
      BY <1>1, <2>1, <2>2
  <1>3. ASSUME NEW j \in 1 .. n
        PROVE  /\ parts[j] \in Text /\ \A i \in 1 .. Len(parts[j]) : parts[j][i] # Dot
               /\ parts[j] \in Octets <=>
                     parts[j] # << >> /\ Good(parts[j], Len(parts[j])) /\ atoi(parts[j]) <= 255
    <2>1. PICK p : p = parts[j]
      OBVIOUS
    <2>2. p \in Octets \/ p \in NonOctets
      BY <1>1, <2>1
    <2>3. /\ p \in Text /\ \A i \in 1 .. Len(p) : p[i] # Dot
          /\ p \in Octets <=> p # << >> /\ Good(p, Len(p)) /\ atoi(p) <= 255
      BY <2>2, OctetsAre, NonOctetsAre, ZenonT(60)
    <2> QED
      BY <2>1, <2>3
  <1>4. n \in Nat \ {0} /\ parts \in [1 .. n -> Text]
    BY <1>1, <1>2, <1>3
  <1>5. is_str_ip(Dotted(parts)) <=>
           /\ n = 4
           /\ \A i \in 1 .. 4 : /\ parts[i] # << >> /\ Good(parts[i], Len(parts[i]))
                               /\ atoi(parts[i]) <= 255
    <2>1. \A j \in 1 .. n : \A i \in 1 .. Len(parts[j]) : parts[j][i] # Dot
      BY <1>3
    <2> QED
      BY <1>4, <2>1, AddressMeans
  <1>6. CASE n # 4
    BY <1>2, <1>5, <1>6
  <1>7. CASE n = 4
    <2>1. \A i \in 1 .. 4 :
             parts[i] \in Octets <=>
                 parts[i] # << >> /\ Good(parts[i], Len(parts[i])) /\ atoi(parts[i]) <= 255
      BY <1>3, <1>7, SMTT(30)
    <2> QED
      BY <1>2, <1>5, <1>7, <2>1, ZenonT(60)
  <1> QED
    BY <1>6, <1>7

\* As long as no error was found the next character is stored inside ip_tmp.
LEMMA ScanInside ==
  ASSUME NEW s \in Text, NEW k \in 1 .. Len(s), Scanned(s)[k - 1].ok
  PROVE  StoresInside(Scanned(s)[k - 1])
  <1> DEFINE Fits(r) == r.ok => Len(r.parts) <= 4 /\ Len(Last(r.parts)) < 4
  <1>1. PICK f : Reading(f, s) /\ f = Scanned(s)
    BY ReadMeans
  <1>2. Len(s) \in Nat /\ \A j \in 1 .. Len(s) : s[j] \in Nat
    BY DEF Text
  <1>3. Fits(Begun)
    BY DEF Begun, Last
  <1>4. ASSUME NEW r \in Reads, NEW c \in Nat, Fits(r)
        PROVE  Fits(ReadChar(r, c))
    <2>1. /\ r.parts \in Seq(Text) /\ r.ok \in BOOLEAN
          /\ Len(r.parts) \in Nat \ {0} /\ Last(r.parts) \in Text
      BY ReadsType
    <2>2. CASE ~r.ok
      BY <2>2 DEF ReadChar
    <2>3. CASE r.ok /\ c = Dot
      <3>1. PICK ps : ps = Append(r.parts, << >>)
        OBVIOUS
      <3>2. ReadChar(r, c) = [parts |-> ps, ok |-> Len(r.parts) < 4]
        BY <2>3, <3>1 DEF ReadChar
      <3>3. << >> \in Text
        BY DEF Text
      <3>4. Len(ps) = Len(r.parts) + 1 /\ Last(ps) = << >>
        <4>1. PICK qs \in Seq(Text) : qs = r.parts
          BY <2>1
        <4>2. Len(Append(qs, << >>)) = Len(qs) + 1 /\ Append(qs, << >>)[Len(qs) + 1] = << >>
          BY <3>3
        <4>3. Len(ps) = Len(r.parts) + 1 /\ ps[Len(r.parts) + 1] = << >>
          BY <3>1, <4>1, <4>2, Zenon
        <4>4. Last(ps) = ps[Len(ps)]
          BY DEF Last
        <4> QED
          BY <4>3, <4>4, Zenon
      <3>5. PICK q : q = ReadChar(r, c)
        OBVIOUS
      <3>6. q.parts = ps /\ (q.ok <=> Len(r.parts) < 4)
        <4>1. PICK b \in BOOLEAN : b = (Len(r.parts) < 4)
          <5>1. (Len(r.parts) < 4) \in BOOLEAN
            OBVIOUS
          <5> QED
            BY <5>1, Zenon
        <4>2. q = [parts |-> ps, ok |-> b]
          BY <3>2, <3>5, <4>1, Zenon
        <4>3. q.parts = ps /\ q.ok = b
          BY <4>2
        <4> QED
          BY <4>1, <4>3, Zenon
      <3>7. q.ok => Len(q.parts) <= 4 /\ Len(Last(q.parts)) < 4
        <4>1. Len(<< >>) = 0
          OBVIOUS
        <4>2. Len(q.parts) = Len(r.parts) + 1 /\ Len(Last(q.parts)) = 0
          BY <3>4, <3>6, <4>1, Zenon
        <4> QED
          BY <2>1, <3>6, <4>2
      <3> QED
        BY <3>5, <3>7, Zenon
    <2>4. CASE r.ok /\ c # Dot
      <3>1. PICK part \in Text : part = Append(Last(r.parts), c)
        <4>1. Append(Last(r.parts), c) \in Text
          BY <2>1 DEF Text
        <4> QED
          BY <4>1
      <3>2. PICK ps : ps = [r.parts EXCEPT ![Len(r.parts)] = part]
        OBVIOUS
      <3>3. ReadChar(r, c) = [parts |-> ps, ok |-> c \in Digits /\ ~TooLong(part)]
        BY <2>4, <3>1, <3>2 DEF ReadChar
      <3>4. Len(ps) = Len(r.parts) /\ Last(ps) = part
        <4>1. PICK qs \in Seq(Text), n \in Nat \ {0} : qs = r.parts /\ n = Len(qs)
          BY <2>1
        <4>2. Len([qs EXCEPT ![n] = part]) = n /\ [qs EXCEPT ![n] = part][n] = part
          BY <4>1
        <4>3. Len(ps) = Len(r.parts) /\ ps[Len(r.parts)] = part
          BY <3>2, <4>1, <4>2, Zenon
        <4>4. Last(ps) = ps[Len(ps)]
          BY DEF Last
        <4> QED
          BY <4>3, <4>4, Zenon
      <3>5. Len(part) \in Nat
        BY DEF Text
      <3>6. PICK q : q = ReadChar(r, c)
        OBVIOUS
      <3>7. q.parts = ps /\ (q.ok <=> c \in Digits /\ ~TooLong(part))
        <4>1. PICK b \in BOOLEAN : b = (c \in Digits /\ ~TooLong(part))
          <5>1. (c \in Digits /\ ~TooLong(part)) \in BOOLEAN
            OBVIOUS
          <5> QED
            BY <5>1, Zenon
        <4>2. q = [parts |-> ps, ok |-> b]
          BY <3>3, <3>6, <4>1, Zenon
        <4>3. q.parts = ps /\ q.ok = b
          BY <4>2
        <4> QED
          BY <4>1, <4>3, Zenon
      <3>8. Len(q.parts) = Len(r.parts) /\ Last(q.parts) = part /\ Len(r.parts) <= 4
        BY <1>4, <2>4, <3>4, <3>7, Zenon
      <3>9. q.ok => Len(q.parts) <= 4 /\ Len(Last(q.parts)) < 4
        BY <3>5, <3>7, <3>8 DEF TooLong
      <3> QED
        BY <3>6, <3>9, Zenon
    <2> QED
      BY <2>1, <2>2, <2>3, <2>4
  <1> HIDE DEF Fits
  <1>5. PICK S : S = {j \in 0 .. Len(s) : Fits(f[j])}
    OBVIOUS
  <1>6. 0 \in S
    BY <1>1, <1>2, <1>3, <1>5 DEF Reading
  <1>7. ASSUME NEW j \in 1 .. Len(s), j - 1 \in S
        PROVE  j \in S
    <2>1. f[j] = ReadChar(f[j - 1], s[j]) /\ f[j - 1] \in Reads /\ s[j] \in Nat
      BY <1>1, <1>2, <1>5, <1>7 DEF Reading
    <2>2. Fits(f[j])
      BY <1>4, <1>5, <1>7, <2>1
    <2> QED
      BY <1>5, <2>2
  <1>8. \A j \in 0 .. Len(s) : j \in S
    BY ONLY <1>2, <1>6, <1>7, UpTo
  <1>9. k - 1 \in 0 .. Len(s)
    BY <1>2
  <1>10. Fits(f[k - 1]) /\ f[k - 1] \in Reads
    BY <1>1, <1>5, <1>8, <1>9 DEF Reading
  <1>11. Len(f[k - 1].parts) <= 4 /\ Len(Last(f[k - 1].parts)) < 4
    BY <1>1, <1>10 DEF Fits
  <1>12. Len(Last(f[k - 1].parts)) \in Nat
    BY <1>10, ReadsType DEF Text
  <1> QED
    BY <1>1, <1>11, <1>12 DEF StoresInside

\* The addresses that are checked are strings.
LEMMA DottedType ==
  ASSUME NEW parts \in PartLists
  PROVE  Dotted(parts) \in Text
  <1>1. PICK n \in 0 .. MaxParts : parts \in [1 .. n -> Octets \cup NonOctets] /\ parts # << >>
    BY DEF PartLists, SeqsUpTo
  <1>2. n \in Nat /\ n # 0
    <2>1. n \in Nat
      BY StringsAssumption
    <2>2. parts \in Seq(Octets \cup NonOctets) /\ Len(parts) = n
      BY <1>1, <2>1, FunctionIsSequence
    <2> QED
      BY <1>1, <2>1, <2>2
  <1>3. ASSUME NEW j \in 1 .. n
        PROVE  parts[j] \in Text
    <2>1. parts[j] \in Octets \/ parts[j] \in NonOctets
      BY <1>1
    <2> QED
      BY <2>1, OctetsAre, NonOctetsAre, ZenonT(60)
  <1>4. parts \in [1 .. n -> Text]
    BY <1>1, <1>3
  <1> QED
    <2>1. n \in Nat \ {0}
      BY <1>2
    <2>2. PICK u \in [1 .. n -> Text] : Dotted(parts) = u[n]
      BY <1>4, <2>1, DottedMeans, Zenon
    <2> QED
      BY <2>1, <2>2

\* is_str_ip takes a string for an address exactly if it is four octets of one
\* to three digits with a dot between each two, and never stores outside ip_tmp,
\* whatever the number of the parts (utils.c:159-209).
THEOREM AddressesKnown == StringsSpec => []AddressesRecognised
  <1>1. StringsInit => AddressesRecognised
    <2>1. ASSUME NEW parts \in PartLists, given = <<"is_str_ip", parts>>
          PROVE  AddressesRecognised
      <3>1. given[2] = parts
        BY <2>1
      <3> QED
        BY <3>1, AddressIsOctets, DottedType, ScanInside DEF AddressesRecognised
    <2>2. ASSUME given[1] \in {"strings", "bytes"}
          PROVE  AddressesRecognised
      BY <2>2 DEF AddressesRecognised, Given
    <2>3. ASSUME NEW s, NEW t, given = <<"strings", s, t>>
          PROVE  AddressesRecognised
      BY <2>2, <2>3
    <2>4. ASSUME NEW s, given = <<"bytes", s>>
          PROVE  AddressesRecognised
      BY <2>2, <2>4
    <2> QED
      BY <2>1, <2>3, <2>4, Zenon DEF StringsInit
  <1>2. AddressesRecognised /\ [given' = given]_given => AddressesRecognised'
    BY DEF AddressesRecognised, Given
  <1> QED
    BY <1>1, <1>2, PTL DEF StringsSpec

-----------------------------------------------------------------------------
(* The size of a ring: powers of two                                       *)

\* The powers exist, each the double of the one before it.
LEMMA PowersMean ==
  /\ PowerOf2 \in [0 .. LongBits -> Nat] /\ PowerOf2[0] = 1
  /\ \A k \in 1 .. LongBits : PowerOf2[k] = 2 * PowerOf2[k - 1]
  <1> DEFINE Powers(f) == f = [k \in 0 .. LongBits |-> IF k = 0 THEN 1 ELSE 2 * f[k - 1]]
  <1>0. LongBits \in Nat
    BY SizeAssumption DEF SizeAssumption
  <1>1. PICK g : g = [k \in 1 .. LongBits |-> [n \in Int |-> 2 * n]]
    OBVIOUS
  <1>2. g \in [1 .. LongBits -> [Int -> Int]]
    BY <1>1
  <1>3. PICK f \in [0 .. LongBits -> Int] : f[0] = 1 /\ \A k \in 1 .. LongBits : f[k] = g[k][f[k - 1]]
    <2>1. PICK x \in Int : x = 1
      OBVIOUS
    <2> HIDE <1>1
    <2>2. \E f \in [0 .. LongBits -> Int] : f[0] = x /\ \A k \in 1 .. LongBits : f[k] = g[k][f[k - 1]]
      BY <1>0, <1>2, IntRecursion, ZenonT(60)
    <2> QED
      BY <2>1, <2>2
  <1>4. \A k \in 1 .. LongBits : k - 1 \in 0 .. LongBits /\ k \in 0 .. LongBits /\ k # 0
    BY <1>0
  <1>5. \A k \in 1 .. LongBits : f[k] = 2 * f[k - 1]
    BY <1>1, <1>3, <1>4
  <1>6. Powers(f)
    <2>1. f = [k \in 0 .. LongBits |-> f[k]]
      BY <1>3
    <2>2. \A k \in 0 .. LongBits : f[k] = IF k = 0 THEN 1 ELSE 2 * f[k - 1]
      BY <1>0, <1>3, <1>5
    <2> QED
      BY <2>1, <2>2
  <1>7. Powers(PowerOf2)
    <2>1. PowerOf2 = CHOOSE h : Powers(h)
      BY Zenon DEF PowerOf2
    <2> HIDE DEF Powers
    <2> QED
      BY <1>6, <2>1
  <1>8. /\ DOMAIN PowerOf2 = 0 .. LongBits /\ PowerOf2[0] = 1
        /\ \A k \in 1 .. LongBits : PowerOf2[k] = 2 * PowerOf2[k - 1]
    BY <1>0, <1>4, <1>7
  <1>9. \A k \in 0 .. LongBits : PowerOf2[k] \in Nat
    <2> DEFINE Reached == {k \in Nat : PowerOf2[k] \in Nat}
    <2>1. 0 \in Reached
      BY <1>8
    <2>2. \A k \in 1 .. LongBits : k - 1 \in Reached => k \in Reached
      BY <1>8
    <2>3. \A k \in 0 .. LongBits : k \in Reached
      <3> HIDE DEF Reached
      <3> QED
        BY <1>0, <2>1, <2>2, UpTo
    <2> QED
      BY <2>3
  <1>10. PowerOf2 = [k \in 0 .. LongBits |-> PowerOf2[k]]
    BY <1>7
  <1> QED
    BY <1>8, <1>9, <1>10

\* They are positive.
LEMMA PowerPositive ==
  \A k \in 0 .. LongBits : PowerOf2[k] \in Nat \ {0}
  <1> DEFINE Reached == {k \in Nat : PowerOf2[k] # 0}
  <1>0. LongBits \in Nat
    BY SizeAssumption DEF SizeAssumption
  <1>1. 0 \in Reached
    BY PowersMean
  <1>2. \A k \in 1 .. LongBits : k - 1 \in Reached => k \in Reached
    <2> SUFFICES ASSUME NEW k \in 1 .. LongBits, PowerOf2[k - 1] # 0
                 PROVE  PowerOf2[k] # 0
      BY <1>0
    <2>1. k - 1 \in 0 .. LongBits
      BY <1>0
    <2>2. PICK a \in Nat : a = PowerOf2[k - 1]
      BY <2>1, PowersMean
    <2>3. PowerOf2[k] = 2 * a
      BY <2>2, PowersMean
    <2> QED
      BY <2>2, <2>3
  <1>3. \A k \in 0 .. LongBits : k \in Reached
    <2> HIDE DEF Reached
    <2> QED
      BY <1>0, <1>1, <1>2, UpTo
  <1> QED
    BY <1>3, PowersMean

\* A power is a multiple of those that are not larger.
LEMMA PowerMultiple ==
  ASSUME NEW j \in 0 .. LongBits, NEW k \in 0 .. LongBits, j <= k
  PROVE  \E c \in Nat \ {0} : PowerOf2[k] = PowerOf2[j] * c
  <1> DEFINE Reached == {l \in Nat : j <= l => \E c \in Nat \ {0} : PowerOf2[l] = PowerOf2[j] * c}
  <1>0. LongBits \in Nat
    BY SizeAssumption DEF SizeAssumption
  <1>1. PowerOf2[j] \in Nat \ {0}
    BY PowerPositive
  <1>2. ASSUME NEW l \in Nat, l = j
        PROVE  l \in Reached
    <2>1. PowerOf2[l] = PowerOf2[j] * 1
      BY <1>1, <1>2
    <2> QED
      BY <2>1
  <1>3. 0 \in Reached
    <2>1. j = 0 \/ ~(j <= 0)
      BY <1>0
    <2> QED
      BY <1>2, <2>1
  <1>4. \A l \in 1 .. LongBits : l - 1 \in Reached => l \in Reached
    <2> SUFFICES ASSUME NEW l \in 1 .. LongBits, l - 1 \in Reached, j <= l
                 PROVE  l \in Reached
      BY <1>0
    <2>1. CASE j = l
      BY <1>0, <1>2, <2>1
    <2>2. CASE j # l
      <3>1. PICK c \in Nat \ {0} : PowerOf2[l - 1] = PowerOf2[j] * c
        BY <1>0, <2>2
      <3>2. PowerOf2[l] = 2 * PowerOf2[l - 1]
        BY PowersMean
      <3>3. PICK d \in Nat \ {0} : d = 2 * c
        OBVIOUS
      <3>4. PICK p \in Nat : p = PowerOf2[j]
        BY <1>1
      <3>5. 2 * (p * c) = p * (2 * c)
        OBVIOUS
      <3>6. PowerOf2[l] = PowerOf2[j] * d
        BY <3>1, <3>2, <3>3, <3>4, <3>5
      <3> QED
        BY <1>0, <3>6
    <2> QED
      BY <2>1, <2>2
  <1>5. k \in Reached
    <2> HIDE DEF Reached
    <2> QED
      BY <1>0, <1>3, <1>4, UpTo
  <1> QED
    BY <1>5

\* A power is an even multiple of every smaller one.
LEMMA PowerEven ==
  ASSUME NEW j \in 0 .. LongBits, NEW k \in 0 .. LongBits, j < k
  PROVE  \E c \in Nat \ {0} : PowerOf2[k] = PowerOf2[j] * (2 * c)
  <1>0. LongBits \in Nat
    BY SizeAssumption DEF SizeAssumption
  <1>1. PICK i \in 1 .. LongBits : i = j + 1 /\ i <= k /\ i \in 0 .. LongBits /\ i - 1 = j
    BY <1>0
  <1>2. PICK c \in Nat \ {0} : PowerOf2[k] = PowerOf2[i] * c
    BY <1>1, PowerMultiple
  <1>3. PowerOf2[i] = 2 * PowerOf2[j]
    BY <1>1, PowersMean
  <1>4. PICK p \in Nat : p = PowerOf2[j]
    BY PowerPositive
  <1>5. (2 * p) * c = p * (2 * c)
    OBVIOUS
  <1> QED
    BY <1>2, <1>3, <1>4, <1>5

\* Powers grow.
LEMMA PowersGrow ==
  ASSUME NEW j \in 0 .. LongBits, NEW k \in 0 .. LongBits, j <= k
  PROVE  PowerOf2[j] <= PowerOf2[k] /\ (j < k => PowerOf2[j] < PowerOf2[k])
  <1>1. PICK p \in Nat \ {0}, q \in Nat \ {0} : p = PowerOf2[j] /\ q = PowerOf2[k]
    BY PowerPositive
  <1>2. PICK c \in Nat \ {0} : q = p * c
    BY <1>1, PowerMultiple
  <1>3. p * c >= p
    OBVIOUS
  <1>4. ASSUME j < k PROVE p < q
    <2>1. PICK d \in Nat \ {0} : q = p * (2 * d)
      BY <1>1, <1>4, PowerEven
    <2>2. p * (2 * d) >= p + p
      <3>1. p * (d - 1) >= 0
        OBVIOUS
      <3>2. p * (2 * d) = 2 * (p * (d - 1)) + 2 * p
        OBVIOUS
      <3> QED
        BY <3>1, <3>2
    <2> QED
      BY <2>1, <2>2
  <1> QED
    BY <1>1, <1>2, <1>3, <1>4

\* A number lies between two powers.
LEMMA PowersAround ==
  ASSUME NEW n \in 1 .. (PowerOf2[LongBits] - 1)
  PROVE  \E k \in 0 .. (LongBits - 1) : PowerOf2[k] <= n /\ n < PowerOf2[k + 1]
  <1>0. LongBits \in Nat /\ PowerOf2[LongBits] \in Nat
    BY SizeAssumption, PowerPositive DEF SizeAssumption
  <1> DEFINE Above == {k \in 0 .. LongBits : n < PowerOf2[k]}
  <1>1. LongBits \in Above
    BY <1>0
  <1>2. PICK k \in Above : \A l \in Above : k <= l
    <2>1. Above \in SUBSET Nat
      BY <1>0
    <2> HIDE DEF Above
    <2> QED
      BY <1>1, <2>1, LeastNumber
  <1>3. k # 0
    BY <1>0, PowersMean
  <1>4. PICK l \in 0 .. (LongBits - 1) : l = k - 1 /\ l + 1 = k /\ l \in 0 .. LongBits
    BY <1>0, <1>3
  <1>5. ~(n < PowerOf2[l])
    BY <1>0, <1>2, <1>4
  <1>6. PowerOf2[l] \in Nat /\ n \in Nat
    BY <1>0, <1>4, PowerPositive
  <1> QED
    BY <1>2, <1>4, <1>5, <1>6

-----------------------------------------------------------------------------
(* Bits                                                                    *)

\* A bit is the parity of a quotient.
LEMMA BitIs ==
  ASSUME NEW k \in 0 .. LongBits, NEW q \in Nat, NEW r \in 0 .. (PowerOf2[k] - 1), NEW n \in Nat,
         n = PowerOf2[k] * q + r
  PROVE  Bit(n, k) = q % 2
  <1>1. PICK p \in Nat \ {0} : p = PowerOf2[k]
    BY PowerPositive
  <1>2. n \div p = q
    BY <1>1, QuotientIs
  <1> QED
    BY <1>1, <1>2 DEF Bit

\* A number below a power of two has no bit there.
LEMMA BitBelow ==
  ASSUME NEW k \in 0 .. LongBits, NEW n \in Nat, n < PowerOf2[k]
  PROVE  Bit(n, k) = 0
  <1>1. PowerOf2[k] \in Nat
    BY PowerPositive
  <1>2. n \in 0 .. (PowerOf2[k] - 1) /\ n = PowerOf2[k] * 0 + n
    BY <1>1
  <1>3. Bit(n, k) = 0 % 2
    BY <1>2, BitIs
  <1> QED
    BY <1>3

\* Between two powers of two it has the bit of the smaller one.
LEMMA BitTop ==
  ASSUME NEW k \in 0 .. (LongBits - 1), NEW n \in Nat, PowerOf2[k] <= n, n < PowerOf2[k + 1]
  PROVE  Bit(n, k) = 1
  <1>1. LongBits \in Nat /\ k \in 0 .. LongBits /\ k + 1 \in 1 .. LongBits /\ (k + 1) - 1 = k
    BY SizeAssumption DEF SizeAssumption
  <1>2. PowerOf2[k] \in Nat /\ PowerOf2[k + 1] = 2 * PowerOf2[k]
    BY <1>1, PowerPositive, PowersMean
  <1>3. PICK r \in 0 .. (PowerOf2[k] - 1) : n = PowerOf2[k] * 1 + r
    <2>1. n - PowerOf2[k] \in 0 .. (PowerOf2[k] - 1)
      BY <1>2
    <2> QED
      BY <1>2, <2>1
  <1>4. Bit(n, k) = 1 % 2
    BY <1>1, <1>3, BitIs
  <1> QED
    BY <1>4

\* A power of two has one bit.
LEMMA BitOfPower ==
  ASSUME NEW k \in 0 .. LongBits, NEW j \in 0 .. LongBits
  PROVE  Bit(PowerOf2[k], j) = IF j = k THEN 1 ELSE 0
  <1>0. LongBits \in Nat
    BY SizeAssumption DEF SizeAssumption
  <1>1. PICK p \in Nat \ {0}, n \in Nat : p = PowerOf2[j] /\ n = PowerOf2[k]
    BY PowerPositive
  <1>2. 0 \in 0 .. (p - 1)
    OBVIOUS
  <1>3. CASE j < k
    <2>1. PICK c \in Nat : n = p * (2 * c)
      BY <1>1, <1>3, PowerEven
    <2>2. PICK q \in Nat : q = 2 * c /\ q % 2 = 0
      OBVIOUS
    <2>3. n = PowerOf2[j] * q + 0
      BY <1>1, <2>1, <2>2
    <2>4. Bit(n, j) = q % 2
      BY <1>1, <1>2, <2>3, BitIs
    <2> QED
      BY <1>0, <1>1, <1>3, <2>2, <2>4
  <1>4. CASE j = k
    <2>1. n = PowerOf2[j] * 1 + 0
      BY <1>1, <1>4
    <2>2. Bit(n, j) = 1 % 2
      BY <1>1, <1>2, <2>1, BitIs
    <2> QED
      BY <1>1, <1>4, <2>2
  <1>5. CASE k < j
    <2>1. n < PowerOf2[j]
      BY <1>1, <1>5, PowersGrow
    <2> QED
      BY <1>0, <1>1, <1>5, <2>1, BitBelow
  <1> QED
    BY <1>0, <1>3, <1>4, <1>5

\* The number before a power of two has all bits below it.
LEMMA BitOfOnes ==
  ASSUME NEW k \in 0 .. LongBits, NEW j \in 0 .. LongBits
  PROVE  Bit(PowerOf2[k] - 1, j) = IF j < k THEN 1 ELSE 0
  <1>0. LongBits \in Nat
    BY SizeAssumption DEF SizeAssumption
  <1>1. PICK p \in Nat \ {0}, n \in Nat : p = PowerOf2[j] /\ n = PowerOf2[k] - 1
    BY PowerPositive
  <1>2. CASE j < k
    <2>1. PICK c \in Nat \ {0} : PowerOf2[k] = p * (2 * c)
      BY <1>1, <1>2, PowerEven
    <2>2. PICK q \in Nat : q = 2 * c - 1 /\ q % 2 = 1
      OBVIOUS
    <2>3. p * (2 * c) = p * q + p
      BY <2>2
    <2>4. PICK r \in 0 .. (p - 1) : r = p - 1
      OBVIOUS
    <2>5. n = p * q + r
      BY <1>1, <2>1, <2>3, <2>4
    <2>6. Bit(n, j) = q % 2
      BY <1>1, <2>5, BitIs
    <2> QED
      BY <1>1, <1>2, <2>2, <2>6
  <1>3. CASE k <= j
    <2>1. PowerOf2[k] <= p /\ PowerOf2[k] \in Nat
      BY <1>1, <1>3, PowersGrow, PowerPositive
    <2>2. Bit(n, j) = 0
      BY <1>1, <2>1, BitBelow
    <2> QED
      BY <1>0, <1>1, <1>3, <2>2
  <1> QED
    BY <1>0, <1>2, <1>3

\* A number is even or odd.
LEMMA Halves ==
  ASSUME NEW n \in Nat
  PROVE  \E a \in Nat, b \in 0 .. 1 : n = 2 * a + b /\ n % 2 = b
  <1>1. PICK a \in Nat, b \in 0 .. 1 : n = 2 * a + b
    <2>1. n \div 2 \in Nat /\ n % 2 \in 0 .. 1 /\ n = 2 * (n \div 2) + (n % 2)
      OBVIOUS
    <2> QED
      BY <2>1
  <1>2. (2 * a + b) % 2 = b
    OBVIOUS
  <1> QED
    BY <1>1, <1>2

\* One bit more of a number.
LEMMA LowBits ==
  ASSUME NEW n \in Nat, NEW k \in 0 .. (LongBits - 1)
  PROVE  /\ n % PowerOf2[k] \in Nat
         /\ n % PowerOf2[k + 1] = (n % PowerOf2[k]) + (IF Bit(n, k) = 1 THEN PowerOf2[k] ELSE 0)
  <1>1. LongBits \in Nat /\ k \in 0 .. LongBits /\ k + 1 \in 1 .. LongBits /\ (k + 1) - 1 = k
    BY SizeAssumption DEF SizeAssumption
  <1>2. PICK p \in Nat \ {0} : p = PowerOf2[k] /\ PowerOf2[k + 1] = 2 * p
    BY <1>1, PowerPositive, PowersMean
  <1>3. PICK q \in Nat, r \in 0 .. (p - 1) : n = p * q + r /\ n % p = r
    BY QuotientRemainder
  <1>4. Bit(n, k) = q % 2
    <2>1. r \in 0 .. (PowerOf2[k] - 1) /\ n = PowerOf2[k] * q + r
      BY <1>2, <1>3
    <2> QED
      BY <1>1, <2>1, BitIs
  <1>5. PICK a \in Nat, b \in 0 .. 1 : q = 2 * a + b /\ q % 2 = b
    BY Halves
  <1>6. PICK s \in Nat : s = IF b = 1 THEN p + r ELSE r
    OBVIOUS
  <1>7. n = (2 * p) * a + s
    <2>1. p * q = (2 * p) * a + p * b
      BY <1>5
    <2>2. p * b = IF b = 1 THEN p ELSE 0
      OBVIOUS
    <2> QED
      BY <1>3, <1>6, <2>1, <2>2
  <1>8. s \in 0 .. (2 * p - 1) /\ 2 * p \in Nat \ {0}
    BY <1>6
  <1>9. n % (2 * p) = s
    <2>1. PICK m \in Nat \ {0} : m = 2 * p
      BY <1>8
    <2>2. n = m * a + s /\ s \in 0 .. (m - 1)
      BY <1>7, <1>8, <2>1
    <2>3. n % m = s
      BY <2>2, RemainderIs
    <2> QED
      BY <2>1, <2>3
  <1> QED
    BY <1>2, <1>3, <1>4, <1>5, <1>6, <1>9

-----------------------------------------------------------------------------
(* The conjunction of two words                                            *)

\* Both words have the bit.
BothHave(m, n, k) == Bit(m, k) = 1 /\ Bit(n, k) = 1

\* The conjunction as the last of its partial sums.
LEMMA AndMeans ==
  ASSUME NEW m, NEW n
  PROVE  \E f \in [0 .. LongBits -> Int] :
             /\ f[0] = 0 /\ And(m, n) = f[LongBits]
             /\ \A k \in 1 .. LongBits :
                   f[k] = f[k - 1] + (IF BothHave(m, n, k - 1) THEN PowerOf2[k - 1] ELSE 0)
  <1> DEFINE More(k) == IF BothHave(m, n, k - 1) THEN PowerOf2[k - 1] ELSE 0
             Partial(f) == f = [k \in 0 .. LongBits |-> IF k = 0 THEN 0 ELSE f[k - 1] + More(k)]
  <1>0. LongBits \in Nat
    BY SizeAssumption DEF SizeAssumption
  <1>1. \A k \in 1 .. LongBits : More(k) \in Int /\ k - 1 \in 0 .. LongBits /\ k \in 0 .. LongBits /\ k # 0
    BY <1>0, PowerPositive
  <1>2. PICK more \in [1 .. LongBits -> Int] : \A k \in 1 .. LongBits : more[k] = More(k)
    <2> HIDE DEF More
    <2>1. [k \in 1 .. LongBits |-> More(k)] \in [1 .. LongBits -> Int]
      BY <1>1
    <2> QED
      BY <2>1
  <1>3. PICK g : g = [k \in 1 .. LongBits |-> [x \in Int |-> x + more[k]]]
    OBVIOUS
  <1>4. g \in [1 .. LongBits -> [Int -> Int]]
    BY <1>3
  <1>5. PICK f \in [0 .. LongBits -> Int] : f[0] = 0 /\ \A k \in 1 .. LongBits : f[k] = g[k][f[k - 1]]
    <2>1. PICK x \in Int : x = 0
      OBVIOUS
    <2> HIDE <1>3
    <2>2. \E f \in [0 .. LongBits -> Int] : f[0] = x /\ \A k \in 1 .. LongBits : f[k] = g[k][f[k - 1]]
      BY <1>0, <1>4, IntRecursion, ZenonT(60)
    <2> QED
      BY <2>1, <2>2
  <1>6. \A k \in 1 .. LongBits : f[k] = f[k - 1] + more[k]
    BY <1>1, <1>3, <1>5
  <1>7. \A k \in 1 .. LongBits : f[k] = f[k - 1] + More(k)
    <2> HIDE DEF More
    <2> QED
      BY <1>2, <1>6
  <1>8. Partial(f)
    <2> HIDE DEF More
    <2>1. f = [k \in 0 .. LongBits |-> f[k]]
      BY <1>5
    <2>2. \A k \in 0 .. LongBits : f[k] = IF k = 0 THEN 0 ELSE f[k - 1] + More(k)
      BY <1>0, <1>5, <1>7
    <2> QED
      BY <2>1, <2>2
  <1>9. PICK h : h = CHOOSE f1 : Partial(f1)
    OBVIOUS
  <1>10. Partial(h)
    <2> HIDE DEF Partial
    <2> QED
      BY <1>8, <1>9
  <1>11. And(m, n) = h[LongBits]
    BY <1>9, Zenon DEF And, BothHave
  <1>12. h = f
    <2> HIDE DEF More
    <2> DEFINE Reached == {k \in Nat : h[k] = f[k]}
    <2>1. 0 \in Reached
      BY <1>0, <1>5, <1>10
    <2>2. \A k \in 1 .. LongBits : k - 1 \in Reached => k \in Reached
      <3>1. \A k \in 1 .. LongBits : h[k] = h[k - 1] + More(k)
        BY <1>1, <1>10
      <3> QED
        BY <1>7, <3>1
    <2>3. \A k \in 0 .. LongBits : k \in Reached
      <3> HIDE DEF Reached
      <3> QED
        BY <1>0, <2>1, <2>2, UpTo
    <2>4. h = [k \in 0 .. LongBits |-> h[k]]
      BY <1>10
    <2>5. f = [k \in 0 .. LongBits |-> f[k]]
      BY <1>5
    <2> QED
      BY <2>3, <2>4, <2>5
  <1> QED
    BY <1>5, <1>7, <1>11, <1>12

\* It is 0 if no bit is in both.
LEMMA AndZero ==
  ASSUME NEW m \in Nat, NEW n \in Nat
  PROVE  And(m, n) = 0 <=> \A k \in 0 .. (LongBits - 1) : ~BothHave(m, n, k)
  <1> DEFINE More(k) == IF BothHave(m, n, k - 1) THEN PowerOf2[k - 1] ELSE 0
  <1>0. LongBits \in Nat
    BY SizeAssumption DEF SizeAssumption
  <1>1. PICK f \in [0 .. LongBits -> Int] :
             /\ f[0] = 0 /\ And(m, n) = f[LongBits]
             /\ \A k \in 1 .. LongBits : f[k] = f[k - 1] + More(k)
    BY AndMeans
  <1>2. \A k \in 1 .. LongBits : /\ More(k) \in Nat
                                 /\ More(k) = 0 <=> ~BothHave(m, n, k - 1)
                                 /\ k - 1 \in 0 .. LongBits /\ f[k - 1] \in Int /\ f[k] \in Int
    BY <1>0, PowerPositive
  <1> HIDE DEF More
  <1>3. ASSUME \A k \in 1 .. LongBits : More(k) = 0
        PROVE  f[LongBits] = 0
    <2> DEFINE Reached == {k \in Nat : f[k] = 0}
    <2>1. 0 \in Reached /\ \A k \in 1 .. LongBits : k - 1 \in Reached => k \in Reached
      BY <1>1, <1>2, <1>3
    <2>2. \A k \in 0 .. LongBits : k \in Reached
      <3> HIDE DEF Reached
      <3> QED
        BY <1>0, <2>1, UpTo
    <2> QED
      BY <1>0, <2>2
  <1>4. ASSUME NEW l \in 1 .. LongBits, More(l) # 0
        PROVE  f[LongBits] # 0
    <2> DEFINE Reached == {k \in Nat : f[k] >= 0 /\ (l <= k => f[k] > 0)}
    <2>1. 0 \in Reached
      BY <1>1
    <2> DEFINE more == [k \in 1 .. LongBits |-> More(k)]
    <2>0. more[l] # 0 /\ \A k \in 1 .. LongBits : more[k] = More(k)
      BY <1>4
    <2> HIDE DEF more
    <2>2. \A k \in 1 .. LongBits : k - 1 \in Reached => k \in Reached
      <3> SUFFICES ASSUME NEW k \in 1 .. LongBits, f[k - 1] >= 0, l <= k - 1 => f[k - 1] > 0
                   PROVE  k \in Reached
        OBVIOUS
      <3>1. f[k] = f[k - 1] + More(k)
        BY <1>1
      <3>2. l <= k /\ ~(l <= k - 1) => l = k
        OBVIOUS
      <3>3. l = k => More(k) # 0
        BY <2>0
      <3>4. PICK a \in Int, b \in Nat : a = f[k - 1] /\ b = More(k)
        BY <1>2
      <3>5. f[k] >= 0 /\ (l <= k => f[k] > 0)
        BY <3>1, <3>2, <3>3, <3>4
      <3> QED
        BY <3>5
    <2>3. \A k \in 0 .. LongBits : k \in Reached
      <3> HIDE DEF Reached
      <3> QED
        BY <1>0, <2>1, <2>2, UpTo
    <2> QED
      BY <1>0, <2>3
  <1>5. (\A k \in 1 .. LongBits : More(k) = 0) <=> \A k \in 0 .. (LongBits - 1) : ~BothHave(m, n, k)
    <2>1. \A k \in 0 .. (LongBits - 1) : k + 1 \in 1 .. LongBits /\ (k + 1) - 1 = k
      BY <1>0
    <2>2. \A k \in 1 .. LongBits : k - 1 \in 0 .. (LongBits - 1)
      BY <1>0
    <2> QED
      BY <1>2, <2>1, <2>2
  <1> QED
    BY <1>1, <1>3, <1>4, <1>5

\* The conjunction with the number before a power of two is the remainder.
LEMMA AndOnes ==
  ASSUME NEW n \in Nat, NEW k \in 0 .. LongBits, n < PowerOf2[LongBits]
  PROVE  And(n, PowerOf2[k] - 1) = n % PowerOf2[k]
  <1> DEFINE ones == PowerOf2[k] - 1
  <1>0. LongBits \in Nat
    BY SizeAssumption DEF SizeAssumption
  <1>1. PICK f \in [0 .. LongBits -> Int] :
             /\ f[0] = 0 /\ And(n, ones) = f[LongBits]
             /\ \A j \in 1 .. LongBits :
                   f[j] = f[j - 1] + (IF BothHave(n, ones, j - 1) THEN PowerOf2[j - 1] ELSE 0)
    BY AndMeans
  <1>2. ASSUME NEW j \in 1 .. LongBits
        PROVE  f[j] = f[j - 1] + (IF Bit(n, j - 1) = 1 /\ j - 1 < k THEN PowerOf2[j - 1] ELSE 0)
    <2>1. j - 1 \in 0 .. LongBits
      BY <1>0
    <2>2. Bit(ones, j - 1) = 1 <=> j - 1 < k
      BY <2>1, BitOfOnes
    <2> QED
      BY <1>1, <2>2 DEF BothHave
  <1> DEFINE want(j) == IF j <= k THEN n % PowerOf2[j] ELSE n % PowerOf2[k]
             Reached == {j \in Nat : f[j] = want(j)}
  <1>3. 0 \in Reached
    <2>1. n % 1 = 0
      OBVIOUS
    <2> QED
      BY <1>0, <1>1, <2>1, PowersMean
  <1>4. ASSUME NEW j \in 1 .. LongBits, j - 1 \in Reached
        PROVE  j \in Reached
    <2>1. PICK i \in 0 .. (LongBits - 1) : i = j - 1 /\ i + 1 = j
      BY <1>0
    <2>2. f[j] = want(i) + (IF Bit(n, i) = 1 /\ i < k THEN PowerOf2[i] ELSE 0)
      BY <1>2, <1>4, <2>1
    <2>3. n % PowerOf2[k] \in Nat
      <3>1. PICK p \in Nat \ {0} : p = PowerOf2[k]
        BY PowerPositive
      <3> QED
        BY <3>1
    <2>4. CASE i < k
      <3>1. n % PowerOf2[j] = (n % PowerOf2[i]) + (IF Bit(n, i) = 1 THEN PowerOf2[i] ELSE 0)
        BY <2>1, LowBits
      <3>2. want(i) = n % PowerOf2[i]
        BY <1>0, <2>1, <2>4
      <3>3. want(j) = n % PowerOf2[j]
        BY <1>0, <2>1, <2>4
      <3> HIDE DEF want
      <3>4. f[j] = want(j)
        BY <2>2, <2>4, <3>1, <3>2, <3>3
      <3> QED
        BY <1>0, <3>4
    <2>5. CASE ~(i < k)
      <3>1. want(i) = n % PowerOf2[k] /\ want(j) = n % PowerOf2[k]
        BY <1>0, <2>1, <2>5, SMTT(30)
      <3> HIDE DEF want
      <3> QED
        BY <1>0, <2>2, <2>3, <2>5, <3>1
    <2> QED
      BY <2>4, <2>5
  <1>5. \A j \in 0 .. LongBits : j \in Reached
    <2> HIDE DEF Reached
    <2> QED
      BY <1>0, <1>3, <1>4, UpTo
  <1>6. want(LongBits) = n % PowerOf2[k]
    BY <1>0
  <1> QED
    BY <1>0, <1>1, <1>5, <1>6

-----------------------------------------------------------------------------
(* The size                                                                *)

\* n & (n - 1) is 0 for powers of two only.
LEMMA PowerTest ==
  ASSUME NEW k \in 0 .. (LongBits - 1), NEW n \in Nat, PowerOf2[k] <= n, n < PowerOf2[k + 1]
  PROVE  WithoutLowest(n) = 0 <=> n = PowerOf2[k]
  <1>0. LongBits \in Nat /\ k \in 0 .. LongBits /\ k + 1 \in 0 .. LongBits
    BY SizeAssumption DEF SizeAssumption
  <1>1. PICK m \in Nat : m = n - 1 /\ m < n
    BY <1>0, PowerPositive
  <1>2. WithoutLowest(n) = And(n, m)
    <2>1. PICK p \in Nat \ {0} : p = PowerOf2[LongBits]
      BY <1>0, PowerPositive
    <2>2. PowerOf2[k + 1] <= p /\ PowerOf2[k + 1] \in Nat
      BY <1>0, <2>1, PowersGrow, PowerPositive
    <2>3. m \in 0 .. (p - 1) /\ m = p * 0 + m
      BY <1>1, <2>1, <2>2
    <2>4. m % p = m
      BY <2>3, RemainderIs
    <2> QED
      BY <1>1, <2>1, <2>4 DEF WithoutLowest
  <1>3. CASE n = PowerOf2[k]
    <2>1. \A j \in 0 .. (LongBits - 1) : ~BothHave(n, m, j)
      <3> SUFFICES ASSUME NEW j \in 0 .. (LongBits - 1)
                   PROVE  ~BothHave(n, m, j)
        OBVIOUS
      <3>1. j \in 0 .. LongBits
        BY <1>0
      <3>2. CASE j = k
        <4>1. Bit(m, j) = 0
          BY <1>1, <1>3, <3>1, <3>2, BitBelow
        <4> QED
          BY <4>1 DEF BothHave
      <3>3. CASE j # k
        <4>1. Bit(n, j) = 0
          BY <1>0, <1>3, <3>1, <3>3, BitOfPower
        <4> QED
          BY <4>1 DEF BothHave
      <3> QED
        BY <3>2, <3>3
    <2> QED
      BY <1>1, <1>2, <1>3, <2>1, AndZero
  <1>4. CASE n # PowerOf2[k]
    <2>1. PowerOf2[k] \in Nat /\ PowerOf2[k + 1] \in Nat
      BY <1>0, PowerPositive
    <2>2. PowerOf2[k] <= m /\ m < PowerOf2[k + 1]
      BY <1>1, <1>4, <2>1
    <2>3. BothHave(n, m, k)
      BY <1>1, <2>2, BitTop DEF BothHave
    <2> QED
      BY <1>1, <1>2, <1>4, <2>3, AndZero
  <1> QED
    BY <1>3, <1>4

\* The loop finds the highest bit.
LEMMA TopBitIs ==
  ASSUME NEW k \in 0 .. (LongBits - 1), NEW n \in Nat, PowerOf2[k] <= n, n < PowerOf2[k + 1]
  PROVE  TopBit(n) = k
  <1> DEFINE Top(l) == /\ And(PowerOf2[l], n) # 0
                       /\ \A j \in l + 1 .. LongBits - 1 : And(PowerOf2[j], n) = 0
  <1>0. LongBits \in Nat /\ k \in 0 .. LongBits /\ k + 1 \in 0 .. LongBits
    BY SizeAssumption DEF SizeAssumption
  <1>1. ASSUME NEW j \in 0 .. (LongBits - 1)
        PROVE  And(PowerOf2[j], n) = 0 <=> Bit(n, j) # 1
    <2>1. j \in 0 .. LongBits /\ PowerOf2[j] \in Nat
      BY <1>0, PowerPositive
    <2>2. \A i \in 0 .. (LongBits - 1) : Bit(PowerOf2[j], i) = 1 <=> i = j
      <3>1. \A i \in 0 .. (LongBits - 1) : i \in 0 .. LongBits
        BY <1>0
      <3> QED
        BY <2>1, <3>1, BitOfPower
    <2>3. \A i \in 0 .. (LongBits - 1) : BothHave(PowerOf2[j], n, i) <=> i = j /\ Bit(n, j) = 1
      BY <2>2 DEF BothHave
    <2>4. And(PowerOf2[j], n) = 0 <=> \A i \in 0 .. (LongBits - 1) : ~BothHave(PowerOf2[j], n, i)
      BY <2>1, AndZero
    <2> QED
      BY <2>3, <2>4
  <1>2. Bit(n, k) = 1
    BY BitTop
  <1>3. \A j \in k + 1 .. LongBits - 1 : j \in 0 .. (LongBits - 1) /\ Bit(n, j) = 0
    <2> SUFFICES ASSUME NEW j \in k + 1 .. LongBits - 1
                 PROVE  j \in 0 .. (LongBits - 1) /\ Bit(n, j) = 0
      OBVIOUS
    <2>1. j \in 0 .. LongBits /\ k + 1 <= j /\ j \in 0 .. (LongBits - 1)
      BY <1>0
    <2>2. PowerOf2[k + 1] <= PowerOf2[j] /\ PowerOf2[k + 1] \in Nat /\ PowerOf2[j] \in Nat
      BY <1>0, <2>1, PowersGrow, PowerPositive
    <2>3. n < PowerOf2[j]
      BY <2>2
    <2> QED
      BY <2>1, <2>3, BitBelow
  <1>4. Top(k)
    BY <1>1, <1>2, <1>3
  <1>5. ASSUME NEW l \in 0 .. (LongBits - 1), Top(l)
        PROVE  l = k
    <2>1. Bit(n, l) = 1
      BY <1>1, <1>5
    <2>2. ~(k < l)
      <3>1. k < l => l \in k + 1 .. LongBits - 1
        BY <1>0
      <3> QED
        BY <1>3, <2>1, <3>1
    <2>3. ~(l < k)
      <3>1. l < k => k \in l + 1 .. LongBits - 1
        BY <1>0
      <3> QED
        BY <1>1, <1>2, <1>5, <3>1
    <2> QED
      BY <2>2, <2>3
  <1>6. TopBit(n) = CHOOSE l \in 0 .. LongBits - 1 : Top(l)
    BY Zenon DEF TopBit
  <1> HIDE DEF Top
  <1> QED
    BY <1>4, <1>5, <1>6

\* What x_ring_create makes of a count between two powers of two.
LEMMA SizeBetween ==
  ASSUME NEW count \in UInts, count # 0
  PROVE  \E k \in 0 .. (IntBits - 1) :
            /\ PowerOf2[k] <= count /\ count < PowerOf2[k + 1]
            /\ CreatedSize(count) = IF count = PowerOf2[k] THEN count
                                    ELSE IF k + 1 = IntBits THEN 0 ELSE PowerOf2[k + 1]
  <1>0. /\ IntBits \in Nat \ {0} /\ LongBits \in Nat /\ IntBits <= LongBits
        /\ IntBits \in 0 .. LongBits /\ LongBits \in 0 .. LongBits
    BY SizeAssumption DEF SizeAssumption
  <1>1. PICK u \in Nat \ {0}, v \in Nat \ {0} : u = PowerOf2[IntBits] /\ v = PowerOf2[LongBits] /\ u <= v
    BY <1>0, PowerPositive, PowersGrow
  <1>2. count \in Nat /\ count < u /\ count \in 1 .. (PowerOf2[LongBits] - 1)
    BY <1>1 DEF UInts
  <1>3. PICK k \in 0 .. (LongBits - 1) : PowerOf2[k] <= count /\ count < PowerOf2[k + 1]
    BY <1>2, PowersAround
  <1>4. k \in 0 .. (IntBits - 1)
    <2>1. k \in 0 .. LongBits /\ PowerOf2[k] \in Nat
      BY <1>0, PowerPositive
    <2>2. ~(IntBits <= k)
      <3>1. IntBits <= k => u <= PowerOf2[k]
        BY <1>0, <1>1, <2>1, PowersGrow
      <3> QED
        BY <1>1, <1>2, <1>3, <2>1, <3>1
    <2> QED
      BY <1>0, <2>2
  <1>5. WithoutLowest(count) = 0 <=> count = PowerOf2[k]
    BY <1>2, <1>3, PowerTest
  <1>6. CASE count = PowerOf2[k]
    BY <1>3, <1>4, <1>5, <1>6 DEF CreatedSize, is_power_of_2
  <1>7. CASE count # PowerOf2[k]
    <2>1. CreatedSize(count) = (PowerOf2[k + 1] % v) % u
      <3>1. TopBit(count) = k
        BY <1>2, <1>3, TopBitIs
      <3> QED
        BY <1>1, <1>5, <1>7, <3>1 DEF CreatedSize, is_power_of_2, roundup_power_of_two
    <2>2. k + 1 \in 0 .. LongBits /\ k + 1 <= IntBits
      BY <1>0, <1>4
    <2>3. PICK p \in Nat \ {0} : p = PowerOf2[k + 1]
      BY <2>2, PowerPositive
    <2>4. 0 % u = 0 /\ u % u = 0 /\ v % v = 0
      <3>1. u = u * 1 + 0 /\ v = v * 1 + 0 /\ 0 = u * 0 + 0 /\ 0 \in 0 .. (u - 1) /\ 0 \in 0 .. (v - 1)
        OBVIOUS
      <3> QED
        BY <3>1, RemainderIs
    <2>5. ASSUME NEW w \in Nat, p < w
          PROVE  p % w = p
      <3>1. w \in Nat \ {0} /\ p \in 0 .. (w - 1) /\ p = w * 0 + p
        BY <2>5
      <3> QED
        BY <3>1, RemainderIs
    <2>6. CASE k + 1 = IntBits
      <3>1. p = u
        BY <1>1, <2>3, <2>6
      <3>2. p = v \/ p < v
        BY <1>1, <3>1
      <3>3. (p % v) % u = 0
        BY <2>4, <2>5, <3>1, <3>2
      <3> QED
        BY <1>3, <1>4, <1>7, <2>1, <2>3, <2>6, <3>3
    <2>7. CASE k + 1 # IntBits
      <3>1. p < u
        BY <1>0, <1>1, <2>2, <2>3, <2>7, PowersGrow
      <3>2. p < v
        BY <1>1, <3>1
      <3>3. (p % v) % u = p
        BY <2>5, <3>1, <3>2
      <3> QED
        BY <1>3, <1>4, <1>7, <2>1, <2>3, <2>7, <3>3
    <2> QED
      BY <2>6, <2>7
  <1> QED
    BY <1>6, <1>7

\* No count, no entry.
LEMMA SizeOfNone == CreatedSize(0) = 0
  <1>0. LongBits \in Nat /\ IntBits \in 0 .. LongBits /\ LongBits \in 0 .. LongBits
    BY SizeAssumption DEF SizeAssumption
  <1>1. PICK u \in Nat \ {0}, v \in Nat \ {0} : u = PowerOf2[IntBits] /\ v = PowerOf2[LongBits]
    BY <1>0, PowerPositive
  <1>2. PICK m \in Nat : m = (0 - 1) % v
    OBVIOUS
  <1>3. \A k \in 0 .. (LongBits - 1) : ~BothHave(0, m, k)
    <2> SUFFICES ASSUME NEW k \in 0 .. (LongBits - 1)
                 PROVE  ~BothHave(0, m, k)
      OBVIOUS
    <2>1. k \in 0 .. LongBits /\ 0 < PowerOf2[k]
      BY <1>0, PowerPositive
    <2>2. Bit(0, k) = 0
      BY <2>1, BitBelow
    <2> QED
      BY <2>2 DEF BothHave
  <1>4. WithoutLowest(0) = 0
    <2>1. And(0, m) = 0
      BY <1>3, AndZero
    <2> QED
      BY <1>1, <1>2, <2>1 DEF WithoutLowest
  <1>5. 0 % u = 0
    OBVIOUS
  <1> QED
    BY <1>1, <1>4, <1>5 DEF CreatedSize, is_power_of_2, roundup_power_of_two

\* What SizeCovers says of one count.
LEMMA SizeOfCount ==
  ASSUME NEW count \in UInts, NEW size, size = CreatedSize(count)
  PROVE  IF count \in 1 .. PowerOf2[IntBits - 1]
         THEN /\ \E k \in 0 .. IntBits : size = PowerOf2[k]
              /\ count <= size /\ size < 2 * count
              /\ \A i \in UInts : And(i, size - 1) = i % size
         ELSE size = 0
  <1>0. /\ IntBits \in Nat \ {0} /\ LongBits \in Nat /\ IntBits <= LongBits
        /\ IntBits \in 0 .. LongBits /\ LongBits \in 0 .. LongBits /\ IntBits - 1 \in 0 .. LongBits
    BY SizeAssumption DEF SizeAssumption
  <1>1. PICK u \in Nat \ {0}, v \in Nat \ {0}, w \in Nat \ {0} :
            u = PowerOf2[IntBits] /\ v = PowerOf2[LongBits] /\ w = PowerOf2[IntBits - 1] /\ u <= v
    BY <1>0, PowerPositive, PowersGrow
  <1>2. count \in Nat /\ \A i \in UInts : i \in Nat /\ i < v
    BY <1>1 DEF UInts
  <1>3. CASE count = 0
    BY <1>3, SizeOfNone
  <1>4. CASE count # 0
    <2>1. PICK k \in 0 .. (IntBits - 1) :
             /\ PowerOf2[k] <= count /\ count < PowerOf2[k + 1]
             /\ size = IF count = PowerOf2[k] THEN count
                       ELSE IF k + 1 = IntBits THEN 0 ELSE PowerOf2[k + 1]
      BY <1>4, SizeBetween
    <2>2. k \in 0 .. LongBits /\ k + 1 \in 1 .. LongBits /\ k + 1 \in 0 .. LongBits /\ (k + 1) - 1 = k
      BY <1>0
    <2>3. PICK p \in Nat \ {0}, q \in Nat \ {0} : p = PowerOf2[k] /\ q = PowerOf2[k + 1] /\ q = 2 * p
      BY <2>2, PowerPositive, PowersMean
    <2>4. p <= w
      BY <1>0, <1>1, <2>2, <2>3, PowersGrow
    <2>5. ASSUME NEW l \in 0 .. IntBits, size = PowerOf2[l]
          PROVE  \A i \in UInts : And(i, size - 1) = i % size
      <3>1. l \in 0 .. LongBits
        BY <1>0
      <3> QED
        BY <1>1, <1>2, <2>5, <3>1, AndOnes
    <2>6. CASE count = p
      <3>1. count \in 1 .. w /\ size = PowerOf2[k] /\ k \in 0 .. IntBits /\ count <= size /\ size < 2 * count
        BY <1>0, <2>1, <2>3, <2>4, <2>6
      <3> QED
        BY <1>1, <2>5, <3>1
    <2>7. CASE count # p /\ k + 1 # IntBits
      <3>1. q <= w
        <4>1. k + 1 <= IntBits - 1
          BY <1>0, <2>7
        <4> QED
          BY <1>0, <1>1, <2>2, <2>3, <4>1, PowersGrow
      <3>2. size = PowerOf2[k + 1] /\ k + 1 \in 0 .. IntBits /\ size = q
        BY <1>0, <2>1, <2>3, <2>7
      <3>3. count \in 1 .. w /\ count <= size /\ size < 2 * count
        BY <1>2, <1>4, <2>1, <2>3, <2>7, <3>1, <3>2
      <3> QED
        BY <1>1, <2>5, <3>2, <3>3
    <2>8. CASE count # p /\ k + 1 = IntBits
      <3>1. size = 0 /\ k = IntBits - 1
        BY <1>0, <2>1, <2>3, <2>8
      <3>2. count \notin 1 .. w
        BY <1>1, <1>2, <2>1, <2>3, <2>8, <3>1
      <3> QED
        BY <1>1, <3>1, <3>2
    <2> QED
      BY <2>6, <2>7, <2>8
  <1> QED
    BY <1>1, <1>3, <1>4, SizeOfNone

\* One call of x_ring_create for a size.
SizeSpec == SizeInit /\ [][given' = given]_given

\* Whatever the widths of the two types and whatever the count: the size is
\* the least power of two that is large enough, its mask is the remainder, and
\* a count above half the range makes no ring (x_ring.c:25-54).
THEOREM SizesCover == SizeSpec => []SizeCovers
  <1>1. SizeInit => SizeCovers
    <2> SUFFICES ASSUME NEW count \in UInts, given = <<"x_ring_create", count>>
                 PROVE  SizeCovers
      BY DEF SizeInit
    <2>1. given[2] = count
      OBVIOUS
    <2>2. PICK size : size = CreatedSize(count)
      OBVIOUS
    <2> QED
      BY <2>1, <2>2, SizeOfCount DEF SizeCovers
  <1>2. SizeCovers /\ [given' = given]_given => SizeCovers'
    BY DEF SizeCovers, Given
  <1> QED
    BY <1>1, <1>2, PTL DEF SizeSpec

-----------------------------------------------------------------------------
(* All of them in Utilities                                                *)

\* What is said of calls, in the state in which one is made.
Answers == HexRoundTrip /\ AddressesRecognised /\ AdditionModulo /\ SizeCovers

\* Where none of the functions in question is called, nothing is said.
LEMMA NothingSaid ==
  /\ ~Given("strings") /\ ~Given("bytes") => HexRoundTrip
  /\ ~Given("is_str_ip") => AddressesRecognised
  /\ ~Given("ipv6_addition") => AdditionModulo
  /\ ~Given("x_ring_create") => SizeCovers
  <1> QED
    BY DEF HexRoundTrip, AddressesRecognised, AdditionModulo, SizeCovers

\* The first states of Utilities are first states of the programs it runs, and
\* of one call at most.
LEMMA UtilitiesStart ==
  UtilitiesInit => /\ PathsInit /\ FiltersInit /\ FilterInit
                   /\ StringsInit \/ (HexRoundTrip /\ AddressesRecognised)
                   /\ AdditionInit \/ AdditionModulo
                   /\ SizeInit \/ SizeCovers
  <1> SUFFICES ASSUME UtilitiesInit
               PROVE  /\ PathsInit /\ FiltersInit /\ FilterInit
                      /\ StringsInit \/ (HexRoundTrip /\ AddressesRecognised)
                      /\ AdditionInit \/ AdditionModulo
                      /\ SizeInit \/ SizeCovers
    OBVIOUS
  <1>1. PathsInit /\ FiltersInit /\ FilterInit
    BY DEF UtilitiesInit
  <1>2. \/ StringsInit \/ AdditionInit \/ SizeInit
        \/ given[1] \in {"create_path", "messages", "bpf_demo"}
    <2>1. \/ StringsInit \/ AdditionInit \/ SizeInit
          \/ given \in {<<"create_path">>, <<"messages">>, <<"bpf_demo">>}
      BY DEF UtilitiesInit
    <2>2. \A name \in {"create_path", "messages", "bpf_demo"} :
              given = <<name>> => given[1] = name
      OBVIOUS
    <2> QED
      BY <2>1, <2>2
  <1>3. StringsInit => given[1] \in {"strings", "bytes", "is_str_ip"}
    <2>1. ASSUME NEW s, NEW t, given = <<"strings", s, t>>
          PROVE  given[1] = "strings"
      BY <2>1
    <2>2. ASSUME NEW s, given = <<"bytes", s>> \/ given = <<"is_str_ip", s>>
          PROVE  given[1] \in {"bytes", "is_str_ip"}
      BY <2>2
    <2> QED
      BY <2>1, <2>2, Zenon DEF StringsInit
  <1>4. AdditionInit => given[1] = "ipv6_addition"
    BY DEF AdditionInit
  <1>5. SizeInit => given[1] = "x_ring_create"
    BY DEF SizeInit
  <1> QED
    BY <1>1, <1>2, <1>3, <1>4, <1>5, NothingSaid DEF Given

\* A step of Utilities is one of the program it runs, and of the others none.
LEMMA UtilitiesStep ==
  [UtilitiesNext]_utilityVars =>
      /\ [PathsNext]_pathVars /\ [FiltersNext]_messageVars /\ [FilterNext]_filterVars
      /\ [given' = given]_given
  <1> QED
    BY DEF UtilitiesNext, utilityVars, pathVars, messageVars, filterVars

\* What was proved of each by itself is true where Utilities runs it: of paths
\* created by any number of processes, of messages, of filtered datagrams, and
\* of every call.
THEOREM UtilitiesCorrect ==
  UtilitiesSpec => [](PathMade /\ LostRaceGrows /\ MessageJudged /\ FilteredExactly /\ Answers)
  <1>1. UtilitiesSpec => PathsSpec /\ FiltersSpec /\ FilterSpec
    BY UtilitiesStart, UtilitiesStep, PTL DEF UtilitiesSpec, PathsSpec, FiltersSpec, FilterSpec
  <1>2. Answers /\ [given' = given]_given => Answers'
    BY DEF Answers, HexRoundTrip, AddressesRecognised, AdditionModulo, SizeCovers, Given
  <1>3. UtilitiesSpec => Answers
    BY UtilitiesStart, HexKept, AddressesKnown, AddsModulo, SizesCover, UtilitiesStep, PTL
    DEF UtilitiesSpec, StringsSpec, AdditionSpec, SizeSpec, Answers
  <1>4. UtilitiesSpec => []Answers
    BY <1>2, <1>3, UtilitiesStep, PTL DEF UtilitiesSpec
  <1> QED
    BY <1>1, <1>4, PathsMade, LostRacesGrow, MessagesJudged, FilterExact, PTL
=============================================================================
