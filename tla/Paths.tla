------------------------------- MODULE Paths --------------------------------
(***************************************************************************)
(* create_path of linux_utils.c: processes that create the directories of  *)
(* a path, part by part, in one file system.  One action per system call:  *)
(* lstat and mkdir.                                                        *)
(***************************************************************************)
EXTENDS Integers, Sequences, SequencesExt

CONSTANTS Process,   \* callers of create_path
          Name,      \* names of files
          Depth      \* bound: parts of a path

ASSUME PathsAssumption == Depth \in Nat

Path == UNION {[1 .. n -> Name] : n \in 1 .. Depth}

VARIABLES
    kind,     \* what is at each path: nothing, a directory, or something
              \* lstat tells from one (a file, a symbolic link)
    pc,       \* where each process is in create_path
    path,     \* the path it was called with
    upto,     \* the parts up to the '/' that was replaced by '\0'
    ret,      \* what its last call returned
    refused,  \* history: the system refused a mkdir for its own reasons
    before    \* history: the directories when it was called

pathVars == <<kind, pc, path, upto, ret, refused, before>>

Kinds == {"none", "dir", "other"}
Dirs  == {x \in Path : kind[x] = "dir"}
Parts(x) == {SubSeq(x, 1, n) : n \in 1 .. Len(x)}
ParentIsDir(x) == Len(x) > 1 => kind[Front(x)] = "dir"

\* A string of PATH_MAX characters or more, or without a leading '/'.
create_path_rejects(p) ==
    /\ pc[p] = "idle"
    /\ ret' = [ret EXCEPT ![p] = -1]
    /\ path' = [path EXCEPT ![p] = << >>]
    /\ UNCHANGED <<kind, pc, upto, refused, before>>

\* Nothing but '/', or nothing at all.
create_path_root(p) ==
    /\ pc[p] = "idle"
    /\ ret' = [ret EXCEPT ![p] = 0]
    /\ path' = [path EXCEPT ![p] = << >>]
    /\ UNCHANGED <<kind, pc, upto, refused, before>>

create_path(p, x) ==
    /\ pc[p] = "idle"
    /\ path' = [path EXCEPT ![p] = x]
    /\ upto' = [upto EXCEPT ![p] = 1]
    /\ pc' = [pc EXCEPT ![p] = "is_dir"]
    /\ refused' = [refused EXCEPT ![p] = FALSE]
    /\ before' = [before EXCEPT ![p] = Dirs]
    /\ UNCHANGED <<kind, ret>>

Buf(p) == SubSeq(path[p], 1, upto[p])

\* p++ behind the '/'; there is none behind the last part.
NextPart(p) ==
    /\ IF upto[p] = Len(path[p])
       THEN /\ pc' = [pc EXCEPT ![p] = "idle"]
            /\ ret' = [ret EXCEPT ![p] = 0]
            /\ UNCHANGED upto
       ELSE /\ pc' = [pc EXCEPT ![p] = "is_dir"]
            /\ upto' = [upto EXCEPT ![p] = @ + 1]
            /\ UNCHANGED ret
    /\ UNCHANGED <<path, refused, before>>

\* Mutant of is_dir: whatever exists is good enough.
is_dir_exists(x) == kind[x] # "none"

\* Another: nothing is looked up before mkdir.
is_dir_never(x) == FALSE

\* lstat succeeds and finds a directory.
is_dir(x) == kind[x] = "dir"

FindsDir(p) ==
    /\ pc[p] = "is_dir" /\ is_dir(Buf(p))
    /\ NextPart(p)
    /\ UNCHANGED kind

FindsNoDir(p) ==
    /\ pc[p] = "is_dir" /\ ~is_dir(Buf(p))
    /\ pc' = [pc EXCEPT ![p] = "mkdir"]
    /\ UNCHANGED <<kind, path, upto, ret, refused, before>>

MkdirPossible(x) == kind[x] = "none" /\ ParentIsDir(x)

Mkdir(p) ==
    /\ pc[p] = "mkdir" /\ MkdirPossible(Buf(p))
    /\ kind' = [kind EXCEPT ![Buf(p)] = "dir"]
    /\ NextPart(p)

\* mkdir fails: there is something already, or the system refuses (rights,
\* space, a file system that cannot be written), which it may always do.
MkdirFails(p) ==
    /\ pc[p] = "mkdir"
    /\ pc' = [pc EXCEPT ![p] = "idle"]
    /\ ret' = [ret EXCEPT ![p] = -1]
    /\ refused' = [refused EXCEPT ![p] = MkdirPossible(Buf(p))]
    /\ UNCHANGED <<kind, path, upto, before>>

\* Any tree; only directories have something below them.
PathsInit ==
    /\ kind \in {k \in [Path -> Kinds] :
                   \A x \in Path : Len(x) > 1 /\ k[x] # "none" => k[Front(x)] = "dir"}
    /\ pc = [p \in Process |-> "idle"]
    /\ path = [p \in Process |-> << >>]
    /\ upto = [p \in Process |-> 0]
    /\ ret = [p \in Process |-> 0]
    /\ refused = [p \in Process |-> FALSE]
    /\ before = [p \in Process |-> {}]

PathsNext ==
    \E p \in Process :
        \/ create_path_rejects(p) \/ create_path_root(p)
        \/ \E x \in Path : create_path(p, x)
        \/ FindsDir(p) \/ FindsNoDir(p) \/ Mkdir(p) \/ MkdirFails(p)

-----------------------------------------------------------------------------
(* Properties                                                              *)

Returned(p) == pc[p] = "idle" /\ path[p] # << >>

\* A call that returned 0 leaves every part of its path a directory, whoever
\* made them and however the calls were interleaved (as long as nothing is
\* removed).
PathMade ==
    \A p \in Process : Returned(p) /\ ret[p] = 0 => Parts(path[p]) \subseteq Dirs

\* A call can fail without an obstacle on its path and without a refusal of
\* the system: another process made a part between its lstat and its mkdir
\* (linux_utils.c:57-58).  But then the path has grown since the call began:
\* no call fails on a path that nobody else works on, and a call that is
\* repeated loses at most one race for each part.
LostRaceGrows ==
    \A p \in Process :
        Returned(p) /\ ret[p] = -1 /\ ~refused[p] =>
            \/ \E x \in Parts(path[p]) : kind[x] = "other"
            \/ Parts(path[p]) \cap (Dirs \ before[p]) # {}
=============================================================================
