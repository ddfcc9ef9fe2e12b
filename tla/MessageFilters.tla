--------------------------- MODULE MessageFilters ---------------------------
(***************************************************************************)
(* mylog.c and debug_print.cpp: messages that are dropped or printed by    *)
(* their level, and the text of errno.  The settings, and the text that    *)
(* xstrerror returns, are static variables that no lock protects: threads  *)
(* set and read them at any time.                                          *)
(***************************************************************************)
EXTENDS Integers

CONSTANTS Logger,      \* threads
          Callback,    \* what may be given to mylog_set_log_callback
          NULL,        \* or no function
          MaxSettings, \* bound: calls that set something
          MaxCalls     \* bound: calls that are begun

\* How a call to mylog_log ends that calls none.
Outcomes == {"none", "dropped", "stderr", "crashed"}

ASSUME FiltersAssumption == NULL \notin Callback /\ Callback \cap Outcomes = {}

Severities  == 0 .. 3   \* MYLOG_LOG_DEBUG to MYLOG_LOG_ERR
DebugLevels == 1 .. 5   \* DEBUG_LEVEL_FATAL to DEBUG_LEVEL_DEBUG
Errnos      == {"ENOENT", "EINTR"}

VARIABLES
    log_fn, g_mylog_level, debug_level, xstrerror_buf,
    call,      \* what each thread calls, or has called last
    settings,  \* calls that set something
    begun      \* calls begun

staticVars  == <<log_fn, g_mylog_level, debug_level>>
messageVars == <<staticVars, xstrerror_buf, call, settings, begun>>

\* A call: its function and argument, how far it is, the log_fn it has read,
\* and its outcome.  As history, the settings that were in force since it
\* began, and whether the same function was called by another meanwhile.
NoCall == [name |-> "none", arg |-> 0, at |-> "end", fn |-> NULL, result |-> "none",
           fns |-> {}, levels |-> {}, shared |-> FALSE]

Alive        == \A t \in Logger : call[t].result # "crashed"
At(t, n, l)  == Alive /\ call[t].name = n /\ call[t].at = l
InCall       == {t \in Logger : call[t].at # "end"}
Finish(t, r) == call' = [call EXCEPT ![t].at = "end", ![t].result = r]

-----------------------------------------------------------------------------
(* A call begins                                                           *)

Level(name) == IF name = "mylog_loging" THEN g_mylog_level ELSE debug_level

Begin(t, name, arg) ==
    /\ Alive /\ t \notin InCall /\ begun < MaxCalls
    /\ begun' = begun + 1
    /\ call' = [u \in Logger |->
          IF u = t
          THEN [NoCall EXCEPT !.name = name, !.arg = arg, !.at = "begun",
                              !.fns = {log_fn}, !.levels = {Level(name)},
                              !.shared = \E v \in InCall : call[v].name = name]
          ELSE [call[u] EXCEPT !.shared = @ \/ (u \in InCall /\ call[u].name = name)]]
    /\ UNCHANGED <<staticVars, xstrerror_buf, settings>>

(* mylog_log, after the message is formatted                               *)

\* Mutant of Dropped: a message of the level that is set is dropped.
DroppedToo(severity) == severity <= g_mylog_level

Dropped(severity) == severity < g_mylog_level

\* The level, and then whether there is a callback.
MylogDrop(t) ==
    /\ At(t, "mylog_loging", "begun") /\ Dropped(call[t].arg)
    /\ Finish(t, "dropped")
    /\ UNCHANGED <<staticVars, xstrerror_buf, settings, begun>>

MylogPass(t) ==
    /\ At(t, "mylog_loging", "begun") /\ ~Dropped(call[t].arg)
    /\ call' = [call EXCEPT ![t].at = "passed"]
    /\ UNCHANGED <<staticVars, xstrerror_buf, settings, begun>>

MylogTest(t) ==
    /\ At(t, "mylog_loging", "passed")
    /\ IF log_fn = NULL THEN Finish(t, "stderr")
       ELSE call' = [call EXCEPT ![t].at = "tested", ![t].fn = log_fn]
    /\ UNCHANGED <<staticVars, xstrerror_buf, settings, begun>>

\* The build calls what was tested, or reads log_fn again.
MylogCall(t) ==
    /\ At(t, "mylog_loging", "tested")
    /\ \E f \in {call[t].fn, log_fn} : Finish(t, IF f = NULL THEN "crashed" ELSE f)
    /\ UNCHANGED <<staticVars, xstrerror_buf, settings, begun>>

DbgPrint(t) ==
    /\ At(t, "dbg_print", "begun")
    /\ Finish(t, IF call[t].arg > debug_level THEN "dropped" ELSE "printed")
    /\ UNCHANGED <<staticVars, xstrerror_buf, settings, begun>>

(* xstrerror: the text is written, and then read by the caller.            *)

XstrerrorWrite(t) ==
    /\ At(t, "xstrerror", "begun")
    /\ xstrerror_buf' = call[t].arg
    /\ call' = [call EXCEPT ![t].at = "written"]
    /\ UNCHANGED <<staticVars, settings, begun>>

XstrerrorRead(t) ==
    /\ At(t, "xstrerror", "written")
    /\ Finish(t, xstrerror_buf)
    /\ UNCHANGED <<staticVars, xstrerror_buf, settings, begun>>

(* What is set is in force for the calls that are under way, too.          *)

Seen(fns, levels, names) ==
    call' = [u \in Logger |->
               IF u \notin InCall \/ call[u].name \notin names THEN call[u]
               ELSE [call[u] EXCEPT !.fns = @ \cup fns, !.levels = @ \cup levels]]

Set ==
    /\ Alive /\ settings < MaxSettings
    /\ settings' = settings + 1
    /\ UNCHANGED <<xstrerror_buf, begun>>

mylog_set_log_callback(cb) ==
    /\ Set
    /\ log_fn' = cb
    /\ Seen({cb}, {}, {"mylog_loging"})
    /\ UNCHANGED <<g_mylog_level, debug_level>>

mylog_set_log_level(level) ==
    /\ Set
    /\ g_mylog_level' = level
    /\ Seen({}, {level}, {"mylog_loging"})
    /\ UNCHANGED <<log_fn, debug_level>>

\* A level that is none is refused with -1.
dbg_level_set(level) ==
    /\ Set
    /\ IF level \in DebugLevels
       THEN debug_level' = level /\ Seen({}, {level}, {"dbg_print"})
       ELSE UNCHANGED <<debug_level, call>>
    /\ UNCHANGED <<log_fn, g_mylog_level>>

FiltersInit ==
    /\ log_fn = NULL /\ g_mylog_level = 0 /\ debug_level = 5 /\ xstrerror_buf = ""
    /\ call = [t \in Logger |-> NoCall]
    /\ settings = 0 /\ begun = 0

FiltersNext ==
    \/ \E t \in Logger :
          \/ \E arg \in Severities  : Begin(t, "mylog_loging", arg)
          \/ \E arg \in DebugLevels : Begin(t, "dbg_print", arg)
          \/ \E arg \in Errnos      : Begin(t, "xstrerror", arg)
          \/ MylogDrop(t) \/ MylogPass(t) \/ MylogTest(t) \/ MylogCall(t)
          \/ DbgPrint(t) \/ XstrerrorWrite(t) \/ XstrerrorRead(t)
    \/ \E cb \in Callback \cup {NULL} : mylog_set_log_callback(cb)
    \/ \E level \in Severities : mylog_set_log_level(level)
    \/ \E level \in DebugLevels \cup {0, 6} : dbg_level_set(level)

-----------------------------------------------------------------------------
(* Properties                                                              *)

\* However setters and calls interleave, a message is judged by a level, and
\* goes to a function, that were in force during its call: it is dropped only
\* if it was below such a level, and a callback that was taken away before
\* is not called.  NULL is called only if the callback is taken away during
\* the call.  A fatal message is printed whatever dbg_level_set was given.
\* The text of xstrerror is that of the caller's errno if no other thread
\* called it meanwhile (mylog.c:71-75, debug_print.cpp:14-27, 41-52).
MessageJudged ==
    \A t \in Logger \ InCall :
        LET c == call[t]
        IN  /\ c.name = "mylog_loging" =>
                  /\ \E level \in c.levels : c.result = "dropped" <=> c.arg < level
                  /\ c.result \in Callback => c.result \in c.fns
                  /\ c.result = "stderr" => NULL \in c.fns
                  /\ c.result = "crashed" => NULL \in c.fns /\ c.fns \cap Callback # {}
            /\ c.name = "dbg_print" =>
                  /\ \E level \in c.levels : c.result = "dropped" <=> c.arg > level
                  /\ c.arg = 1 => c.result = "printed"
            /\ c.name = "xstrerror" /\ ~c.shared => c.result = c.arg
=============================================================================
