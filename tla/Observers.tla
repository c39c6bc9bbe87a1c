----------------------------- MODULE Observers ------------------------------
(***************************************************************************)
(* What Xdebug does when a function is entered and left, when fibers       *)
(* switch and when a request ends (base/base.c, xdebug.c), for the parts   *)
(* of it that record the program: the profiler, function traces and the    *)
(* statistics of the garbage collector (gcstats/gc_stats.c).               *)
(*                                                                         *)
(* mode is the one of xdebug.mode that is on; the three share the call     *)
(* stack and nothing else.  now is the clock the engine's calls read.      *)
(***************************************************************************)
EXTENDS Profiler, Traces, FiniteSets

CONSTANTS
  MaxTime,      \* bound: how far the clock goes, in ns
  WorkTakes     \* what a piece of work between two calls takes

VARIABLES
  mode, phase, now,
  gc,           \* XG_GCSTATS: active, file and filename
  collecting,   \* the collector runs, and had been seen to start
  fibers_seen   \* history: has there been a fiber

requestVars == <<mode, phase, fibers_seen>>
gcVars == <<gc, collecting>>
vars == <<callStackVars, profilerVars, traceVars, gcVars, requestVars, now>>

Modes  == {"profile", "trace", "gcstats"}
Phases == {"scripts", "shutdown", "done"}

ASSUME ObserversAssumption == MaxTime \in Nat /\ WorkTakes \in Nat

NoGc == [active |-> FALSE, file |-> FALSE, filename |-> FALSE]

\* Nothing is started while the engine shuts down, where calls are the outermost.
AtStart == stack = <<>> /\ phase = "scripts"
Going   == phase # "done" /\ ~crashed
-----------------------------------------------------------------------------
(* Entering and leaving functions. *)

GcInit == gc' \in {gc, [active |-> TRUE, file |-> TRUE, filename |-> TRUE]}

\* The first frame of each script starts what was asked for and is not on.
ProfileEnter ==
  /\ IF AtStart THEN ProfilerInitIfRequested(now)
                ELSE UNCHANGED <<active, start_nanotime, costVars, summary>>
  /\ FunctionBegin(now)
  /\ UNCHANGED <<crashed, traceVars, gcVars>>

TraceEnter(f) ==
  /\ \E tr \in IF AtStart /\ ~trace.open
               THEN {trace, Started("text"), Started("flamegraph")} ELSE {trace} :
       CallBegins(f, tr, now)
  /\ UNCHANGED <<left_out, profilerVars, gcVars>>

GcEnter ==
  /\ IF AtStart /\ ~gc.active THEN GcInit ELSE UNCHANGED gc
  /\ UNCHANGED <<collecting, profilerVars, traceVars>>

Enter(f) ==
  /\ Going /\ MayCall(f) /\ AddStackFrame(f)
  /\ \/ mode = "profile" /\ ProfileEnter
     \/ mode = "trace" /\ TraceEnter(f)
     \/ mode = "gcstats" /\ GcEnter
  /\ UNCHANGED <<requestVars, now>>

Leave ==
  /\ Going /\ PopFrame
  /\ \/ mode = "profile" /\ EndTop(now) /\ UNCHANGED <<traceVars, gcVars>>
     \/ mode = "trace" /\ CallEnds(now) /\ UNCHANGED <<left_out, profilerVars, gcVars>>
     \/ mode = "gcstats" /\ UNCHANGED <<profilerVars, traceVars, gcVars>>
  /\ UNCHANGED <<requestVars, now>>

Work ==
  /\ Going /\ Len(stack) > 0 /\ now + WorkTakes <= MaxTime
  /\ now' = now + WorkTakes
  /\ UNCHANGED <<callStackVars, profilerVars, traceVars, gcVars, requestVars>>

\* The frames of a new vector, and none of one that is freed.
FrameData ==
  /\ IF mode = "profile"
     THEN profiles' = [g \in DOMAIN fiber_stacks' |->
                         IF g \in DOMAIN profiles THEN profiles[g] ELSE <<Cleared>>]
     ELSE UNCHANGED profiles
  /\ IF mode = "trace"
     THEN calls' = [g \in DOMAIN fiber_stacks' |->
                      IF g \in DOMAIN calls THEN calls[g]
                      ELSE <<[nanotime |-> now, filtered_tracing |-> FALSE,
                              function_call_traced |-> FALSE]>>]
     ELSE UNCHANGED calls

SwitchFiber ==
  /\ Going
  /\ \/ SuspendFiber \/ EndFiber
     \/ \E f \in Fibers : StartFiber(f) \/ ResumeFiber(f)
     \/ phase = "shutdown" /\ \E f \in Fibers : DestroyFiber(f)
  /\ FrameData
  /\ fibers_seen' = TRUE
  /\ UNCHANGED <<active, start_nanotime, costVars, summary, crashed, trace, left_out, gcVars,
                 mode, phase, now>>
-----------------------------------------------------------------------------
(* Functions the program calls; their frame is on top. *)

\* pcntl_exec(), which returns when it fails, and exit()
StopProfiling ==
  /\ Going /\ InBuiltIn /\ mode = "profile"
  /\ Deinit(now)
  /\ UNCHANGED <<callStackVars, traceVars, gcVars, requestVars, now>>

xdebug_start_trace ==
  /\ Going /\ InBuiltIn /\ mode = "trace" /\ ~trace.open
  /\ \E format \in {"text", "flamegraph"} : trace' = Started(format)
  /\ UNCHANGED <<callStackVars, profilerVars, calls, left_out, gcVars, requestVars, now>>

xdebug_stop_trace ==
  /\ Going /\ InBuiltIn /\ trace.open
  /\ trace' = Stopped
  /\ UNCHANGED <<callStackVars, profilerVars, calls, left_out, gcVars, requestVars, now>>

xdebug_set_filter ==
  /\ Going /\ InBuiltIn /\ mode = "trace"
  /\ \E type \in {"none", "include", "exclude"}, matches \in SUBSET Functions :
       left_out' = LeftOut(type, matches)
  /\ UNCHANGED <<callStackVars, profilerVars, trace, calls, gcVars, requestVars, now>>

\* A file that cannot be opened leaves it off.
xdebug_start_gcstats ==
  /\ Going /\ InBuiltIn /\ mode = "gcstats" /\ ~gc.active
  /\ GcInit
  /\ UNCHANGED <<callStackVars, profilerVars, traceVars, collecting, requestVars, now>>

\* xdebug_gc_stats_stop
GcStopped == [gc EXCEPT !.active = FALSE, !.file = FALSE]

xdebug_stop_gcstats ==
  /\ Going /\ InBuiltIn /\ gc.active
  /\ gc' = GcStopped
  /\ UNCHANGED <<callStackVars, profilerVars, traceVars, collecting, requestVars, now>>

\* xdebug_gc_collect_cycles; destructors that call any function run in between.
CollectBegins ==
  /\ Going /\ gc.active /\ ~collecting /\ Len(stack) > 0
  /\ collecting' = TRUE
  /\ UNCHANGED <<callStackVars, profilerVars, traceVars, gc, requestVars, now>>

\* The run is reported if the file is there.
CollectEnds ==
  /\ Going /\ collecting
  /\ collecting' = FALSE
  /\ UNCHANGED <<callStackVars, profilerVars, traceVars, gc, requestVars, now>>
-----------------------------------------------------------------------------
(* The end of a request. *)

ScriptsEnd ==
  /\ Going /\ phase = "scripts" /\ stack = <<>> /\ function_count >= 0
  /\ phase' = "shutdown"
  /\ UNCHANGED <<callStackVars, profilerVars, traceVars, gcVars, mode, now, fibers_seen>>

\* RSHUTDOWN stops the statistics and frees the name, and after it
\* post_deactivate ends the profile and the trace.
RequestEnds ==
  /\ Going /\ phase = "shutdown" /\ DOMAIN fiber_stacks = {MainFiber} /\ stack = <<>>
  /\ phase' = "done"
  /\ Deinit(now)
  /\ trace' = Stopped /\ UNCHANGED <<calls, left_out>>
  /\ gc' = [IF gc.active THEN GcStopped ELSE gc EXCEPT !.filename = FALSE]
  /\ UNCHANGED <<callStackVars, collecting, mode, now, fibers_seen>>
-----------------------------------------------------------------------------
Init ==
  /\ CallStackInit /\ ProfilerInitial /\ TracesInitial
  /\ mode \in Modes /\ phase = "scripts" /\ now = 0
  /\ gc = NoGc /\ collecting = FALSE /\ fibers_seen = FALSE

Next ==
  \/ (\E f \in Functions : Enter(f))
  \/ Leave \/ Work \/ SwitchFiber \/ StopProfiling
  \/ xdebug_start_trace \/ xdebug_stop_trace \/ xdebug_set_filter
  \/ xdebug_start_gcstats \/ xdebug_stop_gcstats \/ CollectBegins \/ CollectEnds
  \/ ScriptsEnd \/ RequestEnds

Spec == Init /\ [][Next]_vars
-----------------------------------------------------------------------------
\* The report is open while statistics are on, however they were stopped and
\* started, by a destructor the collector ran too, and closed with the request.
ReportIsOpen ==
  /\ gc.active = gc.file /\ (gc.file => gc.filename)
  /\ phase = "done" => ~gc.file /\ ~gc.filename

TypeOK ==
  /\ CallStackTypeOK /\ LevelsAndNumbers /\ ResumersLive
  /\ mode = "profile" => ProfilerTypeOK
  /\ mode = "trace" => TracesTypeOK
  /\ mode \in Modes /\ phase \in Phases /\ now \in 0..MaxTime
  /\ gc \in [active: BOOLEAN, file: BOOLEAN, filename: BOOLEAN] /\ collecting \in BOOLEAN
  /\ ReportIsOpen

\* What a call's callees cost is part of what it cost, so no self cost is
\* negative, whenever the profile was stopped and started again, in fibers too.
\* What is written of the calls differs from what they took by the rounding of
\* each line.  Without fibers, whose time is also that of the call which
\* resumed them, the self costs are times within that of the profile: as they
\* and the summary are rounded separately, those written may exceed the summary,
\* but by no more than half a unit a line (profiler.c:183, 251, 404, 480, 523).
ProfileAddsUp ==
  /\ active /\ ~crashed => \A f \in DOMAIN profiles : \A i \in 1..Len(profiles[f]) :
       LET p == profiles[f][i] IN
       /\ p.named => p.called <= Taken(p, now)
       /\ Rounded(p.shown, p.called, p.calls)
  /\ Rounded(written, spent, blocks)
  /\ ~fibers_seen =>
       /\ spent >= 0
       /\ active => OutermostTaken <= now - start_nanotime
       /\ summary >= 0 => 10 * written <= 10 * summary + 4 + 5 * blocks

\* Names are missing only in a fiber: for the frame it starts with, when the
\* profile is stopped there, and for calls that began while none was written
\* (profiler.c:440, base.c:1100).
CrashNeedsFiber == crashed => fibers_seen

\* The calls a text trace shows as running are those that are: each one made
\* since it was started and not filtered has its first line, and its last when
\* it has ended; other calls have at most their last (tracing.c:695-768).
TraceMatchesCalls ==
  trace.open /\ trace.format = "text" =>
    /\ LinesOf("entry") \ LinesOf("exit") = TracedCalls
    /\ \A n \in LinesOf("exit") \ LinesOf("entry") : n <= trace.since

\* In a flame graph a cost is negative only when the call took longer than an
\* int tells, or was the first, which calls made in fibers are charged to.
FlameCosts ==
  \A i \in 1..Len(trace.lines) :
    trace.lines[i].cost < 0 =>
      trace.lines[i].lasted >= Half \/ (fibers_seen /\ trace.lines[i].function_nr = 0)

\* No line of a flame graph has a negative cost, at which "flamegraph generator
\* will error" (trace_flamegraph.c:114).
NoNegativeCosts == \A i \in 1..Len(trace.lines) : trace.lines[i].cost >= 0
=============================================================================
