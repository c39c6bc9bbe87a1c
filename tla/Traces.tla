------------------------------- MODULE Traces -------------------------------
(***************************************************************************)
(* Function traces: the handlers that write a line when a call begins and  *)
(* ends (tracing/tracing.c), the flame graph handler, which writes what    *)
(* each call cost by itself (tracing/trace_flamegraph.c), and the filter   *)
(* that leaves calls out (base/filter.c).  The formats of a text trace     *)
(* differ in their wording only.  Costs are C ints of IntBits bits.        *)
(***************************************************************************)
EXTENDS CallStack

CONSTANT IntBits   \* width of an int; costs are in nanoseconds

VARIABLES
  trace,    \* what trace_context points to and the file it has written
  calls,    \* fiber -> what its frames hold for the trace
  left_out  \* the functions filter_type_tracing and filters_tracing leave out

traceVars == <<trace, calls, left_out>>

Half == 2 ^ (IntBits - 1)

\* The second part is a fact about powers that the provers do not know.
ASSUME TracesAssumption == IntBits \in Nat \ {0} /\ Half \in Nat \ {0}

ToInt(v) == ((v + Half) % (2 * Half)) - Half

(* functions: number -> the cost of the calls made by the call of this       *)
(* number; since: how many calls there had been when the trace was started.  *)
Line    == [kind: {"entry", "exit"}, function_nr: Nat, cost: Int, lasted: Int]
NoTrace == [open |-> FALSE, format |-> "text", lines |-> <<>>, functions |-> <<>>,
            since |-> -1]
CallData == [nanotime: Nat, filtered_tracing: BOOLEAN, function_call_traced: BOOLEAN]

TracesInitial ==
  /\ trace = NoTrace /\ left_out = {}
  /\ calls = [f \in {MainFiber} |-> <<>>]

\* xdebug_start_trace, when there is none: the handler is chosen and opens its file.
Started(format) ==
  [NoTrace EXCEPT !.open = TRUE, !.format = format, !.since = function_count]

\* xdebug_stop_trace: the file is closed, and what the handler kept is freed.
Stopped == NoTrace

\* What a list of paths or namespaces matches is a set of functions; the first
\* entry that matches ends the search.
LeftOut(type, matches) ==
  CASE type = "none"    -> {}
    [] type = "include" -> Functions \ matches
    [] type = "exclude" -> matches
-----------------------------------------------------------------------------
(* The handlers; n is a frame's number and parent the one below it. *)

Written(tr, line) == [tr EXCEPT !.lines = Append(@, line)]

Entry(tr, n) ==
  IF tr.format = "text"
  THEN Written(tr, [kind |-> "entry", function_nr |-> n, cost |-> 0, lasted |-> 0])
  ELSE [tr EXCEPT !.functions =
          [m \in DOMAIN @ \cup {n} |-> IF m = n THEN 0 ELSE @[m]]]

\* Faulty: every call that runs is charged, not only the one below.
FlameExitToAll(tr, n, parents, lasted) ==
  IF n \notin DOMAIN tr.functions THEN tr
  ELSE LET inclusive == ToInt(lasted)
           line == [kind |-> "exit", function_nr |-> n,
                    cost |-> ToInt(inclusive - tr.functions[n]), lasted |-> lasted]
       IN  [Written(tr, line) EXCEPT !.functions =
              [m \in DOMAIN @ \ {n} |-> ToInt(@[m] + inclusive)]]

\* parents: the frame below, if there is one and the trace knows its number
FlameExit(tr, n, parents, lasted) ==
  IF n \notin DOMAIN tr.functions THEN tr
  ELSE LET inclusive == ToInt(lasted)
           line == [kind |-> "exit", function_nr |-> n,
                    cost |-> ToInt(inclusive - tr.functions[n]), lasted |-> lasted]
       IN  [Written(tr, line) EXCEPT !.functions =
              [m \in DOMAIN @ \ {n} |->
                 IF m \in parents THEN ToInt(@[m] + inclusive) ELSE @[m]]]

Exit(tr, n, parents, lasted) ==
  IF tr.format = "text"
  THEN Written(tr, [kind |-> "exit", function_nr |-> n, cost |-> 0, lasted |-> lasted])
  ELSE FlameExit(tr, n, parents, lasted)

\* Faulty: a call the filter leaves out is entered all the same.
CallBeginsUnfiltered(f, tr, t) ==
  LET traced == tr.open IN
  /\ trace' = IF traced THEN Entry(tr, function_count') ELSE tr
  /\ calls' = [calls EXCEPT ![fiber] = Append(@,
       [nanotime |-> t, filtered_tracing |-> f \in left_out,
        function_call_traced |-> traced /\ f \in BuiltIn])]

\* The frame of f has just been pushed; tr is the trace at that time.
CallBegins(f, tr, t) ==
  LET traced == tr.open /\ f \notin left_out IN
  /\ trace' = IF traced THEN Entry(tr, function_count') ELSE tr
  /\ calls' = [calls EXCEPT ![fiber] = Append(@,
       [nanotime |-> t, filtered_tracing |-> f \in left_out,
        function_call_traced |-> traced /\ f \in BuiltIn])]

\* The top frame is about to be popped.
CallEnds(t) ==
  LET n == Len(stack)
      c == calls[fiber][n]
      parents == IF n = 1 THEN {} ELSE {stack[n - 1].function_nr}
      traced == /\ trace.open /\ ~c.filtered_tracing
                /\ IsUserDefined(Top.function) \/ c.function_call_traced
  IN  /\ trace' = IF traced THEN Exit(trace, Top.function_nr, parents, t - c.nanotime)
                            ELSE trace
      /\ calls' = [calls EXCEPT ![fiber] = SubSeq(@, 1, n - 1)]
-----------------------------------------------------------------------------
TracesTypeOK ==
  /\ trace.open \in BOOLEAN /\ trace.format \in {"text", "flamegraph"}
  /\ trace.lines \in Seq(Line) /\ trace.since \in -1..MaxCalls
  /\ trace.functions \in [DOMAIN trace.functions -> Int]
  /\ DOMAIN trace.functions \subseteq 0..MaxCalls
  /\ left_out \subseteq Functions
  /\ DOMAIN calls = DOMAIN fiber_stacks
  /\ \A f \in DOMAIN calls :
       /\ calls[f] \in Seq(CallData)
       /\ Len(calls[f]) = Len(fiber_stacks[f])

LinesOf(kind) == {trace.lines[i].function_nr :
                    i \in {j \in 1..Len(trace.lines) : trace.lines[j].kind = kind}}
\* Calls that run, were made since the trace was started, and are not left out.
TracedIn(f) ==
  {fiber_stacks[f][i].function_nr :
     i \in {j \in 1..Len(fiber_stacks[f]) :
             /\ fiber_stacks[f][j].function # FiberMain
             /\ fiber_stacks[f][j].function_nr > trace.since
             /\ ~calls[f][j].filtered_tracing}}
TracedCalls == UNION {TracedIn(f) : f \in DOMAIN fiber_stacks}
=============================================================================
