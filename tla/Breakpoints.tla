---------------------------- MODULE Breakpoints ----------------------------
(***************************************************************************)
(* The breakpoint engine of the step debugger: the registry the DBGp       *)
(* commands breakpoint_set/get/update/remove/list work on                  *)
(* (debugger/handler_dbgp.c) and the places where running PHP code         *)
(* consults it (debugger/debugger.c: statements, calls, returns,           *)
(* exceptions and errors).                                                 *)
(*                                                                         *)
(* A breakpoint lives in two places that only meet through a key: the      *)
(* table by id (context->breakpoint_list), which a client's command looks  *)
(* up, and the structure the engine scans (a linked list for line          *)
(* breakpoints, hashes for function and exception breakpoints).  An        *)
(* xdebug_brk_info is identified here by the id it was given when it was   *)
(* made; ids are never reused, so an id outside DOMAIN info is freed       *)
(* memory.  New line breakpoints go to the tail of the list and ids grow,  *)
(* so list order is id order and the list is kept as a set of ids.         *)
(***************************************************************************)
EXTENDS Integers, Sequences, FiniteSets

CONSTANTS
  Files,             \* file names
  PrefixOf,          \* <<f, g>> \in PrefixOf: the name f is a prefix of the name g
  Functions,         \* functions of the debugged program
  Code,              \* function -> [file, lines (line_start..line_end), kind]
  ResolvedLine,      \* <<file, line>> -> the line the resolver picks, 0 for none
  Exceptions,        \* exception class names and error type names
  Wildcard,          \* the exception breakpoint "*"
  Chain,             \* exception -> the names it goes by: its class, then its parents
  Errors,            \* the members of Exceptions that PHP errors go by
  Fibers, MainFiber, \* each fiber has a stack of its own
  SetLines,          \* lines a client passes to breakpoint_set -n
  SetOptions,        \* [disabled, temporary, condition, hit_value, hit_condition]
  Updates,           \* [s, n, h, o]: the options of a breakpoint_update, or None
  None,
  resolved_breakpoints,  \* feature: resolve line breakpoints when code is compiled
  breakpoint_details,    \* feature: describe the breakpoint in a break response
  RepeatsExceptions,     \* whether a client sets an exception breakpoint it already has
  MaxSet,            \* bound: breakpoints set in one session
  MaxHits,           \* bound: hits of one breakpoint
  MaxDepth           \* bound: stack depth

VARIABLES
  breakpoint_count,       \* XG_DBG(breakpoint_count)
  breakpoint_list,        \* id -> xdebug_brk_admin
  info,                   \* id -> xdebug_brk_info, the allocated ones
  line_breakpoints,       \* the ids in context->line_breakpoints
  function_breakpoints,   \* <<type, function>> -> id
  exception_breakpoints,  \* name -> id
  do_break, pending_breakpoint,
  step_armed,             \* one of do_step, do_next and do_finish is set
  compiled,               \* files in breakable_lines_map
  stack, fiber,           \* the frames of every fiber, the running fiber
  status                  \* running, break (the client has the turn) or crashed

registry == <<breakpoint_list, info, line_breakpoints, function_breakpoints,
              exception_breakpoints>>
program  == <<compiled, stack, fiber>>
vars     == <<breakpoint_count, registry, do_break, pending_breakpoint,
              step_armed, program, status>>

Kinds          == {"script", "user", "internal"}
FunctionTypes  == {"call", "return"}
Types          == FunctionTypes \cup {"line", "exception"}
HitConditions  == {"none", ">=", "==", "%"}
Ids            == 1..MaxSet
ClientLines    == (SetLines \cup {u.n : u \in Updates}) \ {None}
Places         == Files \cup Functions \cup Exceptions \cup {Wildcard}

Admin == [type: Types, where: Places, line: Nat]
Info  == [brk_type: Types, where: Places, original_lineno: Nat,
          resolved_lineno: Nat, resolved: BOOLEAN, condition: BOOLEAN,
          disabled: BOOLEAN, temporary: BOOLEAN, hit_count: Nat,
          hit_value: Nat, hit_condition: HitConditions]
Frame == [function: Functions, has_line_breakpoints: BOOLEAN]
UserDefined(f) == Code[f].kind # "internal"
Options == [disabled: BOOLEAN, temporary: BOOLEAN, condition: BOOLEAN,
            hit_value: Nat, hit_condition: HitConditions]
Update  == [s: {"enabled", "disabled", "invalid", None}, n: Nat \cup {None},
            h: Nat \cup {None}, o: HitConditions \cup {"invalid", None}]

ASSUME CodeAssumption ==
  /\ Code \in [Functions -> [file: Files, lines: SUBSET Nat, kind: Kinds]]
  /\ ResolvedLine \in [Files \X ClientLines -> Nat]
  /\ Chain \in [Exceptions -> Seq(Exceptions)] /\ Errors \subseteq Exceptions
  /\ \A f \in Files : <<f, f>> \in PrefixOf
ASSUME ClientAssumption ==
  /\ SetLines \subseteq Nat /\ SetOptions \subseteq Options /\ Updates \subseteq Update
  /\ resolved_breakpoints \in BOOLEAN /\ breakpoint_details \in BOOLEAN
  /\ RepeatsExceptions \in BOOLEAN
  /\ MaxSet \in Nat /\ MaxHits \in Nat /\ MaxDepth \in Nat
ASSUME NoneAssumption ==
  None \notin Nat /\ None \notin {"enabled", "disabled", "invalid"} \cup HitConditions
ASSUME FiberAssumption == MainFiber \in Fibers
-----------------------------------------------------------------------------
(* Looking a breakpoint up and changing it. *)

Before(S) == CHOOSE d \in S : \A e \in S : d <= e   \* first in the list
After(S)  == CHOOSE d \in S : \A e \in S : e <= d   \* last in the list

\* Faulty: compares the file names only.
AtFile(a) == {d \in line_breakpoints : <<info[d].where, a.where>> \in PrefixOf}

\* The list elements the code takes to be at a key: the line is compared, and
\* of the file name as many characters as the element's own name has.
AtKey(a) == {d \in line_breakpoints : /\ info[d].original_lineno = a.line
                                      /\ <<info[d].where, a.where>> \in PrefixOf}

\* The info behind an admin entry, or None for a NULL pointer.  The search of
\* the list leaves its cursor on the last element when nothing matches.
Fetch(a) ==
  CASE a.type = "line" ->
         IF AtKey(a) # {} THEN Before(AtKey(a))
         ELSE IF line_breakpoints # {} THEN After(line_breakpoints) ELSE None
    [] a.type \in FunctionTypes ->
         IF <<a.type, a.where>> \in DOMAIN function_breakpoints
         THEN function_breakpoints[<<a.type, a.where>>] ELSE None
    [] OTHER ->
         IF a.where \in DOMAIN exception_breakpoints
         THEN exception_breakpoints[a.where] ELSE None

NewInfo(type, place, n, o) ==
  [brk_type |-> type, where |-> place, original_lineno |-> n,
   resolved_lineno |-> n, resolved |-> type # "line", condition |-> o.condition,
   disabled |-> o.disabled, temporary |-> o.temporary, hit_count |-> 0,
   hit_value |-> o.hit_value, hit_condition |-> o.hit_condition]

\* Resolve an unresolved line breakpoint now that its file is compiled.
Resolve(b) ==
  LET n == ResolvedLine[<<b.where, b.original_lineno>>]
  IN  IF n = 0 \/ b.resolved THEN b
      ELSE [b EXCEPT !.resolved_lineno = n, !.resolved = TRUE]

\* Faulty: leaves a temporary breakpoint enabled.
AfterHitStillEnabled(b) == [b EXCEPT !.hit_count = @ + 1]

\* xdebug_handle_hit_value: what a hit does to a breakpoint, and whether to stop.
AfterHit(b) == [b EXCEPT !.disabled = @ \/ b.temporary, !.hit_count = @ + 1]
Happy(b) ==
  \/ b.hit_value = 0
  \/ b.hit_condition = "none"
  \/ b.hit_condition = ">=" /\ b.hit_count >= b.hit_value
  \/ b.hit_condition = "=="  /\ b.hit_count = b.hit_value
  \/ b.hit_condition = "%"  /\ b.hit_count % b.hit_value = 0

Hit(S) == info' = [d \in DOMAIN info |-> IF d \in S THEN AfterHit(info[d]) ELSE info[d]]
MayHit(S) == \A d \in S : info[d].hit_count < MaxHits

Without(f, S) == [x \in DOMAIN f \ S |-> f[x]]
With(f, x, v) == [y \in DOMAIN f \cup {x} |-> IF y = x THEN v ELSE f[y]]
MarkTop(frames) ==   \* faulty: marks the innermost frame only
  [i \in DOMAIN frames |-> IF i = Len(frames)
     THEN [frames[i] EXCEPT !.has_line_breakpoints = TRUE] ELSE frames[i]]
MarkAll(frames) == [i \in DOMAIN frames |-> [frames[i] EXCEPT !.has_line_breakpoints = TRUE]]

Crash == /\ status' = "crashed"
         /\ UNCHANGED <<breakpoint_count, registry, do_break, pending_breakpoint,
                        step_armed, program>>
Session == <<do_break, pending_breakpoint, step_armed, compiled, fiber, status>>
-----------------------------------------------------------------------------
(* The client's commands, while the engine waits in the command loop. *)

\* breakpoint_admin_add
AdminAdd(type, place, n) ==
  /\ breakpoint_count' = breakpoint_count + 1
  /\ breakpoint_list' = With(breakpoint_list, breakpoint_count',
                             [type |-> type, where |-> place, line |-> n])

\* Faulty: does not look for a duplicate.
SetLineAgain(f, n, o) ==
  /\ status = "break" /\ breakpoint_count < MaxSet
  /\ AdminAdd("line", f, n)
  /\ line_breakpoints' = line_breakpoints \cup {breakpoint_count'}
  /\ info' = With(info, breakpoint_count', NewInfo("line", f, n, o))
  /\ stack' = [stack EXCEPT ![fiber] = MarkAll(@)]
  /\ UNCHANGED <<function_breakpoints, exception_breakpoints, Session>>

\* breakpoint_set -t line|conditional, refused when an id has that key already.
SetLine(f, n, o) ==
  /\ status = "break" /\ breakpoint_count < MaxSet
  /\ \A d \in DOMAIN breakpoint_list :
       breakpoint_list[d] # [type |-> "line", where |-> f, line |-> n]
  /\ AdminAdd("line", f, n)
  /\ line_breakpoints' = line_breakpoints \cup {breakpoint_count'}
  /\ LET b == NewInfo("line", f, n, o)
     IN  info' = With(info, breakpoint_count',
                      IF resolved_breakpoints /\ f \in compiled THEN Resolve(b) ELSE b)
  /\ stack' = [stack EXCEPT ![fiber] = MarkAll(@)]
  /\ UNCHANGED <<function_breakpoints, exception_breakpoints, Session>>

\* Faulty: replaces the breakpoint that has the key.
SetFunctionReplacing(type, f, o) ==
  /\ status = "break" /\ breakpoint_count < MaxSet
  /\ AdminAdd(type, f, 0)
  /\ info' = With(Without(info, {d \in DOMAIN info : info[d].brk_type = type /\ info[d].where = f}),
                  breakpoint_count', NewInfo(type, f, 0, o))
  /\ function_breakpoints' = With(function_breakpoints, <<type, f>>, breakpoint_count')
  /\ UNCHANGED <<line_breakpoints, exception_breakpoints, stack, Session>>

\* breakpoint_set -t call|return, refused when the hash has the key already.
SetFunction(type, f, o) ==
  /\ status = "break" /\ breakpoint_count < MaxSet
  /\ <<type, f>> \notin DOMAIN function_breakpoints
  /\ AdminAdd(type, f, 0)
  /\ function_breakpoints' = With(function_breakpoints, <<type, f>>, breakpoint_count')
  /\ info' = With(info, breakpoint_count', NewInfo(type, f, 0, o))
  /\ UNCHANGED <<line_breakpoints, exception_breakpoints, stack, Session>>

\* breakpoint_set -t exception: adding to the hash replaces and frees what it held.
SetException(x, o) ==
  /\ status = "break" /\ breakpoint_count < MaxSet
  /\ AdminAdd("exception", x, 0)
  /\ LET held == {exception_breakpoints[y] : y \in DOMAIN exception_breakpoints \cap {x}}
     IN  /\ RepeatsExceptions \/ held = {}
         /\ info' = With(Without(info, held), breakpoint_count',
                         NewInfo("exception", x, 0, o))
  /\ exception_breakpoints' = With(exception_breakpoints, x, breakpoint_count')
  /\ UNCHANGED <<line_breakpoints, function_breakpoints, stack, Session>>

\* What breakpoint_update makes of an info: the options are applied in this
\* order, and a value it does not know ends the command there.
Updated(b, u) ==
  LET s == [b EXCEPT !.disabled = IF u.s = None THEN @ ELSE u.s = "disabled"]
      n == IF u.n = None THEN s
           ELSE [s EXCEPT !.original_lineno = u.n, !.resolved_lineno = u.n]
      h == [n EXCEPT !.hit_value = IF u.h = None THEN @ ELSE u.h]
  IN  IF u.s = "invalid" THEN b
      ELSE IF u.o \in {None, "invalid"} THEN h
      ELSE [h EXCEPT !.hit_condition = u.o]

\* breakpoint_update -d d
BreakpointUpdate(d, u) ==
  /\ status = "break" /\ d \in DOMAIN breakpoint_list
  /\ LET b == Fetch(breakpoint_list[d])
     IN  IF b = None THEN Crash
         ELSE /\ info' = [info EXCEPT ![b] = Updated(@, u)]
              /\ UNCHANGED <<breakpoint_count, breakpoint_list, line_breakpoints,
                             function_breakpoints, exception_breakpoints, stack, Session>>

\* Faulty: frees the info and leaves the hashes pointing at it.
RemoveKeepingHash(d) ==
  /\ status = "break" /\ d \in DOMAIN breakpoint_list
  /\ breakpoint_list' = Without(breakpoint_list, {d})
  /\ info' = Without(info, {d}) /\ line_breakpoints' = line_breakpoints \ {d}
  /\ UNCHANGED <<breakpoint_count, function_breakpoints, exception_breakpoints, stack, Session>>

\* Faulty: drops the id only.
RemoveIdOnly(d) ==
  /\ status = "break" /\ d \in DOMAIN breakpoint_list
  /\ breakpoint_list' = Without(breakpoint_list, {d})
  /\ UNCHANGED <<breakpoint_count, info, line_breakpoints, function_breakpoints,
                 exception_breakpoints, stack, Session>>

\* breakpoint_remove -d d: describes the breakpoint, takes what it finds at the
\* key out of its list or hash, frees it, and drops the id.
BreakpointRemove(d) ==
  /\ status = "break" /\ d \in DOMAIN breakpoint_list
  /\ LET a == breakpoint_list[d]
         freed == IF a.type = "line"
                  THEN IF AtKey(a) = {} THEN {} ELSE {Before(AtKey(a))}
                  ELSE {Fetch(a)}
     IN  IF Fetch(a) = None THEN Crash
         ELSE /\ breakpoint_list' = Without(breakpoint_list, {d})
              /\ info' = Without(info, freed)
              /\ line_breakpoints' = line_breakpoints \ freed
              /\ function_breakpoints' = Without(function_breakpoints,
                   IF a.type \in FunctionTypes THEN {<<a.type, a.where>>} ELSE {})
              /\ exception_breakpoints' = Without(exception_breakpoints,
                   IF a.type = "exception" THEN {a.where} ELSE {})
              /\ UNCHANGED <<breakpoint_count, stack, Session>>

\* breakpoint_get and breakpoint_list describe the info they fetch.
BreakpointGet(d) ==
  /\ status = "break" /\ d \in DOMAIN breakpoint_list
  /\ Fetch(breakpoint_list[d]) = None
  /\ Crash

\* run leaves a step that is still due alone; the step commands arm one.
Continue(step) ==
  /\ status = "break"
  /\ status' = "running"
  /\ step_armed' = (step_armed \/ step)
  /\ UNCHANGED <<breakpoint_count, registry, do_break, pending_breakpoint, program>>
-----------------------------------------------------------------------------
(* The program runs and consults the registry. *)

Top == stack[fiber][Len(stack[fiber])]
AtStatement(n) == /\ status = "running" /\ stack[fiber] # <<>>
                  /\ UserDefined(Top.function)
                  /\ n \in Code[Top.function].lines

\* Faulty: forgets to clear the pending breakpoint.
StatementBreakKeeping(n) ==
  /\ AtStatement(n) /\ do_break
  /\ do_break' = FALSE /\ status' = "break"
  /\ UNCHANGED <<breakpoint_count, registry, pending_breakpoint, step_armed, program>>

\* The first test of xdebug_debugger_statement_call: a break asked for earlier.
\* Describing a breakpoint that was freed meanwhile reads freed memory.
StatementBreak(n) ==
  /\ AtStatement(n) /\ do_break
  /\ do_break' = FALSE /\ pending_breakpoint' = None
  /\ \/ status' = "break"
     \/ /\ breakpoint_details
        /\ pending_breakpoint \notin DOMAIN info \cup {None}
        /\ status' = "crashed"
  /\ UNCHANGED <<breakpoint_count, registry, step_armed, program>>

\* The next three: a step that is due here (module Stepping says where).
StatementStep(n) ==
  /\ AtStatement(n) /\ ~do_break /\ step_armed
  /\ step_armed' = FALSE /\ status' = "break"
  /\ UNCHANGED <<breakpoint_count, registry, do_break, pending_breakpoint, program>>

\* xdebug_dbgp_break_on_line
BreakOnLine(n) == {d \in line_breakpoints :
  ~info[d].disabled /\ info[d].resolved_lineno = n /\ info[d].where = Code[Top.function].file}

\* The last: the list is scanned until a breakpoint stops the program; "truths"
\* are the ones whose condition evaluates to true.
StatementLine(n, truths) ==
  LET tried == {d \in BreakOnLine(n) : info[d].condition => d \in truths}
      happy == {d \in tried : Happy(AfterHit(info[d]))}
      hit   == {d \in tried : happy # {} => d <= Before(happy)}
  IN  /\ AtStatement(n) /\ ~do_break /\ Top.has_line_breakpoints
      /\ hit # {} /\ MayHit(hit)
      /\ Hit(hit)
      /\ status' = IF happy = {} THEN "running" ELSE "break"
      /\ UNCHANGED <<breakpoint_count, breakpoint_list, line_breakpoints,
                     function_breakpoints, exception_breakpoints, do_break,
                     pending_breakpoint, step_armed, program>>

\* handle_function_breakpoints: a call to a user function stops at its first
\* statement, everything else right here.  A script is in no function's key.
FunctionBreak(type, f) ==
  IF <<type, f>> \in DOMAIN function_breakpoints
     /\ ~info[function_breakpoints[<<type, f>>]].disabled
  THEN LET d == function_breakpoints[<<type, f>>]
           later == type = "call" /\ UserDefined(f)
       IN  /\ MayHit({d}) /\ Hit({d})
           /\ IF Happy(AfterHit(info[d])) /\ later
              THEN do_break' = TRUE /\ pending_breakpoint' = d /\ UNCHANGED status
              ELSE /\ status' = IF Happy(AfterHit(info[d])) THEN "break" ELSE status
                   /\ UNCHANGED <<do_break, pending_breakpoint>>
  ELSE UNCHANGED <<info, do_break, pending_breakpoint, status>>

\* A function is called: its frame is marked if a line breakpoint lies in it.
Call(f) ==
  /\ status = "running" /\ Len(stack[fiber]) < MaxDepth
  /\ UserDefined(f) => Code[f].file \in compiled
  /\ LET marked == /\ UserDefined(f)
                   /\ \E d \in line_breakpoints :
                        /\ info[d].where = Code[f].file
                        /\ info[d].resolved_lineno \in Code[f].lines
     IN  stack' = [stack EXCEPT ![fiber] =
                     Append(@, [function |-> f, has_line_breakpoints |-> marked])]
  /\ FunctionBreak("call", f)
  /\ UNCHANGED <<breakpoint_count, breakpoint_list, line_breakpoints,
                 function_breakpoints, exception_breakpoints, step_armed, compiled, fiber>>

\* It returns, or an exception leaves it: return breakpoints, then the frame goes.
Return ==
  /\ status = "running" /\ stack[fiber] # <<>>
  /\ FunctionBreak("return", Top.function)
  /\ stack' = [stack EXCEPT ![fiber] = SubSeq(@, 1, Len(@) - 1)]
  /\ UNCHANGED <<breakpoint_count, breakpoint_list, line_breakpoints,
                 function_breakpoints, exception_breakpoints, step_armed, compiled, fiber>>

\* The names looked up, in order: xdebug_debugger_error_cb for an error,
\* xdebug_debugger_throw_exception_hook for an exception.
Names(x) == IF x \in Errors THEN <<x, Wildcard>> ELSE <<Wildcard>> \o Chain[x]

\* Neither looks at the disabled flag.
Throw(x) ==
  /\ status = "running"
  /\ \E i \in DOMAIN Names(x) :
       LET d == exception_breakpoints[Names(x)[i]]
       IN  /\ Names(x)[i] \in DOMAIN exception_breakpoints
           /\ \A j \in 1..(i-1) : Names(x)[j] \notin DOMAIN exception_breakpoints
           /\ MayHit({d}) /\ Hit({d})
           /\ status' = IF Happy(AfterHit(info[d])) THEN "break" ELSE status
  /\ UNCHANGED <<breakpoint_count, breakpoint_list, line_breakpoints,
                 function_breakpoints, exception_breakpoints, do_break,
                 pending_breakpoint, step_armed, program>>

\* A file is compiled: every id's breakpoint is fetched and, when it is an
\* unresolved line breakpoint of that file, resolved.
Compile(f) ==
  /\ status = "running" /\ f \notin compiled
  /\ LET fetched == {Fetch(breakpoint_list[d]) : d \in DOMAIN breakpoint_list}
     IN  IF resolved_breakpoints /\ None \in fetched THEN Crash
         ELSE /\ compiled' = compiled \cup {f}
              /\ info' = [d \in DOMAIN info |->
                   IF /\ resolved_breakpoints /\ d \in fetched
                      /\ info[d].brk_type = "line" /\ info[d].where = f
                   THEN Resolve(info[d]) ELSE info[d]]
              /\ UNCHANGED <<breakpoint_count, breakpoint_list, line_breakpoints,
                             function_breakpoints, exception_breakpoints, do_break,
                             pending_breakpoint, step_armed, stack, fiber, status>>

\* xdebug_break()
XdebugBreak ==
  /\ status = "running"
  /\ do_break' = TRUE /\ pending_breakpoint' = None
  /\ UNCHANGED <<breakpoint_count, registry, step_armed, program, status>>

\* The pause command of the control socket.
Pause ==
  /\ status = "running"
  /\ do_break' = TRUE
  /\ UNCHANGED <<breakpoint_count, registry, pending_breakpoint, step_armed,
                 program, status>>

\* PHP switches fibers: XG_BASE(stack) becomes the other fiber's.
SwitchFiber(f) ==
  /\ status = "running" /\ f # fiber
  /\ fiber' = f
  /\ UNCHANGED <<breakpoint_count, registry, do_break, pending_breakpoint,
                 step_armed, compiled, stack, status>>
-----------------------------------------------------------------------------
\* xdebug_dbgp_init: empty tables, and the client has the turn first.
Init ==
  /\ breakpoint_count = 0
  /\ breakpoint_list = <<>> /\ info = <<>>
  /\ line_breakpoints = {} /\ function_breakpoints = <<>> /\ exception_breakpoints = <<>>
  /\ do_break = FALSE /\ pending_breakpoint = None /\ step_armed = FALSE
  /\ compiled = {} /\ stack = [f \in Fibers |-> <<>>] /\ fiber = MainFiber
  /\ status = "break"

ClientNext ==
  \/ \E o \in SetOptions :
       \/ \E f \in Files, n \in SetLines : SetLine(f, n, o)
       \/ \E type \in FunctionTypes, f \in {g \in Functions : Code[g].kind # "script"} :
            SetFunction(type, f, o)
       \/ \E x \in Exceptions \cup {Wildcard} : SetException(x, o)
  \/ \E d \in DOMAIN breakpoint_list :
       \/ \E u \in Updates : BreakpointUpdate(d, u)
       \/ BreakpointRemove(d)
       \/ BreakpointGet(d)
  \/ \E step \in BOOLEAN : Continue(step)

ProgramNext ==
  \/ \E n \in UNION {Code[f].lines : f \in Functions} :
       \/ StatementBreak(n)
       \/ StatementStep(n)
       \/ \E truths \in SUBSET {d \in line_breakpoints : info[d].condition} : StatementLine(n, truths)
  \/ \E f \in Functions : Call(f)
  \/ Return
  \/ \E x \in Exceptions : Throw(x)
  \/ \E f \in Files : Compile(f)
  \/ XdebugBreak
  \/ Pause
  \/ \E f \in Fibers : SwitchFiber(f)

Next == ClientNext \/ ProgramNext
Spec == Init /\ [][Next]_vars
-----------------------------------------------------------------------------
(* Properties. *)

\* Type invariant.  The tables only ever hold breakpoints that are allocated,
\* at the place their type says; the pending breakpoint need not be one.
IdsOK ==
  /\ breakpoint_count \in Nat
  /\ DOMAIN breakpoint_list \subseteq Nat
  /\ \A d \in DOMAIN breakpoint_list : d <= breakpoint_count /\ breakpoint_list[d] \in Admin
InfoOK ==
  /\ DOMAIN info \subseteq Nat
  /\ \A d \in DOMAIN info : d <= breakpoint_count /\ info[d] \in Info
TablesOK ==
  /\ line_breakpoints = {d \in DOMAIN info : info[d].brk_type = "line"}
  /\ \A d \in line_breakpoints : /\ info[d].where \in Files
                                /\ info[d].original_lineno \in ClientLines
  /\ DOMAIN function_breakpoints \subseteq FunctionTypes \X Functions
  /\ \A k \in DOMAIN function_breakpoints :
       /\ function_breakpoints[k] \in DOMAIN info
       /\ info[function_breakpoints[k]].brk_type = k[1]
       /\ info[function_breakpoints[k]].where = k[2]
  /\ DOMAIN exception_breakpoints \subseteq Exceptions \cup {Wildcard}
  /\ \A x \in DOMAIN exception_breakpoints :
       /\ exception_breakpoints[x] \in DOMAIN info
       /\ info[exception_breakpoints[x]].brk_type = "exception"
       /\ info[exception_breakpoints[x]].where = x
EngineOK ==
  /\ do_break \in BOOLEAN /\ pending_breakpoint \in Nat \cup {None}
  /\ step_armed \in BOOLEAN /\ status \in {"running", "break", "crashed"}
ProgramOK ==
  /\ compiled \subseteq Files /\ fiber \in Fibers
  /\ stack \in [Fibers -> Seq(Frame)]
TypeOK == IdsOK /\ InfoOK /\ TablesOK /\ EngineOK /\ ProgramOK

\* "so it exists, now we're going to find it in the correct hash/list and return
\* the info we have on it" (breakpoint_do_action): the key behind an id leads
\* back to the breakpoint that id was given to, so that get, update, remove and
\* list all work on the breakpoint the client named.
EveryIdFindsItsOwn ==
  \A d \in DOMAIN breakpoint_list : Fetch(breakpoint_list[d]) = d

\* The same for call and return breakpoints alone: a client can replace neither
\* them nor their keys, so it holds whatever commands the client sends.
FunctionIdsFindTheirOwn ==
  \A d \in DOMAIN breakpoint_list :
    breakpoint_list[d].type \in FunctionTypes => Fetch(breakpoint_list[d]) = d

\* No orphans: a breakpoint that can stop the program has an id the client can
\* still remove it by (breakpoint_remove, then breakpoint_admin_remove).
EveryBreakpointHasAnId == DOMAIN info \subseteq DOMAIN breakpoint_list

\* The has_line_breakpoints flag never hides a breakpoint: every frame that a
\* line breakpoint lies in is marked, whether the breakpoint was there when the
\* function was called (mark_fse_as_having_line_breakpoints), was set later
\* (breakpoint_set marks the stack) or has been moved by the resolver.
FramesMarked ==
  \A f \in Fibers : \A i \in DOMAIN stack[f] : \A d \in line_breakpoints :
    LET fn == stack[f][i].function
    IN  /\ UserDefined(fn) /\ info[d].where = Code[fn].file
        /\ info[d].resolved_lineno \in Code[fn].lines
        => stack[f][i].has_line_breakpoints

\* No command and no compiled file makes the engine follow a NULL or freed
\* xdebug_brk_info.
NoCrash == status # "crashed"

\* A remembered call breakpoint always has its break still to come; otherwise a
\* later unrelated break would be reported as that call breakpoint's.
PendingMeansBreak == pending_breakpoint # None => do_break

\* A temporary breakpoint stops the program once: "If this is a temporary
\* breakpoint, disable the breakpoint" (xdebug_handle_hit_value).
TemporaryHitOnce == \A d \in DOMAIN info : info[d].temporary => info[d].hit_count <= 1

\* update and remove touch the breakpoint they name, and no other.
CommandsTouchTheirOwn ==
  [][\A d \in DOMAIN breakpoint_list :
       BreakpointRemove(d) \/ (\E u \in Updates : BreakpointUpdate(d, u)) =>
         \A e \in DOMAIN info \ {d} : e \in DOMAIN info' /\ info'[e] = info[e]]_vars

\* A disabled line or function breakpoint neither counts nor stops, and a
\* temporary one is disabled by its first hit: between two hits of one
\* temporary breakpoint there is a command of the client that enabled it.
DisabledStaysSilent ==
  [][\A d \in DOMAIN info \cap DOMAIN info' :
       info'[d].hit_count > info[d].hit_count /\ info[d].brk_type # "exception" =>
         /\ ~info[d].disabled
         /\ info[d].temporary => info'[d].disabled]_vars
=============================================================================
