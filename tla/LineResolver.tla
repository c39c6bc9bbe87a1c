---------------------------- MODULE LineResolver ----------------------------
(***************************************************************************)
(* The lines at which the functions of a file can be stopped, and the      *)
(* resolver that moves a line breakpoint to one of them (the lists of      *)
(* debugger/debugger.c, line_breakpoint_resolve_helper of                  *)
(* debugger/handler_dbgp.c).                                               *)
(*                                                                         *)
(* A unit is a file or the code of an eval; its name is the one breakpoints *)
(* have.  The engine puts the functions and methods a unit declares in its *)
(* tables when the unit is compiled; closures are kept with the function   *)
(* they are in.                                                            *)
(***************************************************************************)
EXTENDS Integers, Sequences, FiniteSets, FiniteSetsExt, SequencesExt

CONSTANTS
  UnitOpArrays, \* the op arrays of all programs, closures too
  MaxNesting,   \* how deep functions are within each other
  UnitShapes,   \* the programs: functions from names of units to units
  EvalUnits,    \* the names that are evals
  ScanRange,    \* XDEBUG_DBGP_SCAN_RANGE
  BreakLines,   \* lines breakpoints are set on
  MaxResolved   \* bound: line breakpoints; the resolver looks at each alone

VARIABLES
  units,                \* the program
  function_table,       \* CG(function_table): op arrays, in order
  class_table,          \* CG(class_table): the methods of each class, with their unit
  function_count, class_count,
  breakable_lines_map,  \* unit -> its items, in order
  resolved_at           \* <<unit, line>> of a breakpoint -> where it is, 0 for unresolved

resolverVars == <<units, function_table, class_table, function_count, class_count,
                  breakable_lines_map, resolved_at>>

\* An op array: where it begins and ends, its statements, the functions in it and
\* how deep they are.
OpArray(from, to, statements, nested) ==
  [line_start |-> from, line_end |-> to, statements |-> statements, nested |-> nested,
   depth |-> IF nested = <<>> THEN 0 ELSE 1 + Max({nested[i].depth : i \in DOMAIN nested})]
Unit(main, functions, methods) == [main |-> main, functions |-> functions, methods |-> methods]
Within(o) == {p \in UnitOpArrays : p.depth < o.depth}

ASSUME ResolverAssumption ==
  /\ MaxNesting \in Nat /\ ScanRange \in Nat /\ BreakLines \subseteq Nat
  /\ \A o \in UnitOpArrays :
       /\ o.line_start \in Nat /\ o.line_end \in Nat
       /\ o.statements \subseteq o.line_start..o.line_end
       /\ o.depth \in 0..MaxNesting /\ o.nested \in Seq(Within(o))
  /\ \A program \in UnitShapes : \A u \in DOMAIN program :
       /\ program[u].main \in UnitOpArrays
       /\ program[u].functions \in Seq(UnitOpArrays) /\ program[u].methods \in Seq(UnitOpArrays)

ResolverInit ==
  /\ units \in UnitShapes
  /\ function_table = <<>> /\ class_table = <<>> /\ function_count = 0 /\ class_count = 0
  /\ breakable_lines_map = <<>> /\ resolved_at = <<>>

NoResolver ==
  /\ units = <<>>
  /\ function_table = <<>> /\ class_table = <<>> /\ function_count = 0 /\ class_count = 0
  /\ breakable_lines_map = <<>> /\ resolved_at = <<>>
-----------------------------------------------------------------------------
(* The lists. *)

LineItem(o) == [line_start |-> o.line_start, line_end |-> o.line_end,
            line_span |-> o.line_end - o.line_start, lines_breakable |-> o.statements]

\* add_function_to_lines_list: the function, then those in it
ItemsTo[d \in 0..MaxNesting] ==
  [o \in UnitOpArrays |->
     <<LineItem(o)>> \o (IF d = 0 THEN <<>>
                        ELSE FlattenSeq([i \in DOMAIN o.nested |-> ItemsTo[d - 1][o.nested[i]]]))]
Items(o) == ItemsTo[o.depth][o]
ListItems(s) == FlattenSeq([i \in DOMAIN s |-> Items(s[i])])

\* get_file_function_line_list, and what is added to it
WithItems(map, u, items) ==
  [v \in DOMAIN map \cup {u} |-> IF v # u THEN map[v]
                                 ELSE (IF u \in DOMAIN map THEN map[u] ELSE <<>>) \o items]
-----------------------------------------------------------------------------
(* The resolver. *)

\* find_smallest_range: the first of those with the least span, <<>> for none
Smallest(items, n) ==
  LET fits == {i \in DOMAIN items : items[i].line_start <= n /\ n <= items[i].line_end}
      least == {i \in fits : \A j \in fits : items[i].line_span <= items[j].line_span}
  IN  IF fits = {} THEN <<>> ELSE <<items[Min(least)]>>

\* Faulty: the scan ends before the last line of the function.
ScannedShort(item, n) ==
  [after |-> {m \in (n + 1)..(n + ScanRange) : m < item.line_end},
   before |-> {m \in (n - ScanRange)..(n - 1) : m > item.line_start}]

\* The lines the two loops look at; each looks at one before it compares.
Scanned(item, n) ==
  [after |-> {m \in (n + 1)..(n + ScanRange) : m <= item.line_end \/ m = n + 1},
   before |-> {m \in (n - ScanRange)..(n - 1) : m >= item.line_start \/ m = n - 1}]

\* line_breakpoint_resolve_helper: 0 when the breakpoint stays unresolved
Resolved(items, n) ==
  LET found == Smallest(items, n) IN
  IF found = <<>> THEN 0
  ELSE LET s == Scanned(found[1], n)
           ahead == s.after \cap found[1].lines_breakable
           behind == s.before \cap found[1].lines_breakable
       IN  IF n \in found[1].lines_breakable THEN n
           ELSE IF ahead # {} THEN Min(ahead)
           ELSE IF behind # {} THEN Max(behind) ELSE 0

\* xdebug_dbgp_resolve_breakpoints, for one unit
Resolve(at, map, u) ==
  [b \in DOMAIN at |-> IF b[1] = u /\ at[b] = 0 THEN Resolved(map[u], b[2]) ELSE at[b]]
-----------------------------------------------------------------------------
(* xdebug_debugger_compile_file: the functions and the methods that came     *)
(* since a file was compiled last, the latest first, then the file itself.   *)
(* Methods are those of the file by their name; inherited ones may not be.   *)
Declared(u) == function_table \o units[u].functions
ClassesWith(u) ==
  class_table \o (IF units[u].methods = <<>> THEN <<>>
                  ELSE <<[unit |-> u, methods |-> units[u].methods]>>)
NewOnes(table, count) == Reverse(SubSeq(table, count + 1, Len(table)))
MethodsOf(class, u) == IF class.unit = u THEN class.methods ELSE <<>>

CompileUnit(u) ==
  /\ u \in DOMAIN units \ (DOMAIN breakable_lines_map \cup EvalUnits)
  /\ LET functions == Declared(u)
         classes == ClassesWith(u)
         methods == FlattenSeq([i \in 1..(Len(classes) - class_count) |->
                                  MethodsOf(NewOnes(classes, class_count)[i], u)])
         map == WithItems(breakable_lines_map, u,
                  ListItems(NewOnes(functions, function_count) \o methods \o <<units[u].main>>))
     IN  /\ function_table' = functions /\ class_table' = classes
         /\ function_count' = Len(functions) /\ class_count' = Len(classes)
         /\ breakable_lines_map' = map
         /\ resolved_at' = Resolve(resolved_at, map, u)
  /\ UNCHANGED units

\* An eval: compiled without that hook, then registered when it runs; the list
\* gets its main op array twice.
EvaluateUnit(u) ==
  /\ u \in (DOMAIN units \cap EvalUnits) \ DOMAIN breakable_lines_map
  /\ function_table' = Declared(u) /\ class_table' = ClassesWith(u)
  /\ LET map == WithItems(breakable_lines_map, u, Items(units[u].main) \o Items(units[u].main))
     IN  /\ breakable_lines_map' = map
         /\ resolved_at' = Resolve(resolved_at, map, u)
  /\ UNCHANGED <<units, function_count, class_count>>

\* breakpoint_set with resolved_breakpoints on
SetBreakpoint(u, n) ==
  /\ u \in DOMAIN units /\ <<u, n>> \notin DOMAIN resolved_at
  /\ Cardinality(DOMAIN resolved_at) < MaxResolved
  /\ resolved_at' = [b \in DOMAIN resolved_at \cup {<<u, n>>} |->
       IF b # <<u, n>> THEN resolved_at[b]
       ELSE IF u \in DOMAIN breakable_lines_map THEN Resolved(breakable_lines_map[u], n) ELSE 0]
  /\ UNCHANGED <<units, function_table, class_table, function_count, class_count,
                 breakable_lines_map>>

ResolverNext ==
  \E u \in DOMAIN units :
    CompileUnit(u) \/ EvaluateUnit(u) \/ \E n \in BreakLines : SetBreakpoint(u, n)
ResolverSpec == ResolverInit /\ [][ResolverNext]_resolverVars
-----------------------------------------------------------------------------
(* What a user means: the innermost function the line is in, and of its        *)
(* statements the one on that line, else the next one, else the one before.    *)
InnerTo[d \in 0..MaxNesting] ==
  [o \in UnitOpArrays |->
     {o} \cup (IF d = 0 THEN {} ELSE UNION {InnerTo[d - 1][o.nested[i]] : i \in DOMAIN o.nested})]
Inner(o) == InnerTo[o.depth][o]
FunctionsOf(u) ==
  UNION {Inner(o) : o \in {units[u].main} \cup ToSet(units[u].functions) \cup ToSet(units[u].methods)}
IsAround(o, n) == o.line_start <= n /\ n <= o.line_end
IsInside(p, o) == /\ o.line_start <= p.line_start /\ p.line_end <= o.line_end
                  /\ p.line_end - p.line_start < o.line_end - o.line_start
InnermostAt(u, n) ==
  {o \in FunctionsOf(u) : /\ IsAround(o, n)
                          /\ ~ \E p \in FunctionsOf(u) : IsAround(p, n) /\ IsInside(p, o)}
Nearest(statements, n) ==
  LET near == {m \in statements : n - ScanRange <= m /\ m <= n + ScanRange}
      on == {m \in near : m >= n}
  IN  IF on # {} THEN Min(on) ELSE IF near # {} THEN Max(near) ELSE 0
LineMeant(u, n) ==
  IF InnermostAt(u, n) = {} THEN {0} ELSE {Nearest(o.statements, n) : o \in InnermostAt(u, n)}

ListIsOwn(u) == ToSet(breakable_lines_map[u]) = {LineItem(o) : o \in FunctionsOf(u)}
EvalsDeclared == \E e \in EvalUnits \cap DOMAIN breakable_lines_map : units[e].functions # <<>>
HasOwnClass(u) == u \in EvalUnits /\ units[u].methods # <<>>

\* Whenever it was set, before or after its unit was compiled, a breakpoint is on
\* the statement its user meant as soon as the unit is known, when the list of
\* the unit is its own.  It is, until an eval declares functions: those are in
\* the list of the file compiled next, and in none for the eval itself, whose
\* methods are in none (handler_dbgp.c:3085, debugger.c:1150, 1193).
BreakpointsResolve ==
  /\ \A u \in DOMAIN breakable_lines_map : ListIsOwn(u) \/ HasOwnClass(u) \/ EvalsDeclared
  /\ \A b \in DOMAIN resolved_at :
       IF b[1] \notin DOMAIN breakable_lines_map THEN resolved_at[b] = 0
       ELSE ListIsOwn(b[1]) => resolved_at[b] \in LineMeant(b[1], b[2])
=============================================================================
