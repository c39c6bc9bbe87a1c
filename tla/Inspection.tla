----------------------------- MODULE Inspection -----------------------------
(***************************************************************************)
(* Looking at a stopped program (debugger/handler_dbgp.c): property_get,   *)
(* property_value, property_set, context_get and the size of strings that  *)
(* feature_set asks for.  They share what lib/lib.c keeps to look names up *)
(* in: the data of a frame, its entry on the stack and its symbol table.   *)
(* All of it stays from one command to the next, from one stop to the next *)
(* and, but for the symbol table, from one request to the next.            *)
(*                                                                         *)
(* The data is taken from the entry of the call that the frame has made,   *)
(* the table from its own.  Reading a value may run code of the program (a *)
(* hook of a property, __get or __debugInfo), which may stop in its turn:  *)
(* commands come then while another still reads.                           *)
(***************************************************************************)
EXTENDS Integers, Sequences, SequencesExt

CONSTANTS
  MaxCalls,      \* bound: calls in a behaviour, and commands that read at a time
  DataSizes      \* values of max_data and of the option -m, some below 0

ASSUME InspectionAssumption == MaxCalls \in Nat /\ DataSizes \subseteq Int

None == 0
NoFunction == -2    \* as data: a frame of PHP itself, of no function
Globals == -1       \* as a symbol table: that of the superglobals
Context == {"locals", "superglobals", "constants"}
InitialSize == 1024

VARIABLES
  engine,        \* the calls that run, as PHP has them; current_execute_data is the last
  stack,         \* their entries: xdebug's stack
  calls,         \* how many calls there were: their data are 1..calls
  active,        \* XG_LIB(active_execute_data, active_stack_entry, active_symbol_table)
  max_data,      \* the option of the exporter
  wanted,        \* what the client last set it to while no property was read
  reading,       \* the commands that read, each in code run for the one before
  lookup         \* what the last step looked up: for which command, and where

inspectionVars == <<engine, stack, calls, active, max_data, wanted, reading, lookup>>

Nowhere == [data |-> None, entry |-> None, table |-> None]
NoFrame == [data |-> None, table |-> None, hidden |-> FALSE]
NoLookup == [command |-> "none", context |-> "constants", asked |-> NoFrame, disturbed |-> FALSE,
             in |-> Nowhere]

Main(n) == [data |-> n, table |-> Globals, byPHP |-> FALSE]
EntryOfMain(n) == [call |-> n, execute_data |-> None, symbol_table |-> Globals]

InspectionInit ==
  /\ calls = 1 /\ engine = <<Main(1)>> /\ stack = <<EntryOfMain(1)>>
  /\ active = Nowhere
  /\ max_data = InitialSize /\ wanted = InitialSize
  /\ reading = <<>> /\ lookup = NoLookup
-----------------------------------------------------------------------------
(* The program goes on between two commands, or in the code that a command    *)
(* runs, which has to return before the command can end.                      *)

\* The code that was run for the last command has returned, or has not begun.
Returned == reading # <<>> /\ Len(stack) = Last(reading).level
Stopped == ~Returned

\* A function starts without a symbol table; what is included shares that of the
\* code that includes it.  A call by PHP itself, in the middle of an operation of
\* the caller, has a frame of no function between the two.  The entry gets what
\* came before the call, and the table as it is when the call begins.
Call ==
  /\ calls + Len(reading) < MaxCalls
  /\ \E includes, byPHP \in BOOLEAN :
       LET caller == Last(engine)
           table == IF includes THEN caller.table ELSE None
       IN /\ includes => caller.table # None /\ ~byPHP
          /\ calls' = calls + 1
          /\ engine' = Append(engine, [data |-> calls', table |-> table, byPHP |-> byPHP])
          /\ stack' = Append(stack, [call |-> calls', symbol_table |-> table,
                                     execute_data |-> IF byPHP THEN NoFunction ELSE caller.data])
  /\ lookup' = NoLookup /\ UNCHANGED <<active, max_data, wanted, reading>>

\* extract(), an include and the like give a function a symbol table; its entry
\* has been made by then.
BuildTable ==
  /\ Last(engine).table = None
  /\ engine' = [engine EXCEPT ![Len(engine)].table = engine[Len(engine)].data]
  /\ lookup' = NoLookup /\ UNCHANGED <<stack, calls, active, max_data, wanted, reading>>

Return ==
  /\ Len(stack) > 1 /\ Stopped
  /\ engine' = Front(engine) /\ stack' = Front(stack)
  /\ lookup' = NoLookup /\ UNCHANGED <<calls, active, max_data, wanted, reading>>

\* The request ends, whatever runs, and another begins; rinit clears the symbol
\* table only, and the options are made anew when the debugger connects.
NextRequest ==
  /\ calls < MaxCalls
  /\ calls' = calls + 1
  /\ engine' = <<Main(calls')>> /\ stack' = <<EntryOfMain(calls')>>
  /\ active' = [active EXCEPT !.table = None]
  /\ max_data' = InitialSize /\ wanted' = InitialSize
  /\ reading' = <<>> /\ lookup' = NoLookup

ProgramGoesOn == Call \/ BuildTable \/ Return \/ NextRequest
-----------------------------------------------------------------------------
(* Where names are looked up: the frame of a depth, or the superglobals, with *)
(* the frame of an earlier command still there.                               *)

\* xdebug_get_stack_frame: 0 is the entry of the call the program is in.
EntryAt(depth) == stack[Len(stack) - depth]
IsDepth(depth) == depth \in 0..(Len(stack) - 1)

\* A depth says nothing of the other contexts.
CanAsk(context, depth) == IF context = "locals" THEN IsDepth(depth) ELSE depth = 0

\* Faulty: the entry asked for knows the data of its caller.
DataOfEntry(depth) == IF depth > 0 THEN EntryAt(depth).execute_data ELSE Last(engine).data

DataAt(depth) == IF depth > 0 THEN EntryAt(depth - 1).execute_data ELSE Last(engine).data

Activated(context, depth) ==
  CASE context = "locals"       -> [data |-> DataAt(depth), entry |-> EntryAt(depth).call,
                                    table |-> EntryAt(depth).symbol_table]
    [] context = "superglobals" -> [active EXCEPT !.table = Globals]
    [] context = "constants"    -> active

\* The frame a client means, which cannot be seen when PHP itself called from it.
FrameAsked(context, depth) ==
  IF context # "locals" THEN NoFrame
  ELSE LET frame == engine[Len(engine) - depth]
       IN [data |-> frame.data, table |-> frame.table,
           hidden |-> depth > 0 /\ engine[Len(engine) - depth + 1].byPHP]

\* Commands that read when another comes may look on in what that made active.
Interrupted(commands) == [i \in DOMAIN commands |-> [commands[i] EXCEPT !.disturbed = TRUE]]

LookedUp(command, context, asked, disturbed, in) ==
  lookup' = [command |-> command, context |-> context, asked |-> asked, disturbed |-> disturbed,
             in |-> in]

Reads(command, context, depth) ==
  /\ calls + Len(reading) < MaxCalls
  /\ reading' = Append(Interrupted(reading),
                       [command |-> command, context |-> context, asked |-> FrameAsked(context, depth),
                        old_max_data |-> max_data, level |-> Len(stack), disturbed |-> FALSE])
  /\ LookedUp(command, context, FrameAsked(context, depth), FALSE, active')
-----------------------------------------------------------------------------
(* Commands.                                                                  *)

\* A property that is being read puts back what it found.
PropertyIsRead == \E i \in DOMAIN reading : reading[i].command # "context_get"

FeatureSet ==
  /\ Stopped
  /\ \E m \in DataSizes : max_data' = m /\ wanted' = IF PropertyIsRead THEN wanted ELSE m
  /\ lookup' = NoLookup /\ UNCHANGED <<engine, stack, calls, active, reading>>

\* The option -m, or the size as it is.
Sizes == DataSizes \cup {max_data}

PropertyGet ==
  /\ Stopped
  /\ \E context \in Context, depth \in 0..MaxCalls, m \in Sizes :
       /\ CanAsk(context, depth)
       /\ active' = Activated(context, depth)
       /\ max_data' = m
       /\ Reads("property_get", context, depth)
  /\ UNCHANGED <<engine, stack, calls, wanted>>

\* A size below 0 is an error, found when the frame has been made active.
PropertyValue ==
  /\ Stopped
  /\ \E context \in Context \ {"constants"}, depth \in 0..MaxCalls, m \in Sizes :
       /\ CanAsk(context, depth)
       /\ active' = Activated(context, depth)
       /\ IF m < 0 THEN reading' = Interrupted(reading) /\ lookup' = NoLookup /\ max_data' = max_data
          ELSE max_data' = m /\ Reads("property_value", context, depth)
  /\ UNCHANGED <<engine, stack, calls, wanted>>

\* Found or not: the size is put back.
PropertyHasBeenRead ==
  /\ Returned /\ Last(reading).command # "context_get"
  /\ max_data' = Last(reading).old_max_data
  /\ reading' = Front(reading)
  /\ lookup' = NoLookup /\ UNCHANGED <<engine, stack, calls, active, wanted>>

\* The assignment is evaluated in the active data when a depth is given; what is
\* current is put back whether or not it can be evaluated.  Data that cannot be
\* decoded are an error, found when the frame has been made active.
PropertySet ==
  /\ Stopped
  /\ \E context \in Context \ {"constants"}, depth \in 0..MaxCalls, decoded \in BOOLEAN :
       /\ context = "locals" => IsDepth(depth)
       /\ active' = Activated(context, depth)
       /\ IF ~decoded THEN lookup' = NoLookup
          ELSE LookedUp("property_set", context, FrameAsked(context, depth), FALSE,
                        [active' EXCEPT !.data = IF depth > 0 THEN @ ELSE Last(engine).data])
  /\ reading' = Interrupted(reading)
  /\ UNCHANGED <<engine, stack, calls, max_data, wanted>>

\* A return value is all that a frame shows then, constants need no frame, and a
\* depth without one is an error: nothing changes.  Otherwise the names of the
\* context are looked up one after the other.
ContextGet ==
  /\ Stopped
  /\ \E context \in {"locals", "superglobals"}, depth \in 0..MaxCalls :
       /\ CanAsk(context, depth)
       /\ active' = IF context = "locals" THEN [Activated(context, depth) EXCEPT !.entry = active.entry]
                    ELSE [active EXCEPT !.data = None, !.table = Globals]
       /\ Reads("context_get", context, depth)
  /\ UNCHANGED <<engine, stack, calls, max_data, wanted>>

NextName ==
  /\ Returned /\ Last(reading).command = "context_get"
  /\ LookedUp("context_get", Last(reading).context, Last(reading).asked, Last(reading).disturbed, active)
  /\ UNCHANGED <<engine, stack, calls, active, max_data, wanted, reading>>

\* What was made active is forgotten at the end: of superglobals, their table.
ContextHasBeenShown ==
  /\ Returned /\ Last(reading).command = "context_get"
  /\ active' = [active EXCEPT !.data = IF Last(reading).context = "locals" THEN None ELSE @,
                              !.table = None]
  /\ reading' = Front(reading)
  /\ lookup' = NoLookup /\ UNCHANGED <<engine, stack, calls, max_data, wanted>>

InspectionNext ==
  ProgramGoesOn \/ FeatureSet \/ PropertyGet \/ PropertyValue \/ PropertyHasBeenRead \/ PropertySet
  \/ ContextGet \/ NextName \/ ContextHasBeenShown

InspectionSpec == InspectionInit /\ [][InspectionNext]_inspectionVars
-----------------------------------------------------------------------------
\* What is active fits the command: the data, the table and the entry of the frame.
RightPlaces(command, context, asked, in) ==
  /\ context = "locals" =>
       /\ in.data = IF asked.hidden THEN NoFunction ELSE asked.data
       /\ in.table \in {None, asked.table}
       /\ command # "context_get" => in.entry = asked.data
  /\ context = "superglobals" =>
       /\ in.table = Globals
       /\ command = "context_get" => in.data = None

\* Whatever was asked before, and wherever the program called, returned or stopped
\* since, a lookup among the variables of a frame uses the data and, for a command
\* about one name, the entry of the frame the client means, and its symbol table
\* unless it got that when it ran already; superglobals are looked up in their
\* table, by context_get without the data of a frame; and while no property is
\* read, the size of strings is the one the client last set while none was
\* (handler_dbgp.c:1786, 1813, 1934, 2022, 2186).  Excepted are: a frame from which
\* PHP itself has called, where no data are found; what a context shows after
\* another command was answered in the middle of it; and the data that a command
\* about one name in the superglobals finds active.
LooksWhereAsked ==
  /\ ~PropertyIsRead => max_data = wanted
  /\ ~lookup.disturbed => RightPlaces(lookup.command, lookup.context, lookup.asked, lookup.in)
=============================================================================
