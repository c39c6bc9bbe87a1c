------------------------------ MODULE Stepping ------------------------------
(***************************************************************************)
(* step_into, step_over and step_out, and the breaks that show a return    *)
(* value: what these commands set (debugger/handler_dbgp.c) and where the  *)
(* program stops because of it (debugger/debugger.c), over the call stack  *)
(* of CallStack.                                                           *)
(*                                                                         *)
(* turn says who runs, the program or the client, and resume where the     *)
(* program goes on when the client lets it: with the next thing it does,   *)
(* in the rest of a statement that made the connection, in the rest of a   *)
(* return whose breakpoint was hit, or at the end of a return.             *)
(*                                                                         *)
(* asked, anchor and event are history: the last step command that is not  *)
(* fulfilled, the calls that were running when it was given, and what just *)
(* happened.                                                               *)
(***************************************************************************)
EXTENDS CallStack

CONSTANT MaxConnections   \* bound: debugging sessions in a request

VARIABLES
  do_break, do_step, do_next, do_finish,
  next_level, next_stack,        \* where step_over was given
  finish_level, finish_func_nr,  \* where step_out was given
  include_return_value,          \* context.breakpoint_include_return_value
  suppress_return_value_step,
  connected, connections,        \* is there a session, how many were there
  do_request_reinit,             \* a FrankenPHP worker's request has not begun yet
  turn, resume,
  asked, anchor, event           \* history

flags    == <<do_break, do_step, do_next, do_finish>>
targets  == <<next_level, next_stack, finish_level, finish_func_nr>>
options  == <<include_return_value, suppress_return_value_step>>
session  == <<connected, connections, do_request_reinit>>
history  == <<asked, anchor, event>>
vars     == <<callStackVars, flags, targets, options, session, turn, resume, history>>

Points == {"run", "statement", "returning", "popping"}
Steps  == {"none", "into", "over", "out"}
Events == Steps \cup {"passed", "broke"}

ASSUME SteppingAssumption == MaxConnections \in Nat

\* A call is known by its fiber and its frame's number.
Calls == [fiber: Fibers, function_nr: Nat]
Call(f, i) == [fiber |-> f, function_nr |-> fiber_stacks[f][i].function_nr]
Here == Call(fiber, Len(stack))
NoAnchor == [fiber |-> None, calls |-> <<>>, alive |-> FALSE]
AnchorHere == [fiber |-> fiber, calls |-> [i \in 1..Len(stack) |-> Call(fiber, i)],
               alive |-> stack # <<>>]

Running == turn = "program" /\ resume = "run"
-----------------------------------------------------------------------------
(* The conditions of debugger.c. *)

\* Faulty: the level counts in every fiber.
NextInAnyFiber == next_level >= Top.level

\* Faulty: a statement of the same call is not deep enough.
NextStrictly ==
  /\ next_stack # None => next_stack = fiber
  /\ next_level > Top.level

next_condition_met ==
  /\ next_stack # None => next_stack = fiber
  /\ next_level >= Top.level

finish_condition_met(break_at_return_scope) ==
  \/ (~break_at_return_scope /\ Top.level < finish_level)
  \/ (break_at_return_scope /\ Top.level <= finish_level)
  \/ (Top.level = finish_level /\ Top.function_nr > finish_func_nr)

\* Control goes to the client; p is where the program goes on afterwards.
Stop(what, p) == turn' = "client" /\ resume' = p /\ event' = what
GoOn(what)    == turn' = "program" /\ resume' = "run" /\ event' = what
-----------------------------------------------------------------------------
(* The program. *)

\* The first call of a request makes a connection before its frame is pushed.
Startup ==
  /\ Running /\ ~connected /\ connections < MaxConnections /\ stack = <<>>
  /\ connected' = TRUE /\ connections' = connections + 1
  /\ Stop("none", "run")
  /\ UNCHANGED <<callStackVars, flags, targets, options, do_request_reinit, asked, anchor>>

\* A session asked for while the program runs starts at the next statement.
ConnectAtStatement ==
  /\ Running /\ ~connected /\ connections < MaxConnections /\ InUserCode
  /\ connected' = TRUE /\ connections' = connections + 1
  /\ Stop("none", "statement")
  /\ UNCHANGED <<callStackVars, flags, targets, options, do_request_reinit, asked, anchor>>

AtStatement == turn = "program" /\ resume \in {"run", "statement"} /\ InUserCode

\* Nobody is connected: nothing is looked at.
StatementUnseen ==
  /\ AtStatement /\ ~connected
  /\ GoOn("none")
  /\ UNCHANGED <<callStackVars, flags, targets, options, session, asked, anchor>>

StatementBreak ==
  /\ AtStatement /\ connected /\ do_break
  /\ suppress_return_value_step' = FALSE
  /\ do_break' = FALSE
  /\ Stop("broke", "run")
  /\ UNCHANGED <<callStackVars, do_step, do_next, do_finish, targets,
                 include_return_value, session, asked, anchor>>

\* The three steps in the order of their tests.
FinishDue == do_finish /\ finish_condition_met(FALSE)
NextDue   == do_next /\ next_condition_met

StatementStep ==
  /\ AtStatement /\ connected /\ ~do_break
  /\ FinishDue \/ NextDue \/ do_step
  /\ suppress_return_value_step' = FALSE
  /\ do_finish' = (do_finish /\ ~FinishDue)
  /\ do_next' = (do_next /\ (FinishDue \/ ~NextDue))
  /\ do_step' = (do_step /\ (FinishDue \/ NextDue))
  /\ Stop(asked, "run") /\ asked' = "none"
  /\ UNCHANGED <<callStackVars, do_break, targets, include_return_value, session, anchor>>

\* No step is due: a line breakpoint is hit, or the program goes on.
StatementLine ==
  /\ AtStatement /\ connected /\ ~do_break /\ ~FinishDue /\ ~NextDue /\ ~do_step
  /\ suppress_return_value_step' = FALSE
  /\ (Stop("broke", "run") \/ GoOn("passed"))
  /\ UNCHANGED <<callStackVars, flags, targets, include_return_value, session, asked, anchor>>

\* A function breakpoint stops in a built-in, and waits for the first statement
\* of a user function.
Enter(f) ==
  /\ Running /\ MayCall(f) /\ (IsUserDefined(f) => ~do_request_reinit) /\ AddStackFrame(f)
  /\ \/ /\ GoOn("none") /\ UNCHANGED do_break
     \/ /\ connected /\ f \in BuiltIn
        /\ Stop("broke", "run") /\ UNCHANGED do_break
     \/ /\ connected /\ IsUserDefined(f)
        /\ GoOn("none") /\ do_break' = TRUE
  /\ UNCHANGED <<do_step, do_next, do_finish, targets, options, session, asked, anchor>>

ReturnBreak ==
  /\ Running /\ MayLeave /\ connected
  /\ Stop("broke", "returning")
  /\ UNCHANGED <<callStackVars, flags, targets, options, session, asked, anchor>>

\* The break that shows a return value; a function left by an exception has none.
AtReturn == turn = "program" /\ resume \in {"run", "returning"} /\ MayLeave
ReturnDue(has_value) ==
  /\ connected /\ include_return_value /\ ~suppress_return_value_step /\ has_value
  /\ do_step \/ (do_finish /\ finish_condition_met(TRUE))

ReturnStep ==
  /\ AtReturn /\ ReturnDue(TRUE)
  /\ do_step' = FALSE
  /\ do_finish' = (do_finish /\ do_step)
  /\ Stop(asked, "popping") /\ asked' = "none"
  /\ UNCHANGED <<callStackVars, do_break, do_next, targets, options, session, anchor>>

Leave ==
  /\ turn = "program" /\ MayLeave
  /\ \/ resume = "popping"
     \/ /\ resume \in {"run", "returning"}
        /\ \E has_value \in BOOLEAN : ~ReturnDue(has_value)
  /\ PopFrame
  /\ GoOn("none")
  /\ UNCHANGED <<flags, targets, options, session, asked, anchor>>

\* The hook of zend_throw_exception; the frames are left afterwards.
Throw ==
  /\ Running /\ stack # <<>> /\ Top.function # FiberMain /\ connected
  /\ suppress_return_value_step' = TRUE
  /\ (GoOn("none") \/ Stop("broke", "run"))
  /\ UNCHANGED <<callStackVars, flags, targets, include_return_value, session, asked, anchor>>

\* pause on the control socket, and xdebug_break()
Pause ==
  /\ Running /\ connected
  /\ do_break' = TRUE
  /\ GoOn("none")
  /\ UNCHANGED <<callStackVars, do_step, do_next, do_finish, targets, options, session,
                 asked, anchor>>

SwitchFiber ==
  /\ Running
  /\ \/ SuspendFiber
     \/ \E f \in Fibers : StartFiber(f) \/ ResumeFiber(f)
  /\ GoOn("none")
  /\ UNCHANGED <<flags, targets, options, session, asked, anchor>>

\* Faulty: next_stack outlives the vector it points to.
FiberEndsUnnoticed ==
  /\ Running /\ EndFiber
  /\ anchor' = IF anchor.fiber = fiber THEN [anchor EXCEPT !.alive = FALSE] ELSE anchor
  /\ GoOn("none")
  /\ UNCHANGED <<flags, targets, options, session, asked>>

\* The vector of a fiber that ends goes away, so step_over must not wait for it.
FiberEnds ==
  /\ Running /\ EndFiber
  /\ next_stack' = IF next_stack = fiber THEN None ELSE next_stack
  /\ anchor' = IF anchor.fiber = fiber THEN [anchor EXCEPT !.alive = FALSE] ELSE anchor
  /\ GoOn("none")
  /\ UNCHANGED <<flags, next_level, finish_level, finish_func_nr, options, session, asked>>
\* Faulty: the steps of the last request are kept.
WorkerRequestKeepingSteps ==
  /\ Running /\ InBuiltIn
  /\ connected' = FALSE /\ do_request_reinit' = TRUE
  /\ do_break' = FALSE
  /\ asked' = "none" /\ anchor' = NoAnchor
  /\ GoOn("none")
  /\ UNCHANGED <<callStackVars, do_step, do_next, do_finish, targets, options, connections>>

\* A FrankenPHP worker waits in a built-in function, where one request ends, with
\* its session, and the next begins.
WorkerRequest ==
  /\ Running /\ InBuiltIn
  /\ connected' = FALSE /\ do_request_reinit' = TRUE
  /\ do_break' = FALSE /\ do_step' = FALSE /\ do_next' = FALSE /\ do_finish' = FALSE
  /\ asked' = "none" /\ anchor' = NoAnchor
  /\ GoOn("none")
  /\ UNCHANGED <<callStackVars, targets, options, connections>>

\* Before the frame of its first user function a request may get a session.
RequestReinit ==
  /\ Running /\ do_request_reinit
  /\ do_request_reinit' = FALSE
  /\ \/ /\ ~connected /\ connections < MaxConnections
        /\ connected' = TRUE /\ connections' = connections + 1
        /\ Stop("none", "run")
     \/ GoOn("none") /\ UNCHANGED <<connected, connections>>
  /\ UNCHANGED <<callStackVars, flags, targets, options, asked, anchor>>
-----------------------------------------------------------------------------
(* The client. *)

\* The program goes on where it was stopped, and nothing has happened yet.
Continue == turn' = "program" /\ event' = "none" /\ UNCHANGED resume
Forget   == anchor' = IF asked = "none" THEN NoAnchor ELSE anchor

Run ==
  /\ turn = "client" /\ Continue /\ Forget
  /\ UNCHANGED <<callStackVars, flags, targets, options, session, asked>>

StepInto ==
  /\ turn = "client" /\ Continue
  /\ do_step' = TRUE /\ do_next' = FALSE /\ do_finish' = FALSE
  /\ asked' = "into" /\ anchor' = AnchorHere
  /\ UNCHANGED <<callStackVars, do_break, targets, options, session>>

StepOver ==
  /\ turn = "client" /\ Continue
  /\ do_step' = FALSE /\ do_next' = TRUE /\ do_finish' = FALSE
  /\ next_level' = IF stack = <<>> THEN 0 ELSE Top.level
  /\ next_stack' = IF stack = <<>> THEN None ELSE fiber
  /\ asked' = "over" /\ anchor' = AnchorHere
  /\ UNCHANGED <<callStackVars, do_break, finish_level, finish_func_nr, options, session>>

StepOut ==
  /\ turn = "client" /\ Continue
  /\ do_step' = FALSE /\ do_next' = FALSE /\ do_finish' = TRUE
  /\ finish_level' = IF stack = <<>> THEN -1 ELSE Top.level
  /\ finish_func_nr' = IF stack = <<>> THEN -1 ELSE Top.function_nr
  /\ asked' = "out" /\ anchor' = AnchorHere
  /\ UNCHANGED <<callStackVars, do_break, next_level, next_stack, options, session>>

\* The code evaluated for the client calls a function; its frame comes and goes.
Eval ==
  /\ turn = "client" /\ function_count < MaxCalls
  /\ function_count' = function_count + 1
  /\ suppress_return_value_step' = FALSE
  /\ UNCHANGED <<fiber_stacks, fiber, resumer, flags, targets, include_return_value,
                 session, turn, resume, history>>

\* detach, or the connection is lost: no flag is cleared.
Detach ==
  /\ turn = "client" /\ Continue /\ Forget
  /\ connected' = FALSE
  /\ UNCHANGED <<callStackVars, flags, targets, options, connections, do_request_reinit, asked>>
-----------------------------------------------------------------------------
Init ==
  /\ CallStackInit
  /\ do_break = FALSE /\ do_step = FALSE /\ do_next = FALSE /\ do_finish = FALSE
  /\ next_level = 0 /\ next_stack = None /\ finish_level = 0 /\ finish_func_nr = 0
  /\ include_return_value \in BOOLEAN /\ suppress_return_value_step = FALSE
  /\ connected = FALSE /\ connections = 0 /\ do_request_reinit = FALSE
  /\ turn = "program" /\ resume = "run"
  /\ asked = "none" /\ anchor = NoAnchor /\ event = "none"

Statement == StatementUnseen \/ StatementBreak \/ StatementStep \/ StatementLine
Return    == ReturnBreak \/ ReturnStep \/ Leave
Program   == \/ Startup \/ ConnectAtStatement \/ Statement \/ Return \/ Throw \/ Pause
             \/ WorkerRequest \/ RequestReinit \/ SwitchFiber \/ FiberEnds \/ \E f \in Functions : Enter(f)
Client    == Run \/ StepInto \/ StepOver \/ StepOut \/ Eval \/ Detach
Next      == Program \/ Client
Spec      == Init /\ [][Next]_vars
-----------------------------------------------------------------------------
TypeOK ==
  /\ CallStackTypeOK
  /\ {do_break, do_step, do_next, do_finish} \subseteq BOOLEAN
  /\ next_level \in Nat /\ next_stack \in Fibers \cup {None}
  /\ finish_level \in Int /\ finish_func_nr \in Int
  /\ {include_return_value, suppress_return_value_step, connected, do_request_reinit} \subseteq BOOLEAN
  /\ connections \in 0..MaxConnections
  /\ turn \in {"program", "client"} /\ resume \in Points
  /\ asked \in Steps /\ event \in Events
  /\ anchor \in [fiber: Fibers \cup {None}, calls: Seq(Calls), alive: BOOLEAN]

\* The vector step_over waits for exists, however fibers came and went since,
\* so a later fiber at its address is never taken for it (base.c:1152).
NextStackIsLive == next_stack \in DOMAIN fiber_stacks \cup {None}

\* Was this call running when the step was asked for?
WasRunning(c) == anchor.alive /\ \E i \in 1..Len(anchor.calls) : anchor.calls[i] = c
Asked == anchor.calls[Len(anchor.calls)]
IsCalledBy(c) == \E i \in 1..(Len(stack) - 1) : Call(fiber, i) = c

\* The call is not on the stack of its fiber any more, or the fiber has ended.
HasGone(c) ==
  anchor.alive => \A i \in 1..Len(fiber_stacks[anchor.fiber]) : Call(anchor.fiber, i) # c

\* A step stops where it was asked to (debugger.c:249, 264): stepping over, in
\* nothing the call it was asked in has called, and in no other fiber while its
\* own exists; stepping out, in its own fiber, only when that call has gone or is
\* at its return.  Only the level is compared when stepping out, so another fiber
\* is stopped in while the call is suspended, but in no deeper call.
StopsAreDue ==
  /\ event = "over" =>
       /\ anchor.calls # <<>> /\ ~IsCalledBy(Asked)
       /\ anchor.alive => fiber = anchor.fiber
  /\ event = "out" =>
       /\ anchor.calls # <<>>
       /\ \/ HasGone(Asked)
          \/ Here = Asked /\ resume = "popping"
          \/ fiber # anchor.fiber /\ Len(stack) <= Len(anchor.calls)

\* No statement is passed at which a step has to stop: any for step_into; for
\* step_over and step_out those of the calls that were running, without the one
\* that is left; and the main script's when the fiber that was stepped in ended.
NothingMissed ==
  event = "passed" =>
    /\ asked # "into"
    /\ asked = "over" => ~WasRunning(Here)
    /\ asked = "out" => (WasRunning(Here) => Here = Asked)
    /\ asked = "over" /\ anchor.calls # <<>> /\ ~anchor.alive => Len(stack) > 1

\* The flags the commands set are those of the last step asked for, whatever
\* stopped the program since: never two at once, none that was fulfilled.
FlagsAgree ==
  /\ do_step = (asked = "into") /\ do_next = (asked = "over")
  /\ do_finish = (asked = "out")
=============================================================================
