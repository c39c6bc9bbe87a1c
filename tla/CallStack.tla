----------------------------- MODULE CallStack -----------------------------
(***************************************************************************)
(* The call stack Xdebug keeps of the running PHP program (base/base.c): a *)
(* vector of frames for every fiber, of which XG_BASE(stack) is the one    *)
(* that runs.  The engine's observers push a frame when a function is      *)
(* entered and pop one when it is left; a switch of fibers selects another *)
(* vector, makes it for a fiber that starts and frees it for one that has  *)
(* ended.                                                                  *)
(*                                                                         *)
(* A vector is named after the fiber context whose address is its key in   *)
(* XG_BASE(fiber_stacks).  A context that has ended frees its address, so  *)
(* a later fiber can be found under the same name.                         *)
(*                                                                         *)
(* Stepping and Observers extend this module with what the parts of Xdebug *)
(* do at these events; it has no next-state relation of its own.           *)
(***************************************************************************)
EXTENDS Integers, Sequences

CONSTANTS
  Functions,          \* of the program, the main script among them
  BuiltIn,            \* those that are written in C
  Fibers, MainFiber,  \* addresses of fiber contexts
  None,               \* no fiber, a NULL pointer
  MaxDepth,           \* bound: frames in a vector
  MaxCalls            \* bound: frames pushed in a request

VARIABLES
  fiber_stacks,   \* fiber -> its frames, the outermost first
  fiber,          \* the running fiber: XG_BASE(stack) is fiber_stacks[fiber]
  resumer,        \* engine: the fiber a running one goes back to, None for the others
  function_count  \* XG_BASE(function_count)

callStackVars == <<fiber_stacks, fiber, resumer, function_count>>

FiberMain == "{fiber}"   \* the function of the frame a fiber starts with

ASSUME CallStackAssumption ==
  /\ BuiltIn \subseteq Functions /\ FiberMain \notin Functions
  /\ MainFiber \in Fibers /\ None \notin Fibers
  /\ MaxDepth \in Nat /\ MaxCalls \in Nat

\* The call of add_fiber_main leaves function_nr as xdebug_vector_push cleared it.
Frame == [function: Functions \cup {FiberMain}, level: Nat, function_nr: Nat]

stack == fiber_stacks[fiber]
Top   == stack[Len(stack)]
IsUserDefined(f) == f \in Functions \ BuiltIn
-----------------------------------------------------------------------------
CallStackInit ==
  /\ fiber_stacks = [f \in {MainFiber} |-> <<>>]
  /\ fiber = MainFiber
  /\ resumer = [f \in Fibers |-> None]
  /\ function_count = -1

\* Faulty: the level is taken before the frame is in the vector.
AddFrameBelow(f) ==
  /\ Len(stack) < MaxDepth /\ function_count < MaxCalls
  /\ function_count' = function_count + 1
  /\ fiber_stacks' = [fiber_stacks EXCEPT ![fiber] = Append(@,
       [function |-> f, level |-> Len(@), function_nr |-> function_count + 1])]
  /\ UNCHANGED <<fiber, resumer>>

AddStackFrame(f) ==
  /\ Len(stack) < MaxDepth /\ function_count < MaxCalls
  /\ function_count' = function_count + 1
  /\ fiber_stacks' = [fiber_stacks EXCEPT ![fiber] = Append(@,
       [function |-> f, level |-> Len(@) + 1, function_nr |-> function_count + 1])]
  /\ UNCHANGED <<fiber, resumer>>

\* Code runs only in a frame of a user function; a built-in calls and switches.
InUserCode == Len(stack) > 0 /\ IsUserDefined(Top.function)

\* An empty stack takes the main script, or a function called at shutdown.
MayCall(f) == IF stack = <<>> THEN IsUserDefined(f) ELSE TRUE

MayLeave == Len(stack) > 0 /\ Top.function # FiberMain

PopFrame ==
  /\ MayLeave
  /\ fiber_stacks' = [fiber_stacks EXCEPT ![fiber] = SubSeq(@, 1, Len(@) - 1)]
  /\ UNCHANGED <<fiber, resumer, function_count>>

\* create_stack_for_fiber and add_fiber_main
NewStack == <<[function |-> FiberMain, level |-> 1, function_nr |-> 0]>>

\* xdebug_fiber_switch_observer, for the three pairs of states the engine
\* switches between.  Fiber::start, resume and suspend are built-in functions,
\* so their frame is on top when the engine switches.
InBuiltIn == Len(stack) > 0 /\ Top.function \in BuiltIn

StartFiber(f) ==
  /\ InBuiltIn /\ f \notin DOMAIN fiber_stacks
  /\ fiber_stacks' = [g \in DOMAIN fiber_stacks \cup {f} |->
                        IF g = f THEN NewStack ELSE fiber_stacks[g]]
  /\ fiber' = f
  /\ resumer' = [resumer EXCEPT ![f] = fiber]
  /\ UNCHANGED function_count

ResumeFiber(f) ==
  /\ InBuiltIn /\ f \in DOMAIN fiber_stacks \ {MainFiber, fiber} /\ resumer[f] = None
  /\ fiber' = f
  /\ resumer' = [resumer EXCEPT ![f] = fiber]
  /\ UNCHANGED <<fiber_stacks, function_count>>

\* The engine ends a fiber that nothing resumes any more: its calls are left.
DestroyFiber(f) ==
  /\ stack = <<>> /\ f \in DOMAIN fiber_stacks \ {fiber} /\ resumer[f] = None
  /\ fiber' = f
  /\ resumer' = [resumer EXCEPT ![f] = fiber]
  /\ UNCHANGED <<fiber_stacks, function_count>>

SuspendFiber ==
  /\ InBuiltIn /\ resumer[fiber] # None
  /\ fiber' = resumer[fiber]
  /\ resumer' = [resumer EXCEPT ![fiber] = None]
  /\ UNCHANGED <<fiber_stacks, function_count>>

\* Faulty: XG_BASE(stack) keeps pointing at the vector that was freed.
EndFiberStaying ==
  /\ Len(stack) = 1 /\ Top.function = FiberMain
  /\ fiber_stacks' = [g \in DOMAIN fiber_stacks \ {fiber} |-> fiber_stacks[g]]
  /\ resumer' = [resumer EXCEPT ![fiber] = None]
  /\ UNCHANGED <<fiber, function_count>>

\* The fiber's function has returned: remove_stack_for_fiber, back to the resumer.
EndFiber ==
  /\ Len(stack) = 1 /\ Top.function = FiberMain
  /\ fiber_stacks' = [g \in DOMAIN fiber_stacks \ {fiber} |-> fiber_stacks[g]]
  /\ fiber' = resumer[fiber]
  /\ resumer' = [resumer EXCEPT ![fiber] = None]
  /\ UNCHANGED function_count
-----------------------------------------------------------------------------
CallStackTypeOK ==
  /\ DOMAIN fiber_stacks \subseteq Fibers /\ MainFiber \in DOMAIN fiber_stacks
  /\ fiber_stacks \in [DOMAIN fiber_stacks -> Seq(Frame)]
  /\ fiber \in DOMAIN fiber_stacks
  /\ resumer \in [Fibers -> Fibers \cup {None}]
  /\ function_count \in -1..MaxCalls

\* What the step commands rely on: a frame's level is its place in the vector,
\* and of two frames in a vector the inner one has the greater number, the first
\* frame of a fiber included, which is not counted (base.c:1100).
LevelsAndNumbers ==
  \A f \in DOMAIN fiber_stacks : LET s == fiber_stacks[f] IN
    \A i \in 1..Len(s) :
      /\ s[i].level = i
      /\ s[i].function_nr <= function_count
      /\ \A j \in 1..(i - 1) : s[j].function_nr < s[i].function_nr

\* A fiber that someone waits for has a stack to come back to.
ResumersLive ==
  \A f \in Fibers : resumer[f] # None =>
    /\ f \in DOMAIN fiber_stacks \ {MainFiber} /\ resumer[f] \in DOMAIN fiber_stacks
=============================================================================
