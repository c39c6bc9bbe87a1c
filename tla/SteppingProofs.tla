--------------------------- MODULE SteppingProofs ---------------------------
(***************************************************************************)
(* The invariants of Stepping, for every program, any number of fibers and *)
(* every bound.  They rest on what CallStackProofs says of the stacks and  *)
(* the numbers of their frames, and on what these say about the step that  *)
(* is asked for.                                                           *)
(***************************************************************************)
EXTENDS Stepping, CallStackProofs

\* The calls that ran when the step was asked for: their numbers grow and have
\* been given, and where one of them is found now it is at the place it had, in
\* a later fiber at the same address too.
AnchorInv ==
  /\ anchor.alive => anchor.fiber \in DOMAIN fiber_stacks
  /\ \A k \in 1..Len(anchor.calls) :
       /\ anchor.calls[k].fiber = anchor.fiber
       /\ anchor.calls[k].function_nr <= function_count
       /\ \A j \in 1..(k - 1) : anchor.calls[j].function_nr < anchor.calls[k].function_nr
  /\ anchor.fiber \in DOMAIN fiber_stacks =>
       \A i \in 1..Len(fiber_stacks[anchor.fiber]), k \in 1..Len(anchor.calls) :
         fiber_stacks[anchor.fiber][i].function_nr = anchor.calls[k].function_nr => i = k

\* What the step commands noted is where the client asked for the step.
TargetsInv ==
  /\ asked = "over" =>
       /\ next_level = Len(anchor.calls)
       /\ next_stack = IF anchor.alive THEN anchor.fiber ELSE None
  /\ asked = "out" =>
       IF anchor.calls = <<>> THEN finish_level = -1
       ELSE finish_level = Len(anchor.calls) /\ finish_func_nr = Asked.function_nr

SteppingInv == /\ TypeOK /\ CallStackInv /\ AnchorInv /\ TargetsInv
               /\ NextStackIsLive /\ FlagsAgree /\ StopsAreDue /\ NothingMissed
-----------------------------------------------------------------------------
(* Steps of the program and of the client.                                    *)

\* The calls of the running fiber, as a step command notes them.
LEMMA AnchorHereOK ==
  ASSUME CallStackTypeOK, LevelsAndNumbers
  PROVE  /\ AnchorHere \in [fiber: Fibers \cup {None}, calls: Seq(Calls), alive: BOOLEAN]
         /\ AnchorHere.fiber = fiber /\ (AnchorHere.alive <=> stack # <<>>)
         /\ Len(AnchorHere.calls) = Len(stack)
         /\ \A k \in 1..Len(stack) :
              /\ AnchorHere.calls[k].fiber = fiber
              /\ AnchorHere.calls[k].function_nr = stack[k].function_nr
<1> DEFINE calls == [i \in 1..Len(stack) |-> Call(fiber, i)]
<1>1. fiber \in DOMAIN fiber_stacks /\ fiber \in Fibers
  BY DEF CallStackTypeOK
<1>2. Len(stack) \in Nat /\ \A k \in 1..Len(stack) : stack[k].function_nr \in Nat
  BY <1>1, Frames DEF stack
<1>3. \A k \in 1..Len(stack) :
        /\ Call(fiber, k) = [fiber |-> fiber, function_nr |-> stack[k].function_nr]
        /\ Call(fiber, k).fiber = fiber /\ Call(fiber, k).function_nr = stack[k].function_nr
  BY DEF Call, stack
<1>4. \A k \in 1..Len(stack) : Call(fiber, k) \in Calls
  BY <1>1, <1>2, <1>3 DEF Calls
<1>5. calls \in Seq(Calls)
  BY <1>2, <1>4, SeqDef
<1>6. Len(calls) = Len(stack)
  BY <1>2
<1>7. \A k \in 1..Len(stack) : calls[k].fiber = fiber /\ calls[k].function_nr = stack[k].function_nr
  BY <1>3
<1> HIDE DEF calls
<1>8. AnchorHere = [fiber |-> fiber, calls |-> calls, alive |-> stack # <<>>]
  BY DEF AnchorHere, calls
<1> QED BY <1>1, <1>5, <1>6, <1>7, <1>8

\* What happens to the call stack in a step.
LEMMA CallStackSteps ==
  ASSUME Next
  PROVE  \/ UNCHANGED callStackVars
         \/ \E f \in Functions : AddStackFrame(f)
         \/ PopFrame \/ SuspendFiber \/ EndFiber
         \/ \E f \in Fibers : StartFiber(f) \/ ResumeFiber(f)
         \/ Eval
BY DEF Next, Program, Client, Statement, Return, Startup, ConnectAtStatement, StatementUnseen,
       StatementBreak, StatementStep, StatementLine, Enter, ReturnBreak, ReturnStep, Leave,
       Throw, Pause, SwitchFiber, FiberEnds, WorkerRequest, RequestReinit, Run, StepInto,
       StepOver, StepOut, Detach

\* The same for all that the properties look at, but the options and the session.
LEMMA CallStackPreserved ==
  ASSUME CallStackInv, [Next]_vars
  PROVE  CallStackInv'
<1>1. CASE UNCHANGED callStackVars
  BY <1>1 DEF CallStackInv, CallStackTypeOK, LevelsAndNumbers, ResumersLive, Chain,
              MainHasNoFiberMain, callStackVars
<1>2. CASE Eval
  <2>1. /\ fiber_stacks' = fiber_stacks /\ fiber' = fiber /\ resumer' = resumer
        /\ function_count' = function_count + 1 /\ function_count < MaxCalls
    BY <1>2 DEF Eval
  <2>2. function_count \in -1..MaxCalls /\ MaxCalls \in Nat
    BY CallStackAssumption DEF CallStackInv, CallStackTypeOK
  <2>3. CallStackTypeOK' /\ ResumersLive' /\ Chain' /\ MainHasNoFiberMain'
    BY <2>1, <2>2 DEF CallStackInv, CallStackTypeOK, ResumersLive, Chain, MainHasNoFiberMain
  <2>4. LevelsAndNumbers'
    <3> SUFFICES ASSUME NEW g \in DOMAIN fiber_stacks, NEW i \in 1..Len(fiber_stacks[g])
                 PROVE  /\ fiber_stacks[g][i].level = i
                        /\ fiber_stacks[g][i].function_nr <= function_count'
                        /\ \A j \in 1..(i - 1) :
                             fiber_stacks[g][j].function_nr < fiber_stacks[g][i].function_nr
      BY <2>1 DEF LevelsAndNumbers
    <3>1. /\ fiber_stacks[g][i].level = i /\ fiber_stacks[g][i].function_nr \in Nat
          /\ fiber_stacks[g][i].function_nr <= function_count
          /\ \A j \in 1..(i - 1) : fiber_stacks[g][j].function_nr < fiber_stacks[g][i].function_nr
      BY Frames DEF CallStackInv
    <3> QED BY <3>1, <2>1, <2>2
  <2> QED BY <2>3, <2>4 DEF CallStackInv
<1>3. CASE vars' = vars
  BY <1>1, <1>3 DEF vars
<1> QED BY <1>1, <1>2, <1>3, CallStackSteps, PushedInv, PoppedInv, StartedInv, ResumedInv,
           SuspendedInv, EndedInv

\* The place a step command notes.
LEMMA TopOK ==
  ASSUME CallStackTypeOK, LevelsAndNumbers, stack # <<>>
  PROVE  /\ Len(stack) \in Nat \ {0} /\ Top.level = Len(stack) /\ Top.function_nr \in Nat
         /\ Top = stack[Len(stack)]
<1>1. fiber \in DOMAIN fiber_stacks
  BY DEF CallStackTypeOK
<1>2. stack \in Seq(Frame) /\ Len(stack) \in Nat
      /\ \A k \in 1..Len(stack) : stack[k].level = k /\ stack[k].function_nr \in Nat
  BY <1>1, Frames DEF stack
<1>3. Len(stack) \in 1..Len(stack)
  BY <1>2, EmptySeq
<1> QED BY <1>2, <1>3 DEF Top

LEMMA TypePreserved ==
  ASSUME TypeOK, CallStackInv, [Next]_vars
  PROVE  TypeOK'
<1>1. CallStackTypeOK'
  BY CallStackPreserved DEF CallStackInv
<1>2. ASSUME StepInto \/ StepOver \/ StepOut
      PROVE  TypeOK'
  <2>1. AnchorHere \in [fiber: Fibers \cup {None}, calls: Seq(Calls), alive: BOOLEAN]
    BY AnchorHereOK DEF CallStackInv
  <2>2. stack # <<>> => Top.level \in Nat /\ Top.function_nr \in Nat
    BY TopOK DEF CallStackInv
  <2>3. fiber \in Fibers
    BY DEF CallStackInv, CallStackTypeOK
  <2>4. anchor' = AnchorHere /\ asked' \in Steps /\ event' = "none" /\ turn' = "program"
        /\ resume' = resume /\ connections' = connections
        /\ UNCHANGED <<include_return_value, suppress_return_value_step, connected, do_request_reinit>>
    BY <1>2 DEF StepInto, StepOver, StepOut, Continue, Steps, options, session
  <2>5. {do_break', do_step', do_next', do_finish'} \subseteq BOOLEAN
    BY <1>2 DEF TypeOK, StepInto, StepOver, StepOut
  <2>6. next_level' \in Nat /\ next_stack' \in Fibers \cup {None}
    BY <1>2, <2>2, <2>3 DEF TypeOK, StepInto, StepOver, StepOut, targets
  <2>7. finish_level' \in Int /\ finish_func_nr' \in Int
    BY <1>2, <2>2 DEF TypeOK, StepInto, StepOver, StepOut, targets
  <2> QED BY <1>1, <2>1, <2>4, <2>5, <2>6, <2>7 DEF TypeOK, Steps, Events
<1>3. ASSUME Startup \/ ConnectAtStatement \/ RequestReinit
      PROVE  TypeOK'
  <2>1. connections' \in 0..MaxConnections
    <3>1. \/ connections' = connections
          \/ connections < MaxConnections /\ connections' = connections + 1
      <4>1. CASE Startup
        BY <4>1 DEF Startup
      <4>2. CASE ConnectAtStatement
        BY <4>2 DEF ConnectAtStatement
      <4>3. CASE RequestReinit
        BY <4>3 DEF RequestReinit
      <4> QED BY <1>3, <4>1, <4>2, <4>3
    <3>2. connections \in 0..MaxConnections /\ MaxConnections \in Nat
      BY SteppingAssumption DEF TypeOK
    <3> QED BY <3>1, <3>2
  <2>2. UNCHANGED <<flags, targets, options, asked, anchor>> /\ {connected', do_request_reinit'} \subseteq BOOLEAN
    BY <1>3 DEF TypeOK, Startup, ConnectAtStatement, RequestReinit
  <2>3. event' = "none" /\ turn' \in {"program", "client"} /\ resume' \in Points
    BY <1>3 DEF Startup, ConnectAtStatement, RequestReinit, Stop, GoOn, Points
  <2> QED BY <1>1, <2>1, <2>2, <2>3 DEF TypeOK, Steps, Events, flags, options, targets
<1>4. ASSUME Statement
      PROVE  TypeOK'
  BY <1>1, <1>4 DEF TypeOK, Statement, StatementUnseen, StatementBreak, StatementStep,
     StatementLine, Stop, GoOn, Points, Steps, Events, flags, options, targets, session
<1>5. ASSUME Return \/ Throw \/ Pause \/ SwitchFiber \/ Eval
      PROVE  TypeOK'
  BY <1>1, <1>5 DEF TypeOK, Return, ReturnBreak, ReturnStep, Leave, Throw, Pause, SwitchFiber, Eval,
     Stop, GoOn, Points, Steps, Events, flags, options, targets, session, history
<1>6. ASSUME NEW f \in Functions, Enter(f)
      PROVE  TypeOK'
  BY <1>1, <1>6 DEF TypeOK, Enter, Stop, GoOn, Points, Steps, Events, flags, options, targets, session
<1>7. NoAnchor \in [fiber: Fibers \cup {None}, calls: Seq(Calls), alive: BOOLEAN]
  BY EmptySeq DEF NoAnchor
<1>8. ASSUME WorkerRequest \/ FiberEnds
      PROVE  TypeOK'
  BY <1>1, <1>7, <1>8 DEF TypeOK, WorkerRequest, FiberEnds, GoOn, Points, Steps, Events, flags, options,
     targets, session
<1>9. ASSUME Run \/ Detach
      PROVE  TypeOK'
  BY <1>1, <1>7, <1>9 DEF TypeOK, Run, Detach, Continue, Forget, Points, Steps, Events, flags, options,
     targets, session
<1>10. CASE vars' = vars
  BY <1>1, <1>10 DEF TypeOK, vars, flags, targets, options, session, history
<1> QED BY <1>2, <1>3, <1>4, <1>5, <1>6, <1>8, <1>9, <1>10 DEF Next, Program, Client

\* Which steps touch the flags, which the places the step commands note, and
\* which the calls that ran then.
LEMMA FlagSteps ==
  ASSUME [Next]_vars
  PROVE  \/ UNCHANGED <<do_step, do_next, do_finish, asked>>
         \/ StatementStep \/ ReturnStep \/ WorkerRequest \/ StepInto \/ StepOver \/ StepOut
BY DEF Next, Program, Client, Statement, Return, Startup, ConnectAtStatement, StatementUnseen,
       StatementBreak, StatementLine, Enter, ReturnBreak, Leave, Throw, Pause, SwitchFiber,
       FiberEnds, RequestReinit, Run, Eval, Detach, vars, flags, history

LEMMA TargetSteps ==
  ASSUME [Next]_vars
  PROVE  \/ UNCHANGED <<targets, anchor>> /\ asked' \in {asked, "none"}
         \/ UNCHANGED <<targets, asked>> /\ Forget
         \/ WorkerRequest \/ StepInto \/ StepOver \/ StepOut \/ FiberEnds
<1>1. CASE vars' = vars
  BY <1>1 DEF vars, targets, history
<1>2. CASE Program
  BY <1>2 DEF Program, Statement, Return, Startup, ConnectAtStatement, StatementUnseen,
       StatementBreak, StatementStep, StatementLine, Enter, ReturnBreak, ReturnStep, Leave,
       Throw, Pause, SwitchFiber, RequestReinit
<1>3. CASE Client
  BY <1>3 DEF Client, Run, Eval, Detach, history
<1> QED BY <1>1, <1>2, <1>3 DEF Next

LEMMA AnchorSteps ==
  ASSUME [Next]_vars
  PROVE  \/ UNCHANGED <<callStackVars, anchor>>
         \/ UNCHANGED callStackVars /\ anchor' \in {anchor, NoAnchor, AnchorHere}
         \/ UNCHANGED anchor /\ (PopFrame \/ SuspendFiber \/ Eval \/ \E f \in Functions : AddStackFrame(f))
         \/ UNCHANGED anchor /\ \E f \in Fibers : StartFiber(f) \/ ResumeFiber(f)
         \/ FiberEnds
<1>1. CASE vars' = vars
  BY <1>1 DEF vars, history
<1>2. CASE Program
  BY <1>2 DEF Program, Statement, Return, Startup, ConnectAtStatement, StatementUnseen,
       StatementBreak, StatementStep, StatementLine, Enter, ReturnBreak, ReturnStep, Leave,
       Throw, Pause, SwitchFiber, WorkerRequest, RequestReinit
<1>3. CASE Client
  BY <1>3 DEF Client, Run, StepInto, StepOver, StepOut, Eval, Detach, Forget, history
<1> QED BY <1>1, <1>2, <1>3 DEF Next

LEMMA NextStackPreserved ==
  ASSUME CallStackInv, TypeOK, NextStackIsLive, [Next]_vars
  PROVE  NextStackIsLive'
<1>1. DOMAIN fiber_stacks \subseteq DOMAIN fiber_stacks' \/ FiberEnds
  <2>1. CASE UNCHANGED callStackVars
    BY <2>1 DEF callStackVars
  <2>2. ASSUME PopFrame \/ SuspendFiber \/ Eval \/ \E f \in Functions : AddStackFrame(f)
        PROVE  DOMAIN fiber_stacks' = DOMAIN fiber_stacks
    BY <2>2, Popped, Pushed DEF CallStackInv, SuspendFiber, Eval
  <2>3. ASSUME NEW f \in Fibers, StartFiber(f) \/ ResumeFiber(f)
        PROVE  DOMAIN fiber_stacks \subseteq DOMAIN fiber_stacks'
    BY <2>3 DEF StartFiber, ResumeFiber
  <2> QED BY <2>1, <2>2, <2>3, AnchorSteps
<1>2. CASE FiberEnds
  <2>1. DOMAIN fiber_stacks' = DOMAIN fiber_stacks \ {fiber}
    BY <1>2, EndedInv DEF FiberEnds
  <2>2. next_stack' = IF next_stack = fiber THEN None ELSE next_stack
    BY <1>2 DEF FiberEnds
  <2> QED BY <2>1, <2>2 DEF NextStackIsLive
<1>3. CASE StepOver
  <2>1. next_stack' \in {None, fiber} /\ fiber_stacks' = fiber_stacks
    BY <1>3 DEF StepOver, callStackVars
  <2> QED BY <2>1 DEF NextStackIsLive, CallStackInv, CallStackTypeOK
<1>4. CASE ~FiberEnds /\ ~StepOver
  <2>1. next_stack' = next_stack
    BY <1>4, TargetSteps DEF targets, WorkerRequest, StepInto, StepOut
  <2> QED BY <1>1, <1>4, <2>1 DEF NextStackIsLive
<1> QED BY <1>2, <1>3, <1>4

LEMMA FlagsPreserved ==
  ASSUME FlagsAgree, [Next]_vars
  PROVE  FlagsAgree'
<1>1. CASE UNCHANGED <<do_step, do_next, do_finish, asked>>
  BY <1>1 DEF FlagsAgree
<1>2. CASE StatementStep
  <2>1. /\ do_finish' = (do_finish /\ ~FinishDue)
        /\ do_next' = (do_next /\ (FinishDue \/ ~NextDue))
        /\ do_step' = (do_step /\ (FinishDue \/ NextDue))
        /\ FinishDue \/ NextDue \/ do_step
        /\ asked' = "none"
    BY <1>2 DEF StatementStep
  <2>2. (FinishDue => asked = "out") /\ (NextDue => asked = "over")
    BY DEF FinishDue, NextDue, FlagsAgree
  <2>3. do_finish' = FALSE /\ do_next' = FALSE /\ do_step' = FALSE
    <3>1. CASE asked = "out"
      BY <3>1, <2>1, <2>2 DEF FlagsAgree
    <3>2. CASE asked = "over"
      BY <3>2, <2>1, <2>2 DEF FlagsAgree
    <3>3. CASE asked \notin {"out", "over"}
      BY <3>3, <2>1, <2>2 DEF FlagsAgree
    <3> QED BY <3>1, <3>2, <3>3
  <2> QED BY <2>1, <2>3 DEF FlagsAgree
<1>3. CASE ReturnStep
  <2>1. /\ do_step' = FALSE /\ do_finish' = (do_finish /\ do_step) /\ do_next' = do_next
        /\ asked' = "none" /\ (do_step \/ do_finish)
    BY <1>3 DEF ReturnStep, ReturnDue
  <2> QED BY <2>1 DEF FlagsAgree
<1>4. CASE WorkerRequest
  BY <1>4 DEF WorkerRequest, FlagsAgree
<1>5. CASE StepInto \/ StepOver \/ StepOut
  BY <1>5 DEF StepInto, StepOver, StepOut, FlagsAgree
<1> QED BY <1>1, <1>2, <1>3, <1>4, <1>5, FlagSteps

\* What is known of the calls that ran.
LEMMA AnchorCalls ==
  ASSUME TypeOK, AnchorInv
  PROVE  /\ Len(anchor.calls) \in Nat /\ anchor.calls \in Seq(Calls)
         /\ anchor.calls # <<>> <=> Len(anchor.calls) > 0
         /\ \A k \in 1..Len(anchor.calls) :
              /\ anchor.calls[k].function_nr \in Nat
              /\ anchor.calls[k].function_nr <= function_count
              /\ anchor.calls[k] = [fiber |-> anchor.fiber, function_nr |-> anchor.calls[k].function_nr]
<1>1. anchor.calls \in Seq(Calls)
  BY DEF TypeOK
<1>2. Len(anchor.calls) \in Nat
  BY <1>1, LenProperties
<1>3. anchor.calls # <<>> <=> Len(anchor.calls) > 0
  BY <1>1, <1>2, EmptySeq
<1>4. \A k \in 1..Len(anchor.calls) : anchor.calls[k] \in Calls
  BY <1>1, ElementOfSeq
<1>5. \A k \in 1..Len(anchor.calls) :
        anchor.calls[k].fiber = anchor.fiber /\ anchor.calls[k].function_nr <= function_count
  BY DEF AnchorInv
<1>6. \A k \in 1..Len(anchor.calls) :
        /\ anchor.calls[k].function_nr \in Nat
        /\ anchor.calls[k] = [fiber |-> anchor.calls[k].fiber, function_nr |-> anchor.calls[k].function_nr]
  BY <1>4 DEF Calls
<1> QED BY <1>1, <1>2, <1>3, <1>5, <1>6

\* The part of AnchorInv that compares the calls with a vector.
Placed(s, c) == \A i \in 1..Len(s), k \in 1..Len(c) : s[i].function_nr = c[k].function_nr => i = k

LEMMA AnchorPreserved ==
  ASSUME TypeOK, CallStackInv, AnchorInv, [Next]_vars
  PROVE  AnchorInv'
<1>1. CASE UNCHANGED <<callStackVars, anchor>>
  BY <1>1 DEF AnchorInv, callStackVars
<1>2. CASE UNCHANGED callStackVars /\ anchor' = NoAnchor
  <2>1. None \notin DOMAIN fiber_stacks
    BY CallStackAssumption DEF CallStackInv, CallStackTypeOK
  <2>2. anchor' = [fiber |-> None, calls |-> <<>>, alive |-> FALSE]
    BY <1>2 DEF NoAnchor
  <2> QED BY <1>2, <2>1, <2>2 DEF AnchorInv, callStackVars
<1>3. CASE UNCHANGED callStackVars /\ anchor' = AnchorHere
  <2>1. /\ anchor'.fiber = fiber /\ Len(anchor'.calls) = Len(stack)
        /\ \A k \in 1..Len(stack) : /\ anchor'.calls[k].fiber = fiber
                                    /\ anchor'.calls[k].function_nr = stack[k].function_nr
    BY <1>3, AnchorHereOK DEF CallStackInv
  <2>2. \A k \in 1..Len(stack) : anchor'.calls[k].function_nr = stack[k].function_nr
    BY <2>1
  <2>3. fiber \in DOMAIN fiber_stacks /\ Len(stack) \in Nat
        /\ \A k \in 1..Len(stack) :
             /\ stack[k].function_nr \in Nat /\ stack[k].function_nr <= function_count
             /\ \A j \in 1..(k - 1) : stack[j].function_nr < stack[k].function_nr
    <3>1. fiber \in DOMAIN fiber_stacks
      BY DEF CallStackInv, CallStackTypeOK
    <3> QED BY <3>1, Frames DEF CallStackInv, stack
  <2>4. \A k \in 1..Len(stack) : \A j \in 1..(k - 1) : j \in 1..Len(stack)
    BY <2>3
  <2>5. \A k \in 1..Len(anchor'.calls) :
          /\ anchor'.calls[k].fiber = anchor'.fiber
          /\ anchor'.calls[k].function_nr <= function_count
          /\ \A j \in 1..(k - 1) : anchor'.calls[j].function_nr < anchor'.calls[k].function_nr
    BY <2>1, <2>3, <2>4, <2>2
  <2>6. \A i \in 1..Len(stack), k \in 1..Len(stack) : stack[i].function_nr = stack[k].function_nr => i = k
    <3> SUFFICES ASSUME NEW i \in 1..Len(stack), NEW k \in 1..Len(stack), i # k
                 PROVE  stack[i].function_nr # stack[k].function_nr
      OBVIOUS
    <3>1. i \in 1..(k - 1) \/ k \in 1..(i - 1)
      BY <2>3
    <3>2. stack[i].function_nr < stack[k].function_nr \/ stack[k].function_nr < stack[i].function_nr
      BY <3>1, <2>3
    <3> QED BY <3>2, <2>3
  <2>7. fiber_stacks' = fiber_stacks /\ function_count' = function_count /\ stack = fiber_stacks[anchor'.fiber]
    BY <1>3, <2>1 DEF callStackVars, stack
  <2>8. Placed(fiber_stacks[anchor'.fiber], anchor'.calls)
    BY <2>1, <2>6, <2>7, <2>2 DEF Placed
  <2> QED BY <2>1, <2>3, <2>5, <2>7, <2>8 DEF AnchorInv, Placed
<1> DEFINE s == fiber_stacks[anchor.fiber]
           c == anchor.calls
<1>4. /\ Len(c) \in Nat /\ function_count \in Int
      /\ \A k \in 1..Len(c) : c[k].function_nr \in Nat /\ c[k].function_nr <= function_count
  <2>1. function_count \in Int
    BY CallStackAssumption DEF CallStackInv, CallStackTypeOK
  <2> QED BY <2>1, AnchorCalls
<1>5. anchor.fiber \in DOMAIN fiber_stacks => Placed(s, c) /\ Len(s) \in Nat
  BY Frames DEF AnchorInv, Placed, CallStackInv
\* The steps that leave what is noted alone.
<1>6. ASSUME UNCHANGED anchor,
             \/ function_count' = function_count
             \/ function_count' = function_count + 1,
             anchor.alive => anchor.fiber \in DOMAIN fiber_stacks',
             anchor.fiber \in DOMAIN fiber_stacks' => Placed(fiber_stacks'[anchor.fiber], c)
      PROVE  AnchorInv'
  <2>1. \A k \in 1..Len(c) : c[k].function_nr <= function_count'
    BY <1>4, <1>6
  <2> QED BY <1>6, <2>1 DEF AnchorInv, Placed
<1>7. CASE UNCHANGED anchor /\ PopFrame
  <2>1. /\ fiber' = fiber /\ function_count' = function_count
        /\ DOMAIN fiber_stacks' = DOMAIN fiber_stacks
        /\ \A g \in DOMAIN fiber_stacks \ {fiber} : fiber_stacks'[g] = fiber_stacks[g]
        /\ Len(stack') = Len(stack) - 1 /\ \A i \in 1..Len(stack') : stack'[i] = stack[i]
    BY <1>7, Popped DEF CallStackInv
  <2>2. ASSUME anchor.fiber = fiber
        PROVE  Placed(stack', c)
    <3>1. s = stack /\ fiber \in DOMAIN fiber_stacks
      BY <2>2 DEF stack, CallStackInv, CallStackTypeOK
    <3>2. \A i \in 1..Len(stack') : i \in 1..Len(stack)
      BY <2>1, <2>2, <3>1, <1>5
    <3> QED BY <2>1, <2>2, <3>1, <3>2, <1>5 DEF Placed
  <2>3. anchor.fiber \in DOMAIN fiber_stacks' => Placed(fiber_stacks'[anchor.fiber], c)
    BY <2>1, <2>2, <1>5 DEF stack
  <2>4. anchor.alive => anchor.fiber \in DOMAIN fiber_stacks'
    BY <2>1 DEF AnchorInv
  <2> QED BY <1>6, <1>7, <2>1, <2>3, <2>4
<1>8. ASSUME UNCHANGED anchor, NEW f \in Functions, AddStackFrame(f)
      PROVE  AnchorInv'
  <2>1. /\ fiber' = fiber /\ function_count' = function_count + 1
        /\ DOMAIN fiber_stacks' = DOMAIN fiber_stacks
        /\ \A g \in DOMAIN fiber_stacks \ {fiber} : fiber_stacks'[g] = fiber_stacks[g]
        /\ Len(stack') = Len(stack) + 1 /\ \A i \in 1..Len(stack) : stack'[i] = stack[i]
        /\ stack'[Len(stack')].function_nr = function_count'
    <3>1. stack'[Len(stack')] = [function |-> f, level |-> Len(stack'), function_nr |-> function_count']
      BY <1>8, Pushed DEF CallStackInv
    <3>2. stack'[Len(stack')].function_nr = function_count'
      BY <3>1
    <3> QED BY <1>8, <3>2, Pushed DEF CallStackInv
  <2>2. ASSUME anchor.fiber = fiber
        PROVE  Placed(stack', c)
    <3>1. s = stack /\ fiber \in DOMAIN fiber_stacks
      BY <2>2 DEF stack, CallStackInv, CallStackTypeOK
    <3> SUFFICES ASSUME NEW i \in 1..Len(stack'), NEW k \in 1..Len(c),
                        stack'[i].function_nr = c[k].function_nr
                 PROVE  i = k
      BY DEF Placed
    <3>2. CASE i = Len(stack')
      BY <3>2, <2>1, <1>4
    <3>3. CASE i # Len(stack')
      <4>1. i \in 1..Len(stack)
        BY <3>3, <2>1, <2>2, <3>1, <1>5
      <4> QED BY <4>1, <2>1, <2>2, <3>1, <1>5 DEF Placed
    <3> QED BY <3>2, <3>3
  <2>3. anchor.fiber \in DOMAIN fiber_stacks' => Placed(fiber_stacks'[anchor.fiber], c)
    BY <2>1, <2>2, <1>5 DEF stack
  <2>4. anchor.alive => anchor.fiber \in DOMAIN fiber_stacks'
    BY <2>1 DEF AnchorInv
  <2> QED BY <1>6, <1>8, <2>1, <2>3, <2>4
<1>9. ASSUME UNCHANGED anchor, fiber_stacks' = fiber_stacks,
             function_count' \in {function_count, function_count + 1}
      PROVE  AnchorInv'
  BY <1>5, <1>6, <1>9 DEF AnchorInv
<1>10. ASSUME UNCHANGED anchor, NEW f \in Fibers, StartFiber(f)
       PROVE  AnchorInv'
  <2>1. /\ DOMAIN fiber_stacks' = DOMAIN fiber_stacks \cup {f} /\ fiber_stacks'[f] = NewStack
        /\ \A g \in DOMAIN fiber_stacks : fiber_stacks'[g] = fiber_stacks[g]
        /\ function_count' = function_count /\ f \notin DOMAIN fiber_stacks
    BY <1>10 DEF StartFiber
  <2>2. Placed(NewStack, c)
    <3> SUFFICES ASSUME NEW i \in 1..Len(NewStack), NEW k \in 1..Len(c),
                        NewStack[i].function_nr = c[k].function_nr
                 PROVE  i = k
      BY DEF Placed
    <3>1. i = 1 /\ NewStack[1].function_nr = 0
      BY DEF NewStack
    <3>2. c[k].function_nr = 0 /\ k \in Nat /\ 1 <= k
      BY <3>1
    <3>3. \A j \in 1..(k - 1) : c[j].function_nr < 0
      BY <3>2 DEF AnchorInv
    <3>4. k # 1 => 1 \in 1..(k - 1) /\ 1 \in 1..Len(c)
      BY <3>2, <1>4
    <3>5. k # 1 => c[1].function_nr < 0 /\ c[1].function_nr \in Nat
      BY <3>3, <3>4, <1>4
    <3> QED BY <3>1, <3>5
  <2>3. anchor.fiber \in DOMAIN fiber_stacks' => Placed(fiber_stacks'[anchor.fiber], c)
    BY <2>1, <2>2, <1>5
  <2>4. anchor.alive => anchor.fiber \in DOMAIN fiber_stacks'
    BY <2>1 DEF AnchorInv
  <2> QED BY <1>6, <1>10, <2>1, <2>3, <2>4
<1>11. CASE FiberEnds
  <2>1. /\ DOMAIN fiber_stacks' = DOMAIN fiber_stacks \ {fiber}
        /\ \A g \in DOMAIN fiber_stacks' : fiber_stacks'[g] = fiber_stacks[g]
        /\ function_count' = function_count
    BY <1>11, EndedInv DEF FiberEnds, EndFiber
  <2>2. /\ anchor'.fiber = anchor.fiber /\ anchor'.calls = anchor.calls
        /\ anchor'.alive => anchor.alive /\ anchor.fiber # fiber
    <3>1. anchor' = IF anchor.fiber = fiber THEN [anchor EXCEPT !.alive = FALSE] ELSE anchor
      BY <1>11 DEF FiberEnds
    <3> QED BY <3>1 DEF TypeOK
  <2> QED BY <2>1, <2>2, <1>5 DEF AnchorInv
<1> QED BY <1>1, <1>2, <1>3, <1>7, <1>8, <1>9, <1>10, <1>11, AnchorSteps
    DEF SuspendFiber, ResumeFiber, Eval

LEMMA TargetsPreserved ==
  ASSUME TypeOK, CallStackInv, TargetsInv, [Next]_vars
  PROVE  TargetsInv'
<1>1. CASE UNCHANGED <<targets, anchor>> /\ asked' \in {asked, "none"}
  BY <1>1 DEF TargetsInv, targets, Asked
<1>2. CASE UNCHANGED <<targets, asked>> /\ Forget
  BY <1>2 DEF TargetsInv, targets, Asked, Forget
<1>3. CASE WorkerRequest \/ StepInto
  BY <1>3 DEF TargetsInv, WorkerRequest, StepInto
<1>4. ASSUME StepOver \/ StepOut
      PROVE  /\ anchor'.fiber = fiber /\ (anchor'.alive <=> stack # <<>>)
             /\ Len(anchor'.calls) = Len(stack) /\ anchor'.calls \in Seq(Calls)
             /\ stack # <<>> => anchor'.calls[Len(stack)].function_nr = Top.function_nr
             /\ Len(stack) = IF stack = <<>> THEN 0 ELSE Top.level
             /\ stack # <<>> <=> anchor'.calls # <<>>
  <2>1. anchor' = AnchorHere
    BY <1>4 DEF StepOver, StepOut
  <2>2. /\ AnchorHere.fiber = fiber /\ (AnchorHere.alive <=> stack # <<>>)
        /\ Len(AnchorHere.calls) = Len(stack) /\ AnchorHere.calls \in Seq(Calls)
        /\ \A k \in 1..Len(stack) : AnchorHere.calls[k].function_nr = stack[k].function_nr
    BY AnchorHereOK DEF CallStackInv
  <2>3. stack \in Seq(Frame) /\ Len(stack) \in Nat
    BY Frames DEF CallStackInv, CallStackTypeOK, stack
  <2>4. stack # <<>> => /\ Len(stack) \in Nat \ {0} /\ Top.level = Len(stack)
                        /\ Top = stack[Len(stack)]
    BY TopOK DEF CallStackInv
  <2>5. stack = <<>> => Len(stack) = 0
    OBVIOUS
  <2>6. stack # <<>> <=> AnchorHere.calls # <<>>
    BY <2>2, <2>4, <2>5, EmptySeq
  <2>7. stack # <<>> => AnchorHere.calls[Len(stack)].function_nr = Top.function_nr
    <3>1. stack # <<>> => Len(stack) \in 1..Len(stack)
      BY <2>4
    <3> QED BY <2>2, <2>4, <3>1
  <2> QED BY <2>1, <2>2, <2>4, <2>5, <2>6, <2>7
<1>5. CASE StepOver
  <2>1. /\ next_level' = IF stack = <<>> THEN 0 ELSE Top.level
        /\ next_stack' = IF stack = <<>> THEN None ELSE fiber
        /\ asked' = "over"
    BY <1>5 DEF StepOver
  <2> QED BY <2>1, <1>4, <1>5 DEF TargetsInv
<1>6. CASE StepOut
  <2>1. /\ finish_level' = IF stack = <<>> THEN -1 ELSE Top.level
        /\ finish_func_nr' = IF stack = <<>> THEN -1 ELSE Top.function_nr
        /\ asked' = "out"
    BY <1>6 DEF StepOut
  <2> QED BY <2>1, <1>4, <1>6 DEF TargetsInv, Asked
<1>7. CASE FiberEnds
  <2>1. /\ next_level' = next_level /\ finish_level' = finish_level
        /\ finish_func_nr' = finish_func_nr /\ asked' = asked
        /\ next_stack' = IF next_stack = fiber THEN None ELSE next_stack
    BY <1>7 DEF FiberEnds
  <2>2. /\ anchor'.fiber = anchor.fiber /\ anchor'.calls = anchor.calls
        /\ anchor'.alive = IF anchor.fiber = fiber THEN FALSE ELSE anchor.alive
    <3>1. anchor' = IF anchor.fiber = fiber THEN [anchor EXCEPT !.alive = FALSE] ELSE anchor
      BY <1>7 DEF FiberEnds
    <3> QED BY <3>1 DEF TypeOK
  <2> QED BY <2>1, <2>2 DEF TargetsInv, Asked
<1> QED BY <1>1, <1>2, <1>3, <1>5, <1>6, <1>7, TargetSteps

\* A step that stops the program, or that goes past a statement, says so; the
\* others are of no interest to StopsAreDue and NothingMissed.
LEMMA EventSteps ==
  ASSUME [Next]_vars
  PROVE  \/ event' \in {"none", "broke"}
         \/ StatementStep \/ StatementLine \/ ReturnStep \/ Eval \/ vars' = vars
BY DEF Next, Program, Client, Statement, Return, Startup, ConnectAtStatement, StatementUnseen,
       StatementBreak, Enter, ReturnBreak, Leave, Throw, Pause, SwitchFiber, FiberEnds,
       WorkerRequest, RequestReinit, Run, StepInto, StepOver, StepOut, Detach, Continue, Stop, GoOn

\* Where the calls that ran are, seen from the innermost call.
LEMMA Innermost ==
  ASSUME TypeOK, CallStackInv, AnchorInv, stack # <<>>
  PROVE  /\ Top.level = Len(stack) /\ Len(stack) \in Nat \ {0} /\ Top.function_nr \in Nat
         /\ anchor.calls # <<>> =>
              /\ Len(anchor.calls) \in Nat \ {0}
              /\ IsCalledBy(Asked) => fiber = anchor.fiber /\ Len(anchor.calls) < Len(stack)
              /\ Here = Asked => /\ Len(stack) = Len(anchor.calls) /\ fiber = anchor.fiber
                                 /\ Top.function_nr = Asked.function_nr
         /\ WasRunning(Here) =>
              /\ anchor.calls # <<>> /\ anchor.alive /\ fiber = anchor.fiber
              /\ Len(stack) <= Len(anchor.calls)
              /\ Len(stack) = Len(anchor.calls) => Here = Asked
<1>1. /\ Len(stack) \in Nat \ {0} /\ Top.level = Len(stack) /\ Top.function_nr \in Nat
      /\ Top = stack[Len(stack)]
  BY TopOK DEF CallStackInv
<1>2. fiber \in DOMAIN fiber_stacks /\ stack = fiber_stacks[fiber]
  BY DEF CallStackInv, CallStackTypeOK, stack
<1>3. /\ Len(anchor.calls) \in Nat /\ (anchor.calls # <<>> <=> Len(anchor.calls) > 0)
      /\ \A k \in 1..Len(anchor.calls) :
           anchor.calls[k] = [fiber |-> anchor.fiber, function_nr |-> anchor.calls[k].function_nr]
  BY AnchorCalls
<1>4. \A i : Call(fiber, i) = [fiber |-> fiber, function_nr |-> stack[i].function_nr]
  BY DEF Call, stack
\* A call that ran and is found again is where it was.
<1>5. ASSUME NEW i \in 1..Len(stack), NEW k \in 1..Len(anchor.calls), Call(fiber, i) = anchor.calls[k]
      PROVE  i = k /\ fiber = anchor.fiber /\ stack[i].function_nr = anchor.calls[k].function_nr
  <2>1. [fiber |-> fiber, function_nr |-> stack[i].function_nr]
          = [fiber |-> anchor.fiber, function_nr |-> anchor.calls[k].function_nr]
    BY <1>3, <1>4, <1>5
  <2>2. fiber = anchor.fiber /\ stack[i].function_nr = anchor.calls[k].function_nr
    BY <2>1
  <2> QED BY <2>2, <1>2 DEF AnchorInv
<1>6. Len(stack) \in 1..Len(stack) /\ \A i \in 1..(Len(stack) - 1) : i \in 1..Len(stack)
  BY <1>1
<1>7. ASSUME anchor.calls # <<>>
      PROVE  /\ Len(anchor.calls) \in Nat \ {0}
             /\ IsCalledBy(Asked) => fiber = anchor.fiber /\ Len(anchor.calls) < Len(stack)
             /\ Here = Asked => /\ Len(stack) = Len(anchor.calls) /\ fiber = anchor.fiber
                                /\ Top.function_nr = Asked.function_nr
  <2>1. Len(anchor.calls) \in Nat \ {0} /\ Len(anchor.calls) \in 1..Len(anchor.calls)
    BY <1>3, <1>7
  <2>2. ASSUME IsCalledBy(Asked)
        PROVE  fiber = anchor.fiber /\ Len(anchor.calls) < Len(stack)
    <3>1. PICK i \in 1..(Len(stack) - 1) : Call(fiber, i) = anchor.calls[Len(anchor.calls)]
      BY <2>2 DEF IsCalledBy, Asked
    <3>2. i = Len(anchor.calls) /\ fiber = anchor.fiber
      BY <3>1, <2>1, <1>5, <1>6
    <3> QED BY <3>2, <1>1
  <2>3. ASSUME Here = Asked
        PROVE  /\ Len(stack) = Len(anchor.calls) /\ fiber = anchor.fiber
               /\ Top.function_nr = Asked.function_nr
    <3>1. Call(fiber, Len(stack)) = anchor.calls[Len(anchor.calls)]
      BY <2>3 DEF Here, Asked
    <3> QED BY <3>1, <2>1, <1>1, <1>5, <1>6 DEF Asked
  <2> QED BY <2>1, <2>2, <2>3
<1>8. ASSUME WasRunning(Here)
      PROVE  /\ anchor.calls # <<>> /\ anchor.alive /\ fiber = anchor.fiber
             /\ Len(stack) <= Len(anchor.calls)
             /\ Len(stack) = Len(anchor.calls) => Here = Asked
  <2>1. PICK k \in 1..Len(anchor.calls) : anchor.calls[k] = Call(fiber, Len(stack))
    BY <1>8 DEF WasRunning, Here
  <2>2. Len(stack) = k /\ fiber = anchor.fiber
    BY <2>1, <1>5, <1>6
  <2>3. anchor.alive
    BY <1>8 DEF WasRunning
  <2>4. Len(stack) <= Len(anchor.calls) /\ Len(anchor.calls) > 0
    BY <2>2, <1>3
  <2>5. Len(stack) = Len(anchor.calls) => Here = Asked
    BY <2>1, <2>2 DEF Here, Asked
  <2> QED BY <2>2, <2>3, <2>4, <2>5, <1>3
<1> QED BY <1>1, <1>7, <1>8

\* A step that stops does so where it is due.
LEMMA StopsPreserved ==
  ASSUME SteppingInv, [Next]_vars
  PROVE  StopsAreDue'
<1>1. CASE event' \in {"none", "broke"}
  BY <1>1 DEF StopsAreDue
<1>2. CASE Eval
  BY <1>2 DEF Eval, history, SteppingInv, StopsAreDue, Asked, IsCalledBy, HasGone, Call, Here, stack
<1>3. CASE vars' = vars
  BY <1>3 DEF vars, callStackVars, history, SteppingInv, StopsAreDue, Asked, IsCalledBy, HasGone, Call, Here, stack
<1>4. CASE StatementLine
  BY <1>4 DEF StatementLine, Stop, GoOn, StopsAreDue
<1>5. ASSUME StatementStep \/ ReturnStep
      PROVE  /\ stack # <<>> /\ event' = asked
             /\ UNCHANGED <<fiber_stacks, fiber, anchor>>
             /\ StatementStep => (FinishDue \/ NextDue \/ do_step)
             /\ ReturnStep => resume' = "popping" /\ (do_step \/ (do_finish /\ finish_condition_met(TRUE)))
  <2>1. stack # <<>>
    <3>1. Len(stack) > 0
      BY <1>5 DEF StatementStep, ReturnStep, AtStatement, InUserCode, AtReturn, MayLeave
    <3> QED BY <3>1, EmptySeq
  <2>2. CASE StatementStep
    BY <2>1, <2>2 DEF StatementStep, Stop, callStackVars, ReturnStep
  <2>3. CASE ReturnStep
    BY <2>1, <2>3 DEF ReturnStep, Stop, callStackVars, ReturnDue, StatementStep
  <2> QED BY <1>5, <2>2, <2>3
<1>6. CASE StatementStep \/ ReturnStep
  <2>1. stack # <<>> /\ event' = asked /\ UNCHANGED <<fiber_stacks, fiber, anchor>>
    BY <1>5, <1>6
  <2>2. /\ Top.level = Len(stack) /\ Len(stack) \in Nat \ {0} /\ Top.function_nr \in Nat
        /\ anchor.calls # <<>> =>
             /\ Len(anchor.calls) \in Nat \ {0}
             /\ IsCalledBy(Asked) => fiber = anchor.fiber /\ Len(anchor.calls) < Len(stack)
             /\ Here = Asked => /\ Len(stack) = Len(anchor.calls) /\ fiber = anchor.fiber
                                /\ Top.function_nr = Asked.function_nr
    BY <2>1, Innermost DEF SteppingInv
  <2>3. /\ asked = "over" =>
             anchor.calls # <<>> /\ ~IsCalledBy(Asked) /\ (anchor.alive => fiber = anchor.fiber)
        /\ asked = "out" =>
             /\ anchor.calls # <<>>
             /\ \/ HasGone(Asked)
                \/ Here = Asked /\ resume' = "popping"
                \/ fiber # anchor.fiber /\ Len(stack) <= Len(anchor.calls)
    <3>1. CASE asked = "over"
      <4>1. next_condition_met
        BY <3>1, <1>5, <1>6 DEF SteppingInv, FlagsAgree, FinishDue, NextDue
      <4>2. (next_stack # None => next_stack = fiber) /\ next_level >= Len(stack)
        BY <4>1, <2>2 DEF next_condition_met
      <4>3. /\ next_level = Len(anchor.calls)
            /\ next_stack = IF anchor.alive THEN anchor.fiber ELSE None
        BY <3>1 DEF SteppingInv, TargetsInv
      <4>4. anchor.calls # <<>>
        <5>1. anchor.calls = <<>> => Len(anchor.calls) = 0
          OBVIOUS
        <5> QED BY <5>1, <4>2, <4>3, <2>2
      <4>5. ~IsCalledBy(Asked)
        BY <4>2, <4>3, <4>4, <2>2
      <4>6. anchor.alive => fiber = anchor.fiber
        <5>1. anchor.alive => anchor.fiber # None
          BY CallStackAssumption DEF SteppingInv, AnchorInv, CallStackInv, CallStackTypeOK
        <5> QED BY <5>1, <4>2, <4>3
      <4> QED BY <3>1, <4>4, <4>5, <4>6
    <3>2. CASE asked = "out"
      <4>1. \/ finish_condition_met(FALSE)
            \/ resume' = "popping" /\ finish_condition_met(TRUE)
        BY <3>2, <1>5, <1>6 DEF SteppingInv, FlagsAgree, FinishDue, NextDue
      <4>2. IF anchor.calls = <<>> THEN finish_level = -1
            ELSE finish_level = Len(anchor.calls) /\ finish_func_nr = Asked.function_nr
        BY <3>2 DEF SteppingInv, TargetsInv
      <4>3. \/ Len(stack) < finish_level
            \/ resume' = "popping" /\ Len(stack) <= finish_level
            \/ Len(stack) = finish_level /\ Top.function_nr > finish_func_nr
        BY <4>1, <2>2 DEF finish_condition_met
      <4>4. anchor.calls # <<>>
        BY <4>2, <4>3, <2>2
      <4>5. Len(stack) <= Len(anchor.calls) /\ finish_level = Len(anchor.calls)
        BY <4>2, <4>3, <4>4, <2>2
      \* In its own fiber the call that was asked in can only be the innermost.
      <4>6. ASSUME fiber = anchor.fiber, ~HasGone(Asked)
            PROVE  Here = Asked /\ resume' = "popping"
        <5>1. PICK i \in 1..Len(stack) : Call(fiber, i) = Asked
          BY <4>6 DEF HasGone, stack
        <5>2. i = Len(stack)
          <6>1. i <= Len(stack) - 1 => IsCalledBy(Asked)
            BY <5>1, <2>2 DEF IsCalledBy
          <6>2. ~IsCalledBy(Asked)
            BY <4>4, <4>5, <2>2
          <6> QED BY <6>1, <6>2, <5>1, <2>2
        <5>3. Here = Asked
          BY <5>1, <5>2 DEF Here
        <5>4. Len(stack) = Len(anchor.calls) /\ Top.function_nr = Asked.function_nr
          BY <5>3, <2>2, <4>4
        <5>5. resume' = "popping"
          BY <5>4, <2>2, <4>2, <4>3, <4>4
        <5> QED BY <5>3, <5>5
      <4> QED BY <3>2, <4>4, <4>5, <4>6
    <3> QED BY <3>1, <3>2
  <2>4. /\ Asked' = Asked /\ Here' = Here
        /\ IsCalledBy(Asked)' <=> IsCalledBy(Asked)
        /\ HasGone(Asked)' <=> HasGone(Asked)
        /\ stack' = stack
    BY <2>1 DEF Asked, Here, IsCalledBy, HasGone, Call, stack
  <2> QED BY <2>1, <2>3, <2>4 DEF StopsAreDue
<1> QED BY <1>1, <1>2, <1>3, <1>4, <1>6, EventSteps

\* A statement that is passed is one where no step had to stop.
LEMMA PassedPreserved ==
  ASSUME SteppingInv, [Next]_vars
  PROVE  NothingMissed'
<1>1. CASE event' \in {"none", "broke"}
  BY <1>1 DEF NothingMissed
<1>2. CASE Eval
  BY <1>2 DEF Eval, history, SteppingInv, NothingMissed, WasRunning, Asked, Call, Here, stack
<1>3. CASE vars' = vars
  BY <1>3 DEF vars, callStackVars, history, SteppingInv, NothingMissed, WasRunning, Asked, Call, Here, stack
<1>4. CASE StatementStep \/ ReturnStep
  <2>1. event' = asked
    BY <1>4 DEF StatementStep, ReturnStep, Stop
  <2>2. asked # "passed"
    BY DEF SteppingInv, TypeOK, Steps
  <2> QED BY <2>1, <2>2 DEF NothingMissed
<1>5. CASE StatementLine
  <2>1. /\ UNCHANGED <<fiber_stacks, fiber, anchor, asked>>
        /\ ~FinishDue /\ ~NextDue /\ ~do_step /\ Len(stack) > 0
    BY <1>5 DEF StatementLine, AtStatement, InUserCode, callStackVars
  <2>2. stack # <<>>
    BY <2>1, EmptySeq
  <2>3. /\ Top.level = Len(stack) /\ Len(stack) \in Nat \ {0} /\ Top.function_nr \in Nat
        /\ anchor.calls # <<>> => Len(anchor.calls) \in Nat \ {0}
        /\ WasRunning(Here) =>
             /\ anchor.calls # <<>> /\ anchor.alive /\ fiber = anchor.fiber
             /\ Len(stack) <= Len(anchor.calls)
             /\ Len(stack) = Len(anchor.calls) => Here = Asked
    BY <2>2, Innermost DEF SteppingInv
  <2>4. asked # "into"
    BY <2>1 DEF SteppingInv, FlagsAgree
  <2>5. ASSUME asked = "over"
        PROVE  ~WasRunning(Here) /\ (anchor.calls # <<>> /\ ~anchor.alive => Len(stack) > 1)
    <3>1. /\ next_level = Len(anchor.calls)
          /\ next_stack = IF anchor.alive THEN anchor.fiber ELSE None
      BY <2>5 DEF SteppingInv, TargetsInv
    <3>2. ~((next_stack # None => next_stack = fiber) /\ next_level >= Len(stack))
      BY <2>1, <2>3, <2>5 DEF SteppingInv, FlagsAgree, NextDue, next_condition_met
    <3>3. ~WasRunning(Here)
      BY <3>1, <3>2, <2>3
    <3>4. anchor.calls # <<>> /\ ~anchor.alive => Len(stack) > 1
      BY <3>1, <3>2, <2>3
    <3> QED BY <3>3, <3>4
  <2>6. ASSUME asked = "out", WasRunning(Here)
        PROVE  Here = Asked
    <3>1. finish_level = Len(anchor.calls)
      BY <2>3, <2>6 DEF SteppingInv, TargetsInv
    <3>2. ~(Len(stack) < finish_level)
      BY <2>1, <2>3, <2>6 DEF SteppingInv, FlagsAgree, FinishDue, finish_condition_met
    <3> QED BY <3>1, <3>2, <2>3, <2>6
  <2>7. Here' = Here /\ Asked' = Asked /\ (WasRunning(Here)' <=> WasRunning(Here)) /\ stack' = stack
    BY <2>1 DEF Asked, Here, WasRunning, Call, stack
  <2> QED BY <2>1, <2>4, <2>5, <2>6, <2>7 DEF NothingMissed
<1> QED BY <1>1, <1>2, <1>3, <1>4, <1>5, EventSteps

LEMMA InitialInv == Init => SteppingInv
<1> SUFFICES ASSUME Init
             PROVE  SteppingInv
  OBVIOUS
<1>1. /\ fiber_stacks = [f \in {MainFiber} |-> <<>>] /\ fiber = MainFiber
      /\ resumer = [f \in Fibers |-> None] /\ function_count = -1
  BY DEF Init, CallStackInit
<1>2. DOMAIN fiber_stacks = {MainFiber} /\ fiber_stacks[MainFiber] = <<>>
  BY <1>1
<1>3. <<>> \in Seq(Frame) /\ <<>> \in Seq(Calls) /\ Len(<<>>) = 0
  BY EmptySeq
<1>4. CallStackTypeOK
  <2>1. fiber_stacks \in [DOMAIN fiber_stacks -> Seq(Frame)]
    BY <1>1, <1>2, <1>3
  <2>2. function_count \in -1..MaxCalls
    BY <1>1, CallStackAssumption
  <2> QED BY <2>1, <2>2, <1>1, <1>2, CallStackAssumption DEF CallStackTypeOK
<1>5. LevelsAndNumbers /\ MainHasNoFiberMain
  BY <1>2, <1>3 DEF LevelsAndNumbers, MainHasNoFiberMain
<1>6. ResumersLive /\ Chain
  BY <1>1, CallStackAssumption DEF ResumersLive, Chain
<1>7. anchor = [fiber |-> None, calls |-> <<>>, alive |-> FALSE] /\ asked = "none" /\ event = "none"
  BY DEF Init, NoAnchor
<1>8. TypeOK
  <2>1. anchor \in [fiber: Fibers \cup {None}, calls: Seq(Calls), alive: BOOLEAN]
    BY <1>3, <1>7
  <2>2. connections \in 0..MaxConnections
    BY SteppingAssumption DEF Init
  <2>3. {do_break, do_step, do_next, do_finish} \subseteq BOOLEAN
        /\ {include_return_value, suppress_return_value_step, connected, do_request_reinit} \subseteq BOOLEAN
    BY DEF Init
  <2>4. next_level \in Nat /\ next_stack \in Fibers \cup {None} /\ finish_level \in Int /\ finish_func_nr \in Int
        /\ turn \in {"program", "client"} /\ resume \in Points
    BY DEF Init, Points
  <2> QED BY <2>1, <2>2, <2>3, <2>4, <1>4, <1>7 DEF TypeOK, Steps, Events
<1>9. AnchorInv
  BY <1>2, <1>3, <1>7, CallStackAssumption DEF AnchorInv
<1>10. TargetsInv /\ StopsAreDue /\ NothingMissed
  BY <1>7 DEF TargetsInv, StopsAreDue, NothingMissed
<1>11. NextStackIsLive /\ FlagsAgree
  BY <1>7 DEF Init, NextStackIsLive, FlagsAgree
<1> QED BY <1>4, <1>5, <1>6, <1>8, <1>9, <1>10, <1>11 DEF SteppingInv, CallStackInv

\* All of it holds of every state of the program and its client.
THEOREM StepsInvariant == Spec => []SteppingInv
<1>1. SteppingInv /\ [Next]_vars => SteppingInv'
  <2> SUFFICES ASSUME SteppingInv, [Next]_vars
               PROVE  SteppingInv'
    OBVIOUS
  <2>1. TypeOK /\ CallStackInv /\ AnchorInv /\ TargetsInv /\ NextStackIsLive /\ FlagsAgree
    BY DEF SteppingInv
  <2> QED BY <2>1, TypePreserved, CallStackPreserved, AnchorPreserved, TargetsPreserved,
             NextStackPreserved, FlagsPreserved, StopsPreserved, PassedPreserved DEF SteppingInv
<1> QED BY <1>1, InitialInv, PTL DEF Spec

\* The variables stay in their types.
THEOREM SteppingTypes == Spec => []TypeOK
<1>1. SteppingInv => TypeOK
  BY DEF SteppingInv
<1> QED BY <1>1, StepsInvariant, PTL

\* A frame's level is its place and the inner call has the greater number, in
\* every fiber (base.c:615).
THEOREM LevelsArePlaces == Spec => []LevelsAndNumbers
<1>1. SteppingInv => LevelsAndNumbers
  BY DEF SteppingInv, CallStackInv
<1> QED BY <1>1, StepsInvariant, PTL

\* However many fibers come and go, and whatever addresses they get, step_over
\* never waits for a vector that was freed (base.c:1152).
THEOREM NextStackStaysLive == Spec => []NextStackIsLive
<1>1. SteppingInv => NextStackIsLive
  BY DEF SteppingInv
<1> QED BY <1>1, StepsInvariant, PTL

\* A step ends where it was asked to (debugger.c:250, 265).
THEOREM StepsStopWhereDue == Spec => []StopsAreDue
<1>1. SteppingInv => StopsAreDue
  BY DEF SteppingInv
<1> QED BY <1>1, StepsInvariant, PTL

\* No step goes past the place where it should have stopped (debugger.c:416, 428, 802).
THEOREM StepsMissNothing == Spec => []NothingMissed
<1>1. SteppingInv => NothingMissed
  BY DEF SteppingInv
<1> QED BY <1>1, StepsInvariant, PTL

\* At most one step is pending, and it is the last one asked for.
THEOREM FlagsAreTheLastStep == Spec => []FlagsAgree
<1>1. SteppingInv => FlagsAgree
  BY DEF SteppingInv
<1> QED BY <1>1, StepsInvariant, PTL
=============================================================================
