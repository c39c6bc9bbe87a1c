-------------------------- MODULE CallStackProofs --------------------------
(***************************************************************************)
(* The call stack, for every program, any number of fibers and every       *)
(* bound: how the fibers wait for each other, which keeps a stack for the  *)
(* one that control goes back to, and the numbers of the frames, which     *)
(* tell a call from one that took its place.  What is proved here is what  *)
(* each event does to it; Stepping and Observers add what happens besides. *)
(***************************************************************************)
EXTENDS CallStack, SequenceTheorems, TLAPS

\* The fibers that wait are in a chain that begins at the running one and ends
\* at the main one: no two wait for the same, and who waits is waited for.
Chain ==
  /\ resumer[fiber] = None <=> fiber = MainFiber
  /\ \A f \in Fibers : resumer[f] # fiber
  /\ \A f, g \in Fibers : resumer[f] # None /\ resumer[f] = resumer[g] => f = g
  /\ \A f \in Fibers : resumer[f] # None =>
       resumer[f] = MainFiber \/ resumer[resumer[f]] # None

\* The main fiber was not started, so it never ends.
MainHasNoFiberMain ==
  \A i \in 1..Len(fiber_stacks[MainFiber]) : fiber_stacks[MainFiber][i].function # FiberMain

CallStackInv == /\ CallStackTypeOK /\ LevelsAndNumbers /\ ResumersLive
                /\ Chain /\ MainHasNoFiberMain

\* Of the vectors all but the main one begin with the frame of their fiber, which
\* is found nowhere else, so only the main one can be empty.
FibersBegin ==
  \A g \in DOMAIN fiber_stacks :
    /\ g # MainFiber => Len(fiber_stacks[g]) > 0
    /\ \A i \in 1..Len(fiber_stacks[g]) :
         fiber_stacks[g][i].function = FiberMain <=> i = 1 /\ g # MainFiber

\* No two calls that are counted have the same number, in whichever fiber.
NumbersUnique ==
  \A g, h \in DOMAIN fiber_stacks :
    \A i \in 1..Len(fiber_stacks[g]), j \in 1..Len(fiber_stacks[h]) :
      /\ fiber_stacks[g][i].function # FiberMain /\ fiber_stacks[h][j].function # FiberMain
      /\ fiber_stacks[g][i].function_nr = fiber_stacks[h][j].function_nr
      => g = h /\ i = j

DepthBounded == \A g \in DOMAIN fiber_stacks : Len(fiber_stacks[g]) <= MaxDepth

CallsInv == FibersBegin /\ NumbersUnique /\ DepthBounded
-----------------------------------------------------------------------------

\* What is known of the frames of a fiber.
LEMMA Frames ==
  ASSUME CallStackTypeOK, LevelsAndNumbers, NEW g \in DOMAIN fiber_stacks
  PROVE  /\ function_count \in Int
         /\ fiber_stacks[g] \in Seq(Frame) /\ Len(fiber_stacks[g]) \in Nat
         /\ \A k \in 1..Len(fiber_stacks[g]) :
              /\ fiber_stacks[g][k] \in Frame
              /\ fiber_stacks[g][k].function_nr \in Nat /\ fiber_stacks[g][k].level = k
              /\ fiber_stacks[g][k].function_nr <= function_count
              /\ \A j \in 1..(k - 1) : fiber_stacks[g][j].function_nr < fiber_stacks[g][k].function_nr
<1>1. /\ function_count \in Int
      /\ fiber_stacks[g] \in Seq(Frame) /\ Len(fiber_stacks[g]) \in Nat
  BY LenProperties DEF CallStackTypeOK
<1>2. \A k \in 1..Len(fiber_stacks[g]) : fiber_stacks[g][k] \in Frame
  BY <1>1, ElementOfSeq
<1>3. \A k \in 1..Len(fiber_stacks[g]) : fiber_stacks[g][k].function_nr \in Nat
  BY <1>2 DEF Frame
<1>4. \A k \in 1..Len(fiber_stacks[g]) :
        /\ fiber_stacks[g][k].level = k
        /\ fiber_stacks[g][k].function_nr <= function_count
        /\ \A j \in 1..(k - 1) : fiber_stacks[g][j].function_nr < fiber_stacks[g][k].function_nr
  BY DEF LevelsAndNumbers
<1> QED BY <1>1, <1>2, <1>3, <1>4

\* A frame that is pushed, and what stays below it.
LEMMA Pushed ==
  ASSUME CallStackTypeOK, NEW f \in Functions, AddStackFrame(f)
  PROVE  /\ function_count' = function_count + 1 /\ function_count' \in 0..MaxCalls
         /\ fiber' = fiber /\ resumer' = resumer
         /\ DOMAIN fiber_stacks' = DOMAIN fiber_stacks
         /\ \A g \in DOMAIN fiber_stacks \ {fiber} : fiber_stacks'[g] = fiber_stacks[g]
         /\ stack' \in Seq(Frame) /\ Len(stack') = Len(stack) + 1
         /\ \A i \in 1..Len(stack) : stack'[i] = stack[i]
         /\ stack'[Len(stack')] = [function |-> f, level |-> Len(stack'),
                                   function_nr |-> function_count']
<1> DEFINE new == [function |-> f, level |-> Len(stack) + 1, function_nr |-> function_count + 1]
<1>1. stack \in Seq(Frame) /\ function_count \in -1..MaxCalls /\ MaxCalls \in Nat
  BY CallStackAssumption DEF CallStackTypeOK, stack
<1>2. Len(stack) \in Nat
  BY <1>1, LenProperties
<1>3. function_count' = function_count + 1 /\ function_count' \in 0..MaxCalls
  BY <1>1 DEF AddStackFrame
<1>4. new \in Frame
  BY <1>1, <1>2 DEF Frame
<1>5. fiber' = fiber /\ resumer' = resumer
  BY DEF AddStackFrame
<1>6. /\ DOMAIN fiber_stacks' = DOMAIN fiber_stacks
      /\ \A g \in DOMAIN fiber_stacks \ {fiber} : fiber_stacks'[g] = fiber_stacks[g]
      /\ fiber_stacks'[fiber] = Append(stack, new)
  BY DEF AddStackFrame, CallStackTypeOK, stack
<1>7. stack' = Append(stack, new)
  BY <1>5, <1>6 DEF stack
<1>8. /\ Append(stack, new) \in Seq(Frame) /\ Len(Append(stack, new)) = Len(stack) + 1
      /\ \A i \in 1..Len(stack) : Append(stack, new)[i] = stack[i]
      /\ Append(stack, new)[Len(stack) + 1] = new
  BY <1>1, <1>4, AppendProperties
<1> QED BY <1>3, <1>5, <1>6, <1>7, <1>8

\* What a call leaves true of the stacks.
LEMMA PushedInv ==
  ASSUME CallStackInv, NEW f \in Functions, AddStackFrame(f)
  PROVE  CallStackInv'
<1>1. CallStackTypeOK /\ stack \in Seq(Frame) /\ Len(stack) \in Nat
  BY LenProperties DEF CallStackInv, CallStackTypeOK, stack
<1>2. /\ function_count' = function_count + 1 /\ function_count' \in 0..MaxCalls
      /\ fiber' = fiber /\ resumer' = resumer
      /\ DOMAIN fiber_stacks' = DOMAIN fiber_stacks
      /\ \A g \in DOMAIN fiber_stacks \ {fiber} : fiber_stacks'[g] = fiber_stacks[g]
      /\ stack' \in Seq(Frame) /\ Len(stack') = Len(stack) + 1
      /\ \A i \in 1..Len(stack) : stack'[i] = stack[i]
      /\ stack'[Len(stack')] = [function |-> f, level |-> Len(stack'),
                                function_nr |-> function_count']
  BY <1>1, Pushed
<1>3. fiber_stacks'[fiber] = stack' /\ fiber_stacks[fiber] = stack
  BY <1>2 DEF stack
<1>4. CallStackTypeOK'
  <2>1. fiber_stacks' \in [DOMAIN fiber_stacks -> Seq(Frame)]
    <3>1. \A g \in DOMAIN fiber_stacks : fiber_stacks'[g] \in Seq(Frame)
      BY <1>1, <1>2, <1>3 DEF CallStackTypeOK
    <3>2. fiber_stacks' = [g \in DOMAIN fiber_stacks' |-> fiber_stacks'[g]]
      BY DEF AddStackFrame
    <3> QED BY <3>1, <3>2, <1>2
  <2> QED BY <2>1, <1>1, <1>2, CallStackAssumption DEF CallStackTypeOK
<1>5. LevelsAndNumbers'
  <2> SUFFICES ASSUME NEW g \in DOMAIN fiber_stacks, NEW i \in 1..Len(fiber_stacks'[g])
               PROVE  /\ fiber_stacks'[g][i].level = i
                      /\ fiber_stacks'[g][i].function_nr <= function_count'
                      /\ \A j \in 1..(i - 1) :
                           fiber_stacks'[g][j].function_nr < fiber_stacks'[g][i].function_nr
    BY <1>2 DEF LevelsAndNumbers
  <2>1. /\ function_count \in Int
        /\ fiber_stacks[g] \in Seq(Frame) /\ Len(fiber_stacks[g]) \in Nat
    BY <1>1, Frames DEF CallStackInv
  <2>2. \A k \in 1..Len(fiber_stacks[g]) :
          /\ fiber_stacks[g][k].function_nr \in Nat /\ fiber_stacks[g][k].level = k
          /\ fiber_stacks[g][k].function_nr <= function_count
          /\ \A j \in 1..(k - 1) : fiber_stacks[g][j].function_nr < fiber_stacks[g][k].function_nr
    BY Frames DEF CallStackInv
  <2>4. CASE g # fiber
    <3>1. fiber_stacks'[g] = fiber_stacks[g]
      BY <2>4, <1>2
    <3>2. i \in 1..Len(fiber_stacks[g]) /\ function_count <= function_count'
      BY <2>1, <3>1, <1>2
    <3>3. /\ fiber_stacks[g][i].level = i
          /\ fiber_stacks[g][i].function_nr <= function_count
          /\ \A j \in 1..(i - 1) : fiber_stacks[g][j].function_nr < fiber_stacks[g][i].function_nr
      BY <2>2, <3>2
    <3>4. fiber_stacks[g][i].function_nr <= function_count'
      BY <2>1, <2>2, <3>2, <3>3, <1>2
    <3> QED BY <3>1, <3>3, <3>4
  <2>5. CASE g = fiber /\ i = Len(stack')
    <3>1. \A j \in 1..Len(stack) : fiber_stacks'[g][j] = fiber_stacks[g][j]
      BY <2>5, <1>1, <1>2, <1>3
    <3>2. i - 1 = Len(stack) /\ fiber_stacks'[g][i].level = i
          /\ fiber_stacks'[g][i].function_nr = function_count'
      BY <2>5, <1>1, <1>2, <1>3
    <3> QED BY <3>1, <3>2, <2>1, <2>2, <2>5, <1>1, <1>2, <1>3
  <2>6. CASE g = fiber /\ i # Len(stack')
    <3>1. i \in 1..Len(stack)
      BY <2>6, <1>1, <1>2, <1>3
    <3>2. \A j \in 1..i : fiber_stacks'[g][j] = fiber_stacks[g][j]
      BY <3>1, <2>6, <1>1, <1>2, <1>3
    <3>3. \A j \in 1..(i - 1) : j \in 1..Len(stack) /\ j \in 1..i
      BY <3>1, <1>1
    <3> QED BY <3>1, <3>2, <3>3, <2>1, <2>2, <2>6, <1>1, <1>2, <1>3
  <2> QED BY <2>4, <2>5, <2>6
<1>6. ResumersLive' /\ Chain'
  BY <1>2 DEF CallStackInv, ResumersLive, Chain
<1>7. MainHasNoFiberMain'
  <2>1. CASE fiber # MainFiber
    BY <2>1, <1>1, <1>2 DEF CallStackInv, MainHasNoFiberMain, CallStackTypeOK
  <2>2. CASE fiber = MainFiber
    <3>1. \A i \in 1..Len(stack) : stack[i].function # FiberMain
      BY <2>2, <1>3 DEF CallStackInv, MainHasNoFiberMain
    <3>2. \A i \in 1..Len(stack') : stack'[i].function # FiberMain
      BY <3>1, <1>1, <1>2, CallStackAssumption
    <3> QED BY <3>2, <2>2, <1>3 DEF MainHasNoFiberMain
  <2> QED BY <2>1, <2>2
<1> QED BY <1>4, <1>5, <1>6, <1>7 DEF CallStackInv

\* A frame that is popped: what was below it is there as it was.
LEMMA Popped ==
  ASSUME CallStackTypeOK, PopFrame
  PROVE  /\ UNCHANGED <<fiber, resumer, function_count>>
         /\ DOMAIN fiber_stacks' = DOMAIN fiber_stacks
         /\ \A g \in DOMAIN fiber_stacks \ {fiber} : fiber_stacks'[g] = fiber_stacks[g]
         /\ stack' \in Seq(Frame) /\ Len(stack') = Len(stack) - 1
         /\ \A i \in 1..Len(stack') : stack'[i] = stack[i]
<1>1. stack \in Seq(Frame) /\ Len(stack) \in Nat /\ Len(stack) > 0
  BY LenProperties DEF CallStackTypeOK, stack, PopFrame, MayLeave
<1>2. /\ UNCHANGED <<fiber, resumer, function_count>>
      /\ DOMAIN fiber_stacks' = DOMAIN fiber_stacks
      /\ \A g \in DOMAIN fiber_stacks \ {fiber} : fiber_stacks'[g] = fiber_stacks[g]
      /\ fiber_stacks'[fiber] = SubSeq(stack, 1, Len(stack) - 1)
  BY DEF PopFrame, CallStackTypeOK, stack
<1>3. stack' = SubSeq(stack, 1, Len(stack) - 1)
  BY <1>2 DEF stack
<1>4. \A i \in 1..(Len(stack) - 1) : stack[i] \in Frame
  BY <1>1, ElementOfSeq
<1>5. /\ stack' \in Seq(Frame)
      /\ Len(stack') = IF 1 <= Len(stack) - 1 THEN Len(stack) - 1 - 1 + 1 ELSE 0
      /\ \A i \in 1..(Len(stack) - 1 - 1 + 1) : stack'[i] = stack[1 + i - 1]
  <2> DEFINE n == Len(stack) - 1
  <2>1. n \in Int /\ 1 \in Int /\ \A i \in 1..n : stack[i] \in Frame
    BY <1>1, <1>4
  <2> HIDE DEF n
  <2>2. /\ SubSeq(stack, 1, n) \in Seq(Frame)
        /\ Len(SubSeq(stack, 1, n)) = IF 1 <= n THEN n - 1 + 1 ELSE 0
        /\ \A i \in 1..(n - 1 + 1) : SubSeq(stack, 1, n)[i] = stack[1 + i - 1]
    BY <2>1, SubSeqProperties
  <2> QED BY <2>2, <1>3 DEF n
<1>6. Len(stack') = Len(stack) - 1
  <2>1. \A l \in Nat : l > 0 => (IF 1 <= l - 1 THEN l - 1 - 1 + 1 ELSE 0) = l - 1
    OBVIOUS
  <2> QED BY ONLY <2>1, <1>1, <1>5
<1>7. \A i \in 1..Len(stack') : i \in 1..(Len(stack) - 1 - 1 + 1) /\ 1 + i - 1 = i
  BY <1>1, <1>6
<1>8. \A i \in 1..Len(stack') : stack'[i] = stack[i]
  <2> SUFFICES ASSUME NEW i \in 1..Len(stack')
               PROVE  stack'[i] = stack[i]
    OBVIOUS
  <2>1. i \in 1..(Len(stack) - 1 - 1 + 1) /\ 1 + i - 1 = i
    BY <1>7
  <2>2. stack'[i] = stack[1 + i - 1]
    BY <2>1, <1>5
  <2> QED BY <2>1, <2>2
<1> QED BY <1>2, <1>5, <1>6, <1>8

\* Frames that stay as they are, in vectors that may have lost inner ones.
LEMMA KeptFrames ==
  ASSUME CallStackTypeOK, LevelsAndNumbers, function_count' = function_count,
         \A g \in DOMAIN fiber_stacks' :
           /\ g \in DOMAIN fiber_stacks
           /\ Len(fiber_stacks'[g]) \in 0..Len(fiber_stacks[g])
           /\ \A i \in 1..Len(fiber_stacks'[g]) : fiber_stacks'[g][i] = fiber_stacks[g][i]
  PROVE  LevelsAndNumbers'
<1> SUFFICES ASSUME NEW g \in DOMAIN fiber_stacks', NEW i \in 1..Len(fiber_stacks'[g])
             PROVE  /\ fiber_stacks'[g][i].level = i
                    /\ fiber_stacks'[g][i].function_nr <= function_count'
                    /\ \A j \in 1..(i - 1) :
                         fiber_stacks'[g][j].function_nr < fiber_stacks'[g][i].function_nr
  BY DEF LevelsAndNumbers
<1>1. Len(fiber_stacks[g]) \in Nat
  BY Frames
<1>2. i \in 1..Len(fiber_stacks[g]) /\ \A j \in 1..(i - 1) : j \in 1..Len(fiber_stacks'[g])
  BY <1>1
<1>3. /\ fiber_stacks[g][i].level = i
      /\ fiber_stacks[g][i].function_nr <= function_count
      /\ \A j \in 1..(i - 1) : fiber_stacks[g][j].function_nr < fiber_stacks[g][i].function_nr
  BY <1>2, Frames
<1> QED BY <1>2, <1>3

\* What a return leaves true of the stacks.
LEMMA PoppedInv ==
  ASSUME CallStackInv, PopFrame
  PROVE  CallStackInv'
<1>1. CallStackTypeOK /\ stack \in Seq(Frame) /\ Len(stack) \in Nat /\ Len(stack) > 0
  BY LenProperties DEF CallStackInv, CallStackTypeOK, stack, PopFrame, MayLeave
<1>2. /\ UNCHANGED <<fiber, resumer, function_count>>
      /\ DOMAIN fiber_stacks' = DOMAIN fiber_stacks
      /\ \A g \in DOMAIN fiber_stacks \ {fiber} : fiber_stacks'[g] = fiber_stacks[g]
      /\ stack' \in Seq(Frame) /\ Len(stack') = Len(stack) - 1
      /\ \A i \in 1..Len(stack') : stack'[i] = stack[i]
  BY <1>1, Popped
<1>3. fiber_stacks'[fiber] = stack' /\ fiber_stacks[fiber] = stack
  BY <1>2 DEF stack
<1>4. \A g \in DOMAIN fiber_stacks :
        /\ fiber_stacks'[g] \in Seq(Frame)
        /\ Len(fiber_stacks'[g]) \in 0..Len(fiber_stacks[g])
        /\ \A i \in 1..Len(fiber_stacks'[g]) : fiber_stacks'[g][i] = fiber_stacks[g][i]
  <2> SUFFICES ASSUME NEW g \in DOMAIN fiber_stacks
               PROVE  /\ fiber_stacks'[g] \in Seq(Frame)
                      /\ Len(fiber_stacks'[g]) \in 0..Len(fiber_stacks[g])
                      /\ \A i \in 1..Len(fiber_stacks'[g]) : fiber_stacks'[g][i] = fiber_stacks[g][i]
    OBVIOUS
  <2>1. CASE g = fiber
    BY <2>1, <1>1, <1>2, <1>3
  <2>2. CASE g # fiber
    BY <2>2, <1>2, Frames DEF CallStackInv
  <2> QED BY <2>1, <2>2
<1>5. CallStackTypeOK'
  <2>1. fiber_stacks' = [g \in DOMAIN fiber_stacks' |-> fiber_stacks'[g]]
    BY DEF PopFrame
  <2> QED BY <2>1, <1>1, <1>2, <1>4 DEF CallStackTypeOK
<1>6. LevelsAndNumbers'
  BY <1>2, <1>4, KeptFrames DEF CallStackInv
<1>7. ResumersLive' /\ Chain'
  BY <1>2 DEF CallStackInv, ResumersLive, Chain
<1>8. MainHasNoFiberMain'
  <2>1. MainFiber \in DOMAIN fiber_stacks /\ Len(fiber_stacks[MainFiber]) \in Nat
    BY Frames DEF CallStackInv, CallStackTypeOK
  <2> QED BY <2>1, <1>4 DEF CallStackInv, MainHasNoFiberMain
<1> QED BY <1>5, <1>6, <1>7, <1>8 DEF CallStackInv

\* The calls of a fiber that is running are some that have been counted.
LEMMA CallsCounted ==
  ASSUME CallStackTypeOK, LevelsAndNumbers, InBuiltIn
  PROVE  function_count \in Nat /\ stack # <<>>
<1>1. fiber \in DOMAIN fiber_stacks
  BY DEF CallStackTypeOK
<1>2. /\ function_count \in Int /\ stack \in Seq(Frame) /\ Len(stack) \in Nat /\ Len(stack) > 0
      /\ \A k \in 1..Len(stack) : stack[k].function_nr \in Nat /\ stack[k].function_nr <= function_count
  BY <1>1, Frames DEF stack, InBuiltIn
<1>3. stack[1].function_nr \in Nat /\ stack[1].function_nr <= function_count
  BY <1>2
<1> QED BY <1>2, <1>3

\* A fiber that starts gets a vector, and the running one waits for it.
LEMMA StartedInv ==
  ASSUME CallStackInv, NEW f \in Fibers, StartFiber(f)
  PROVE  CallStackInv'
<1>1. CallStackTypeOK /\ function_count \in Nat
  BY CallsCounted DEF CallStackInv, StartFiber
<1>2. /\ f \notin DOMAIN fiber_stacks /\ f # fiber /\ f # MainFiber
      /\ DOMAIN fiber_stacks' = DOMAIN fiber_stacks \cup {f}
      /\ \A g \in DOMAIN fiber_stacks : fiber_stacks'[g] = fiber_stacks[g]
      /\ fiber_stacks'[f] = NewStack
      /\ fiber' = f /\ resumer' = [resumer EXCEPT ![f] = fiber]
      /\ function_count' = function_count
  BY <1>1 DEF StartFiber, CallStackTypeOK
<1>3. NewStack \in Seq(Frame) /\ Len(NewStack) = 1 /\ NewStack[1].level = 1 /\ NewStack[1].function_nr = 0
  BY DEF NewStack, Frame
<1>4. CallStackTypeOK'
  <2>1. \A g \in DOMAIN fiber_stacks' : fiber_stacks'[g] \in Seq(Frame)
    BY <1>1, <1>2, <1>3 DEF CallStackTypeOK
  <2>2. fiber_stacks' = [g \in DOMAIN fiber_stacks' |-> fiber_stacks'[g]]
    BY DEF StartFiber
  <2>3. fiber_stacks' \in [DOMAIN fiber_stacks' -> Seq(Frame)]
    BY <2>1, <2>2
  <2> QED BY <2>3, <1>1, <1>2 DEF CallStackTypeOK
<1>5. LevelsAndNumbers'
  <2> SUFFICES ASSUME NEW g \in DOMAIN fiber_stacks', NEW i \in 1..Len(fiber_stacks'[g])
               PROVE  /\ fiber_stacks'[g][i].level = i
                      /\ fiber_stacks'[g][i].function_nr <= function_count'
                      /\ \A j \in 1..(i - 1) :
                           fiber_stacks'[g][j].function_nr < fiber_stacks'[g][i].function_nr
    BY DEF LevelsAndNumbers
  <2>1. CASE g = f
    BY <2>1, <1>1, <1>2, <1>3
  <2>2. CASE g # f
    BY <2>2, <1>2, Frames DEF CallStackInv
  <2> QED BY <2>1, <2>2
<1>6. resumer[f] = None /\ (\A g \in Fibers : resumer[g] # f) /\ fiber # None /\ f # None
  BY <1>1, <1>2, CallStackAssumption DEF CallStackInv, ResumersLive, CallStackTypeOK
<1>7. resumer'[f] = fiber /\ \A g \in Fibers \ {f} : resumer'[g] = resumer[g]
  BY <1>1, <1>2 DEF CallStackTypeOK
<1>8. ResumersLive'
  BY <1>1, <1>2, <1>7 DEF CallStackInv, ResumersLive, CallStackTypeOK
<1>9. Chain'
  <2>1. resumer'[fiber'] = None <=> fiber' = MainFiber
    BY <1>2, <1>6, <1>7
  <2>2. \A g \in Fibers : resumer'[g] # fiber'
    BY <1>2, <1>6, <1>7
  <2>3. \A g, h \in Fibers : resumer'[g] # None /\ resumer'[g] = resumer'[h] => g = h
    BY <1>2, <1>6, <1>7 DEF CallStackInv, Chain
  <2>4. \A g \in Fibers : resumer'[g] # None =>
          resumer'[g] = MainFiber \/ resumer'[resumer'[g]] # None
    <3> SUFFICES ASSUME NEW g \in Fibers, resumer'[g] # None
                 PROVE  resumer'[g] = MainFiber \/ resumer'[resumer'[g]] # None
      OBVIOUS
    <3>1. CASE g = f
      BY <3>1, <1>1, <1>2, <1>6, <1>7 DEF CallStackInv, Chain, CallStackTypeOK
    <3>2. CASE g # f
      <4>1. resumer'[g] = resumer[g] /\ resumer[g] \in Fibers \ {f}
        BY <3>2, <1>1, <1>6, <1>7 DEF CallStackTypeOK
      <4> QED BY <4>1, <1>7 DEF CallStackInv, Chain
    <3> QED BY <3>1, <3>2
  <2> QED BY <2>1, <2>2, <2>3, <2>4 DEF Chain
<1>10. MainHasNoFiberMain'
  BY <1>1, <1>2 DEF CallStackInv, MainHasNoFiberMain, CallStackTypeOK
<1> QED BY <1>4, <1>5, <1>8, <1>9, <1>10 DEF CallStackInv

\* Control goes to a fiber that waits for nobody and nobody waits for.
LEMMA ResumedAgain ==
  ASSUME CallStackInv, NEW f \in DOMAIN fiber_stacks \ {MainFiber, fiber},
         fiber' = f, resumer' = [resumer EXCEPT ![f] = fiber], resumer[f] = None,
         fiber_stacks' = fiber_stacks, function_count' = function_count
  PROVE  CallStackInv'
<1>1. CallStackTypeOK
  BY DEF CallStackInv
<1>2. /\ f \in DOMAIN fiber_stacks /\ f # fiber /\ f # MainFiber
      /\ fiber' = f /\ resumer' = [resumer EXCEPT ![f] = fiber] /\ resumer[f] = None
      /\ fiber_stacks' = fiber_stacks /\ function_count' = function_count
  OBVIOUS
<1>3. resumer'[f] = fiber /\ (\A g \in Fibers \ {f} : resumer'[g] = resumer[g])
      /\ fiber \in Fibers /\ fiber # None /\ f # None
  BY <1>1, <1>2, CallStackAssumption DEF CallStackTypeOK
<1>4. \A g \in Fibers : resumer[g] # f
  BY <1>2, <1>3 DEF CallStackInv, Chain
<1>5. CallStackTypeOK'
  BY <1>1, <1>2 DEF CallStackTypeOK
<1>6. LevelsAndNumbers' /\ MainHasNoFiberMain'
  BY <1>2 DEF CallStackInv, LevelsAndNumbers, MainHasNoFiberMain
<1>7. ResumersLive'
  BY <1>1, <1>2, <1>3 DEF CallStackInv, ResumersLive, CallStackTypeOK
<1>8. Chain'
  <2>1. \A g \in Fibers : resumer'[g] # fiber'
    BY <1>2, <1>3, <1>4
  <2>2. \A g, h \in Fibers : resumer'[g] # None /\ resumer'[g] = resumer'[h] => g = h
    BY <1>2, <1>3, <1>4 DEF CallStackInv, Chain
  <2>3. \A g \in Fibers : resumer'[g] # None =>
          resumer'[g] = MainFiber \/ resumer'[resumer'[g]] # None
    <3> SUFFICES ASSUME NEW g \in Fibers, resumer'[g] # None
                 PROVE  resumer'[g] = MainFiber \/ resumer'[resumer'[g]] # None
      OBVIOUS
    <3>1. CASE g = f
      BY <3>1, <1>1, <1>2, <1>3 DEF CallStackInv, Chain, CallStackTypeOK
    <3>2. CASE g # f
      <4>1. resumer'[g] = resumer[g] /\ resumer[g] \in Fibers \ {f}
        BY <3>2, <1>1, <1>3, <1>4 DEF CallStackTypeOK
      <4> QED BY <4>1, <1>3 DEF CallStackInv, Chain
    <3> QED BY <3>1, <3>2
  <2> QED BY <2>1, <2>2, <2>3, <1>2, <1>3 DEF Chain
<1> QED BY <1>5, <1>6, <1>7, <1>8 DEF CallStackInv

\* Fiber::resume.
LEMMA ResumedInv ==
  ASSUME CallStackInv, NEW f \in Fibers, ResumeFiber(f)
  PROVE  CallStackInv'
BY ResumedAgain DEF ResumeFiber

\* Control goes back to the fiber that waits for this one, which then waits for
\* nobody.
LEMMA SwitchBack ==
  ASSUME CallStackInv, fiber # MainFiber, fiber' = resumer[fiber],
         resumer' = [resumer EXCEPT ![fiber] = None]
  PROVE  /\ fiber' \in DOMAIN fiber_stacks \ {fiber}
         /\ resumer' \in [Fibers -> Fibers \cup {None}]
         /\ \A g \in Fibers : resumer'[g] # None =>
              g \in DOMAIN fiber_stacks \ {MainFiber, fiber} /\ resumer'[g] \in DOMAIN fiber_stacks \ {fiber}
         /\ Chain'
<1>1. CallStackTypeOK /\ fiber \in Fibers /\ resumer[fiber] # None
  BY DEF CallStackInv, CallStackTypeOK, Chain
<1>2. fiber' \in DOMAIN fiber_stacks \ {fiber}
  BY <1>1 DEF CallStackInv, ResumersLive, Chain
<1>3. fiber' \in Fibers /\ resumer'[fiber] = None /\ \A g \in Fibers \ {fiber} : resumer'[g] = resumer[g]
  BY <1>1, <1>2 DEF CallStackTypeOK
<1>4. resumer' \in [Fibers -> Fibers \cup {None}]
  BY <1>1 DEF CallStackTypeOK
<1>5. \A g \in Fibers : resumer'[g] # None =>
        g \in DOMAIN fiber_stacks \ {MainFiber, fiber} /\ resumer'[g] \in DOMAIN fiber_stacks \ {fiber}
  BY <1>3 DEF CallStackInv, ResumersLive, Chain
<1>6. Chain'
  <2>1. resumer'[fiber'] = None <=> fiber' = MainFiber
    BY <1>1, <1>2, <1>3 DEF CallStackInv, Chain, ResumersLive
  <2>2. \A g \in Fibers : resumer'[g] # fiber'
    <3> SUFFICES ASSUME NEW g \in Fibers
                 PROVE  resumer'[g] # fiber'
      OBVIOUS
    <3>1. CASE g = fiber
      BY <3>1, <1>1, <1>3
    <3>2. CASE g # fiber
      BY <3>2, <1>1, <1>3 DEF CallStackInv, Chain
    <3> QED BY <3>1, <3>2
  <2>3. \A g, h \in Fibers : resumer'[g] # None /\ resumer'[g] = resumer'[h] => g = h
    BY <1>3 DEF CallStackInv, Chain
  <2>4. \A g \in Fibers : resumer'[g] # None =>
          resumer'[g] = MainFiber \/ resumer'[resumer'[g]] # None
    <3> SUFFICES ASSUME NEW g \in Fibers, resumer'[g] # None
                 PROVE  resumer'[g] = MainFiber \/ resumer'[resumer'[g]] # None
      OBVIOUS
    <3>1. resumer'[g] = resumer[g] /\ resumer[g] \in Fibers \ {fiber}
      BY <1>1, <1>3 DEF CallStackInv, CallStackTypeOK, Chain
    <3> QED BY <3>1, <1>3 DEF CallStackInv, Chain
  <2> QED BY <2>1, <2>2, <2>3, <2>4 DEF Chain
<1> QED BY <1>2, <1>4, <1>5, <1>6

\* Fiber::suspend.
LEMMA SuspendedInv ==
  ASSUME CallStackInv, SuspendFiber
  PROVE  CallStackInv'
<1>1. CallStackTypeOK /\ fiber # MainFiber /\ fiber' = resumer[fiber]
      /\ resumer' = [resumer EXCEPT ![fiber] = None]
      /\ fiber_stacks' = fiber_stacks /\ function_count' = function_count
  BY DEF CallStackInv, Chain, SuspendFiber
<1>2. /\ fiber' \in DOMAIN fiber_stacks \ {fiber} /\ resumer' \in [Fibers -> Fibers \cup {None}]
      /\ \A g \in Fibers : resumer'[g] # None =>
           g \in DOMAIN fiber_stacks \ {MainFiber, fiber} /\ resumer'[g] \in DOMAIN fiber_stacks \ {fiber}
      /\ Chain'
  BY <1>1, SwitchBack
<1>3. CallStackTypeOK'
  BY <1>1, <1>2 DEF CallStackTypeOK
<1>4. LevelsAndNumbers' /\ MainHasNoFiberMain'
  BY <1>1 DEF CallStackInv, LevelsAndNumbers, MainHasNoFiberMain
<1>5. ResumersLive'
  BY <1>1, <1>2 DEF ResumersLive
<1> QED BY <1>2, <1>3, <1>4, <1>5 DEF CallStackInv

\* A fiber that ends takes its vector with it.
LEMMA EndedInv ==
  ASSUME CallStackInv, EndFiber
  PROVE  /\ CallStackInv'
         /\ DOMAIN fiber_stacks' = DOMAIN fiber_stacks \ {fiber}
         /\ \A g \in DOMAIN fiber_stacks' : fiber_stacks'[g] = fiber_stacks[g]
<1>1. CallStackTypeOK /\ fiber' = resumer[fiber] /\ resumer' = [resumer EXCEPT ![fiber] = None]
      /\ function_count' = function_count
  BY DEF CallStackInv, EndFiber
<1>2. /\ DOMAIN fiber_stacks' = DOMAIN fiber_stacks \ {fiber}
      /\ \A g \in DOMAIN fiber_stacks' : fiber_stacks'[g] = fiber_stacks[g]
      /\ fiber_stacks' = [g \in DOMAIN fiber_stacks' |-> fiber_stacks'[g]]
  BY DEF EndFiber
<1>3. fiber # MainFiber
  <2>1. Len(stack) = 1 /\ stack[1].function = FiberMain
    BY DEF EndFiber, Top
  <2> QED BY <2>1 DEF CallStackInv, MainHasNoFiberMain, stack
<1>4. /\ fiber' \in DOMAIN fiber_stacks \ {fiber} /\ resumer' \in [Fibers -> Fibers \cup {None}]
      /\ \A g \in Fibers : resumer'[g] # None =>
           g \in DOMAIN fiber_stacks \ {MainFiber, fiber} /\ resumer'[g] \in DOMAIN fiber_stacks \ {fiber}
      /\ Chain'
  BY <1>1, <1>3, SwitchBack
<1>5. CallStackTypeOK'
  <2>1. fiber_stacks' \in [DOMAIN fiber_stacks' -> Seq(Frame)]
    BY <1>1, <1>2 DEF CallStackTypeOK
  <2> QED BY <2>1, <1>1, <1>2, <1>3, <1>4 DEF CallStackTypeOK
<1>6. LevelsAndNumbers'
  <2>1. \A g \in DOMAIN fiber_stacks' :
          /\ g \in DOMAIN fiber_stacks
          /\ Len(fiber_stacks'[g]) \in 0..Len(fiber_stacks[g])
          /\ \A i \in 1..Len(fiber_stacks'[g]) : fiber_stacks'[g][i] = fiber_stacks[g][i]
    BY <1>2, Frames DEF CallStackInv
  <2> QED BY <2>1, <1>1, KeptFrames DEF CallStackInv
<1>7. ResumersLive'
  BY <1>2, <1>4 DEF ResumersLive
<1>8. MainHasNoFiberMain'
  BY <1>1, <1>2, <1>3 DEF CallStackInv, MainHasNoFiberMain, CallStackTypeOK
<1> QED BY <1>2, <1>4, <1>5, <1>6, <1>7, <1>8 DEF CallStackInv
-----------------------------------------------------------------------------
(* Which calls the vectors hold.                                              *)

\* Vectors that lost inner frames, but not the frame of a fiber.
LEMMA KeptCalls ==
  ASSUME CallStackInv, CallsInv,
         \A g \in DOMAIN fiber_stacks' :
           /\ g \in DOMAIN fiber_stacks
           /\ Len(fiber_stacks'[g]) \in 0..Len(fiber_stacks[g])
           /\ g # MainFiber => Len(fiber_stacks'[g]) > 0
           /\ \A i \in 1..Len(fiber_stacks'[g]) : fiber_stacks'[g][i] = fiber_stacks[g][i]
  PROVE  CallsInv'
<1>1. \A g \in DOMAIN fiber_stacks' :
        /\ Len(fiber_stacks[g]) \in Nat
        /\ \A i \in 1..Len(fiber_stacks'[g]) : i \in 1..Len(fiber_stacks[g])
  BY Frames DEF CallStackInv
<1>2. FibersBegin'
  BY <1>1 DEF CallsInv, FibersBegin
<1>3. NumbersUnique'
  BY <1>1 DEF CallsInv, NumbersUnique
<1>4. DepthBounded'
  BY <1>1, CallStackAssumption DEF CallsInv, DepthBounded
<1> QED BY <1>2, <1>3, <1>4 DEF CallsInv

\* The number of a call that is made is a new one.
LEMMA PushedCalls ==
  ASSUME CallStackInv, CallsInv, NEW f \in Functions, AddStackFrame(f)
  PROVE  CallsInv'
<1>1. /\ function_count' = function_count + 1 /\ fiber' = fiber
      /\ DOMAIN fiber_stacks' = DOMAIN fiber_stacks
      /\ \A g \in DOMAIN fiber_stacks \ {fiber} : fiber_stacks'[g] = fiber_stacks[g]
      /\ stack' \in Seq(Frame) /\ Len(stack') = Len(stack) + 1
      /\ \A i \in 1..Len(stack) : stack'[i] = stack[i]
      /\ stack'[Len(stack')] = [function |-> f, level |-> Len(stack'),
                                function_nr |-> function_count']
  BY Pushed DEF CallStackInv
<1>2. fiber_stacks'[fiber] = stack' /\ fiber_stacks[fiber] = stack /\ fiber \in DOMAIN fiber_stacks
  BY <1>1 DEF stack, CallStackInv, CallStackTypeOK
<1>3. \A g \in DOMAIN fiber_stacks :
        /\ function_count \in Int /\ Len(fiber_stacks[g]) \in Nat
        /\ \A k \in 1..Len(fiber_stacks[g]) :
             /\ fiber_stacks[g][k].function_nr \in Nat
             /\ fiber_stacks[g][k].function_nr <= function_count
  BY Frames DEF CallStackInv
<1>4. f # FiberMain
  BY CallStackAssumption
<1>5. ASSUME NEW g \in DOMAIN fiber_stacks, NEW i \in 1..Len(fiber_stacks'[g])
      PROVE  \/ /\ g = fiber /\ i = Len(stack) + 1
                /\ fiber_stacks'[g][i].function = f
                /\ fiber_stacks'[g][i].function_nr = function_count + 1
             \/ i \in 1..Len(fiber_stacks[g]) /\ fiber_stacks'[g][i] = fiber_stacks[g][i]
  <2>1. CASE g # fiber
    BY <2>1, <1>1
  <2>2. CASE g = fiber /\ i = Len(stack')
    BY <2>2, <1>1, <1>2
  <2>3. CASE g = fiber /\ i # Len(stack')
    <3>1. i \in 1..Len(stack)
      BY <2>3, <1>1, <1>2, <1>3
    <3> QED BY <3>1, <2>3, <1>1, <1>2
  <2> QED BY <2>1, <2>2, <2>3
<1>6. FibersBegin'
  <2> SUFFICES ASSUME NEW g \in DOMAIN fiber_stacks
               PROVE  /\ g # MainFiber => Len(fiber_stacks'[g]) > 0
                      /\ \A i \in 1..Len(fiber_stacks'[g]) :
                           fiber_stacks'[g][i].function = FiberMain <=> i = 1 /\ g # MainFiber
    BY <1>1 DEF FibersBegin
  <2>1. g # MainFiber => Len(fiber_stacks'[g]) > 0
    BY <1>1, <1>2, <1>3 DEF CallsInv, FibersBegin
  <2>2. ASSUME NEW i \in 1..Len(fiber_stacks'[g])
        PROVE  fiber_stacks'[g][i].function = FiberMain <=> i = 1 /\ g # MainFiber
    <3>1. CASE g = fiber /\ i = Len(stack) + 1 /\ fiber_stacks'[g][i].function = f
      BY <3>1, <1>2, <1>3, <1>4 DEF CallsInv, FibersBegin
    <3>2. CASE i \in 1..Len(fiber_stacks[g]) /\ fiber_stacks'[g][i] = fiber_stacks[g][i]
      BY <3>2 DEF CallsInv, FibersBegin
    <3> QED BY <3>1, <3>2, <1>5
  <2> QED BY <2>1, <2>2
<1>7. NumbersUnique'
  <2> SUFFICES ASSUME NEW g \in DOMAIN fiber_stacks, NEW h \in DOMAIN fiber_stacks,
                      NEW i \in 1..Len(fiber_stacks'[g]), NEW j \in 1..Len(fiber_stacks'[h]),
                      fiber_stacks'[g][i].function # FiberMain,
                      fiber_stacks'[h][j].function # FiberMain,
                      fiber_stacks'[g][i].function_nr = fiber_stacks'[h][j].function_nr
               PROVE  g = h /\ i = j
    BY <1>1 DEF NumbersUnique
  <2>1. \/ g = fiber /\ i = Len(stack) + 1 /\ fiber_stacks'[g][i].function_nr = function_count + 1
        \/ i \in 1..Len(fiber_stacks[g]) /\ fiber_stacks'[g][i] = fiber_stacks[g][i]
    BY <1>5
  <2>2. \/ h = fiber /\ j = Len(stack) + 1 /\ fiber_stacks'[h][j].function_nr = function_count + 1
        \/ j \in 1..Len(fiber_stacks[h]) /\ fiber_stacks'[h][j] = fiber_stacks[h][j]
    BY <1>5
  <2>3. \A k \in 1..Len(fiber_stacks[g]) : fiber_stacks[g][k].function_nr < function_count + 1
    BY <1>3
  <2>4. \A k \in 1..Len(fiber_stacks[h]) : fiber_stacks[h][k].function_nr < function_count + 1
    BY <1>3
  <2>5. CASE g = fiber /\ i = Len(stack) + 1 /\ fiber_stacks'[g][i].function_nr = function_count + 1
    BY <2>2, <2>4, <2>5, <1>3
  <2>6. CASE h = fiber /\ j = Len(stack) + 1 /\ fiber_stacks'[h][j].function_nr = function_count + 1
    BY <2>1, <2>3, <2>6, <1>3
  <2>7. CASE /\ i \in 1..Len(fiber_stacks[g]) /\ fiber_stacks'[g][i] = fiber_stacks[g][i]
             /\ j \in 1..Len(fiber_stacks[h]) /\ fiber_stacks'[h][j] = fiber_stacks[h][j]
    BY <2>7 DEF CallsInv, NumbersUnique
  <2> QED BY <2>1, <2>2, <2>5, <2>6, <2>7
<1>8. DepthBounded'
  <2>1. Len(stack) < MaxDepth /\ Len(stack) \in Nat
    BY <1>2, <1>3 DEF AddStackFrame
  <2> QED BY <2>1, <1>1, <1>2, CallStackAssumption DEF CallsInv, DepthBounded
<1> QED BY <1>6, <1>7, <1>8 DEF CallsInv

\* A return takes a counted call away.
LEMMA PoppedCalls ==
  ASSUME CallStackInv, CallsInv, PopFrame
  PROVE  CallsInv'
<1>1. /\ fiber' = fiber /\ DOMAIN fiber_stacks' = DOMAIN fiber_stacks
      /\ \A g \in DOMAIN fiber_stacks \ {fiber} : fiber_stacks'[g] = fiber_stacks[g]
      /\ Len(stack') = Len(stack) - 1
      /\ \A i \in 1..Len(stack') : stack'[i] = stack[i]
  BY Popped DEF CallStackInv
<1>2. fiber_stacks'[fiber] = stack' /\ fiber_stacks[fiber] = stack /\ fiber \in DOMAIN fiber_stacks
  BY <1>1 DEF stack, CallStackInv, CallStackTypeOK
<1>3. \A g \in DOMAIN fiber_stacks : Len(fiber_stacks[g]) \in Nat
  BY Frames DEF CallStackInv
<1>4. Len(stack) > 0 /\ (fiber # MainFiber => Len(stack) > 1)
  <2>1. Len(stack) > 0 /\ stack[Len(stack)].function # FiberMain /\ Len(stack) \in Nat
    BY <1>2, <1>3 DEF PopFrame, MayLeave, Top
  <2> QED BY <2>1, <1>2 DEF CallsInv, FibersBegin
<1>5. \A g \in DOMAIN fiber_stacks' :
        /\ Len(fiber_stacks'[g]) \in 0..Len(fiber_stacks[g])
        /\ g # MainFiber => Len(fiber_stacks'[g]) > 0
        /\ \A i \in 1..Len(fiber_stacks'[g]) : fiber_stacks'[g][i] = fiber_stacks[g][i]
  BY <1>1, <1>2, <1>3, <1>4 DEF CallsInv, FibersBegin
<1> QED BY <1>1, <1>5, KeptCalls

\* The frame of a fiber that starts is not counted.
LEMMA StartedCalls ==
  ASSUME CallStackInv, CallsInv, NEW f \in Fibers, StartFiber(f)
  PROVE  CallsInv'
<1>1. /\ f \notin DOMAIN fiber_stacks /\ f # MainFiber
      /\ DOMAIN fiber_stacks' = DOMAIN fiber_stacks \cup {f}
      /\ \A g \in DOMAIN fiber_stacks : fiber_stacks'[g] = fiber_stacks[g]
      /\ fiber_stacks'[f] = NewStack
  BY DEF StartFiber, CallStackInv, CallStackTypeOK
<1>2. Len(NewStack) = 1 /\ NewStack[1].function = FiberMain
  BY DEF NewStack
<1>3. MaxDepth >= 1
  <2>1. Len(stack) \in Nat /\ Len(stack) > 0 /\ Len(stack) <= MaxDepth
    BY Frames DEF StartFiber, InBuiltIn, CallsInv, DepthBounded, stack, CallStackInv, CallStackTypeOK
  <2> QED BY <2>1, CallStackAssumption
<1>4. FibersBegin'
  BY <1>1, <1>2 DEF CallsInv, FibersBegin
<1>5. NumbersUnique'
  <2> SUFFICES ASSUME NEW g \in DOMAIN fiber_stacks', NEW h \in DOMAIN fiber_stacks',
                      NEW i \in 1..Len(fiber_stacks'[g]), NEW j \in 1..Len(fiber_stacks'[h]),
                      fiber_stacks'[g][i].function # FiberMain,
                      fiber_stacks'[h][j].function # FiberMain,
                      fiber_stacks'[g][i].function_nr = fiber_stacks'[h][j].function_nr
               PROVE  g = h /\ i = j
    BY DEF NumbersUnique
  <2>1. g # f /\ h # f
    BY <1>1, <1>2
  <2> QED BY <2>1, <1>1 DEF CallsInv, NumbersUnique
<1>6. DepthBounded'
  BY <1>1, <1>2, <1>3 DEF CallsInv, DepthBounded
<1> QED BY <1>4, <1>5, <1>6 DEF CallsInv

\* A fiber that ends takes its own frame only.
LEMMA EndedCalls ==
  ASSUME CallStackInv, CallsInv, EndFiber
  PROVE  CallsInv'
<1>1. /\ DOMAIN fiber_stacks' = DOMAIN fiber_stacks \ {fiber}
      /\ \A g \in DOMAIN fiber_stacks' : fiber_stacks'[g] = fiber_stacks[g]
  BY EndedInv
<1>2. \A g \in DOMAIN fiber_stacks : Len(fiber_stacks[g]) \in Nat
  BY Frames DEF CallStackInv
<1>3. \A g \in DOMAIN fiber_stacks' :
        /\ g \in DOMAIN fiber_stacks
        /\ Len(fiber_stacks'[g]) \in 0..Len(fiber_stacks[g])
        /\ g # MainFiber => Len(fiber_stacks'[g]) > 0
        /\ \A i \in 1..Len(fiber_stacks'[g]) : fiber_stacks'[g][i] = fiber_stacks[g][i]
  BY <1>1, <1>2 DEF CallsInv, FibersBegin
<1> QED BY <1>3, KeptCalls

\* Fibers that nothing resumes are ended when the main one has no frame left; it
\* is the running one then.
LEMMA DestroyedInv ==
  ASSUME CallStackInv, CallsInv, NEW f \in Fibers, DestroyFiber(f)
  PROVE  CallStackInv' /\ CallsInv' /\ f # MainFiber
<1>1. fiber = MainFiber
  BY DEF DestroyFiber, CallsInv, FibersBegin, CallStackInv, CallStackTypeOK, stack
<1>2. /\ f \in DOMAIN fiber_stacks /\ f # fiber /\ f # MainFiber
      /\ fiber' = f /\ resumer' = [resumer EXCEPT ![f] = fiber] /\ resumer[f] = None
      /\ fiber_stacks' = fiber_stacks /\ function_count' = function_count
  BY <1>1 DEF DestroyFiber
<1>3. CallStackInv'
  BY <1>2, ResumedAgain
<1>4. CallsInv'
  BY <1>2 DEF CallsInv, FibersBegin, NumbersUnique, DepthBounded
<1> QED BY <1>2, <1>3, <1>4
=============================================================================
