------------------------------ MODULE Profiler ------------------------------
(***************************************************************************)
(* The profiler (profiler/profiler.c): what it keeps with every frame of   *)
(* the call stack and the costs it writes when a call ends.  Observers     *)
(* says when these things happen; t is the time at which they do.          *)
(***************************************************************************)
EXTENDS CallStack

VARIABLES
  active,           \* XG_PROF(active): is there a profile being written
  start_nanotime,   \* XG_PROF(profiler_start_nanotime)
  profiles,         \* fiber -> what fse->profile and fse->profiler of its frames hold
  written,          \* the self costs in the file, in units of 10 ns, summed up
  blocks,           \* how many of them there are
  spent,            \* history: what the self costs were before they were rounded
  summary,          \* the total in the file's last line, -1 while there is none
  crashed           \* a NULL name was followed

costVars == <<written, blocks, spent>>
profilerVars == <<active, start_nanotime, profiles, costVars, summary, crashed>>

(* nanotime is what was measured, nanotime_mark where measuring goes on, and *)
(* named says if the names have been taken.  Of call_list there are the sum  *)
(* of its times, the number of its calls, and what the lines that are        *)
(* written of them, when the frame ends, add up to.                          *)
Profile == [nanotime: Int, nanotime_mark: Nat, called: Int, calls: Nat, shown: Int,
            named: BOOLEAN]
Cleared == [nanotime |-> 0, nanotime_mark |-> 0, called |-> 0, calls |-> 0, shown |-> 0,
            named |-> FALSE]

(* NANOTIME_SCALE_10NS.  Its operand is unsigned; ProfileAddsUp shows that   *)
(* it is never below 0.                                                      *)
Scaled(nanotime) == (nanotime + 5) \div 10

ProfilerInitial ==
  /\ active = FALSE /\ start_nanotime = 0 /\ summary = -1
  /\ written = 0 /\ blocks = 0 /\ spent = 0
  /\ profiles = [f \in {MainFiber} |-> <<>>]
  /\ crashed = FALSE

\* xdebug.profiler_output_name may be unusable, and the file not be opened.
ProfilerInitIfRequested(t) ==
  \/ /\ ~active
     /\ active' = TRUE /\ start_nanotime' = t /\ summary' = -1
     /\ written' = 0 /\ blocks' = 0 /\ spent' = 0
  \/ UNCHANGED <<active, start_nanotime, costVars, summary>>

\* Faulty: the first call is looked at before the profile is started.
FunctionBeginEarly(t) ==
  profiles' = [profiles EXCEPT ![fiber] = Append(@,
    IF active THEN [Cleared EXCEPT !.nanotime_mark = t, !.named = TRUE] ELSE Cleared)]

\* The frame just pushed: its names are taken, and measuring it starts.
FunctionBegin(t) ==
  profiles' = [profiles EXCEPT ![fiber] = Append(@,
    IF active' THEN [Cleared EXCEPT !.nanotime_mark = t, !.named = TRUE] ELSE Cleared)]

(* Ending call i of a vector: its cost is added to those its caller called,  *)
(* and what remains of it without those it called is written.  Each line is  *)
(* rounded for itself.                                                       *)
Ending == [profiles: Seq(Profile), written: Int, blocks: Nat, spent: Int, crashed: BOOLEAN]
Taken(p, t) == p.nanotime + (t - p.nanotime_mark)
Called(p, taken) ==
  [p EXCEPT !.called = @ + taken, !.calls = @ + 1, !.shown = @ + Scaled(taken)]

\* Faulty: the cost of the calls is not subtracted.
EndInclusive(e, i, t) ==
  LET p == e.profiles[i]
      self == Taken(p, t)
      ended == [e.profiles EXCEPT ![i] = [@ EXCEPT !.nanotime = self, !.nanotime_mark = 0]]
  IN  [profiles |-> IF i = 1 THEN ended
                    ELSE [ended EXCEPT ![i - 1] = Called(@, Taken(p, t))],
       written |-> e.written + Scaled(self), blocks |-> e.blocks + 1, spent |-> e.spent + self,
       crashed |-> e.crashed \/ ~p.named]

FunctionEnd(e, i, t) ==
  LET p == e.profiles[i]
      self == Taken(p, t) - p.called
      ended == [e.profiles EXCEPT ![i] = [@ EXCEPT !.nanotime = self, !.nanotime_mark = 0]]
  IN  [profiles |-> IF i = 1 THEN ended
                    ELSE [ended EXCEPT ![i - 1] = Called(@, Taken(p, t))],
       written |-> e.written + Scaled(self), blocks |-> e.blocks + 1, spent |-> e.spent + self,
       crashed |-> e.crashed \/ ~p.named]

Now == [profiles |-> profiles[fiber], written |-> written, blocks |-> blocks, spent |-> spent,
        crashed |-> crashed]

CostsOf(e) == written' = e.written /\ blocks' = e.blocks /\ spent' = e.spent /\ crashed' = e.crashed

\* The calls of the running vector down from the innermost; others are not seen.
AllEnded(t) ==
  LET n == Len(profiles[fiber])
      after[k \in 0..n] == IF k = 0 THEN Now ELSE FunctionEnd(after[k - 1], n - k + 1, t)
  IN  after[n]

\* xdebug_profiler_deinit, when a request ends, exit() or pcntl_exec() is called
Deinit(t) ==
  IF active
  THEN /\ LET e == AllEnded(t) IN
            /\ profiles' = [profiles EXCEPT ![fiber] = e.profiles]
            /\ CostsOf(e)
       /\ summary' = Scaled(t - start_nanotime)
       /\ active' = FALSE /\ UNCHANGED start_nanotime
  ELSE UNCHANGED profilerVars

\* A call is left: its frame goes away after this.
EndTop(t) ==
  LET n == Len(profiles[fiber])
      e == IF active THEN FunctionEnd(Now, n, t) ELSE Now
  IN  /\ profiles' = [profiles EXCEPT ![fiber] = SubSeq(e.profiles, 1, n - 1)]
      /\ CostsOf(e)
      /\ UNCHANGED <<active, start_nanotime, summary>>
-----------------------------------------------------------------------------
ProfilerTypeOK ==
  /\ active \in BOOLEAN /\ crashed \in BOOLEAN
  /\ start_nanotime \in Nat /\ written \in Int /\ blocks \in Nat /\ spent \in Int
  /\ summary \in Int
  /\ DOMAIN profiles = DOMAIN fiber_stacks
  /\ \A f \in DOMAIN profiles :
       /\ profiles[f] \in Seq(Profile)
       /\ Len(profiles[f]) = Len(fiber_stacks[f])

\* n amounts, each rounded to units of 10, from which it differs by 5 at most.
Rounded(units, amount, n) == amount - 4 * n <= 10 * units /\ 10 * units <= amount + 5 * n

\* What the calls of a vector's first i frames have cost.
CalledUpTo(frames) ==
  LET sum[i \in 0..Len(frames)] == IF i = 0 THEN 0 ELSE sum[i - 1] + frames[i].called
  IN  sum

\* The time that calls took which have ended and were called by none.
OutermostTaken == spent - CalledUpTo(profiles[MainFiber])[Len(profiles[MainFiber])]
=============================================================================
