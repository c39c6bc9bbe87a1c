---------------------------- MODULE CodeCoverage ----------------------------
(***************************************************************************)
(* Branch and path coverage of one function (coverage/code_coverage.c and  *)
(* coverage/branch_info.c): the analysis of its opcodes into branches and  *)
(* the paths through them, and what is marked as hit while it runs.        *)
(*                                                                         *)
(* The engine is external: it executes the opcodes, one after the other,   *)
(* and Xdebug's handler runs before each.  An opcode that is none of the   *)
(* jumps that the analysis knows is "other".                               *)
(***************************************************************************)
EXTENDS Integers, Sequences, SequencesExt, FiniteSets

CONSTANTS
  OpArrays,   \* functions from 0..n-1 to opcodes
  MaxRun      \* bound: opcodes that are executed

EXIT == -1    \* XDEBUG_JMP_EXIT
NotSet == -1  \* the branch before the first one; no opcode

Op(name, to) == [op |-> name, to |-> to]
OpCount(ops) == Cardinality(DOMAIN ops)                       \* op_array->last
IsCatch(ops, i) == ops[i].op \in {"CATCH", "LAST_CATCH"}
HasTarget(ops, i) ==
  ops[i].op \in {"JMP", "GOTO", "JMPZ", "FE_RESET", "FE_FETCH", "JMP_FRAMELESS", "CATCH", "MATCH", "SWITCH"}
IsReturn(ops, i) == ops[i].op \in {"RETURN", "RETURN_BY_REF"}

\* What the engine makes: the last opcode returns, and the first one, the EXT_NOP
\* or EXT_STMT of the beginning, is not jumped to.  Functions with finally blocks
\* are left out, since the ways into and out of those are the engine's.
IsOpArray(ops) ==
  /\ OpCount(ops) \in Nat \ {0} /\ DOMAIN ops = 0..(OpCount(ops) - 1)
  /\ IsReturn(ops, OpCount(ops) - 1) /\ ops[0].op # "SWITCH"
  /\ \A i \in DOMAIN ops :
       /\ ops[i].op \notin {"FAST_CALL", "FAST_RET"}
       /\ HasTarget(ops, i) => ops[i].to \in DOMAIN ops \ {0}

ASSUME CoverageAssumption == MaxRun \in Nat /\ \A ops \in OpArrays : IsOpArray(ops)
-----------------------------------------------------------------------------
(* xdebug_find_jumps: where the opcode at i can go, <<>> when it is no jump.  *)
\* A match goes to its case or its default, a switch also to the next opcode.
Jumps(ops, i) ==
  LET to == ops[i].to IN
  CASE ops[i].op \in {"JMP", "GOTO"}                          -> <<to>>
    [] ops[i].op \in {"JMPZ", "FE_RESET", "FE_FETCH", "JMP_FRAMELESS"} -> <<i + 1, to>>
    [] ops[i].op = "CATCH"      -> IF to = i + 1 THEN <<i + 1>> ELSE <<i + 1, to>>
    [] ops[i].op = "LAST_CATCH" -> <<i + 1, EXIT>>
    [] ops[i].op = "FAST_CALL"  -> <<to, i + 1>>
    [] ops[i].op = "MATCH"      -> <<to, OpCount(ops) - 1>>
    [] ops[i].op = "SWITCH"     -> <<to, OpCount(ops) - 1, i + 1>>
    [] ops[i].op \in {"RETURN", "THROW", "FAST_RET", "CALL_EXIT"} -> <<EXIT>>
    [] OTHER -> <<>>

EndsBranch(ops, i) == Jumps(ops, i) # <<>> \/ ops[i].op = "RETURN_BY_REF"
Catches(ops) == {i \in DOMAIN ops : i > 0 /\ IsCatch(ops, i)}

\* only_leave_first_catch: of a chain of catches the first is entered.
Chained(ops, entries) ==
  {ops[i].to : i \in {j \in entries : ops[j].op = "CATCH"}} \cap {i \in DOMAIN ops : IsCatch(ops, i)}

MaxOf(x, y) == IF x > y THEN x ELSE y
-----------------------------------------------------------------------------
VARIABLES
  op_array,          \* the function
  stage,             \* of its analysis: "branches", "outs", "paths"
  active_code,       \* active_code_set
  starts, branch_ends, entry_points, outs, highest_out,   \* branch_info
  paths,             \* path_info
  calls_left,        \* the calls of xdebug_analysis_branch still to be made
  position,          \* the opcode a loop is at, NotSet outside of it
  last_start, in_branch,
  open_paths,        \* the calls of xdebug_branch_find_path still to be made
  pc,                \* the next opcode, EXIT when the function has returned
  cov_path,          \* XG_COV(paths_stack)->paths[level]
  last_branch_nr,    \* of this level
  visited_branches,
  hit_branch,        \* bits: a branch, then its outs
  hit_paths,
  executed, walked   \* history: opcodes executed; steps between branches

branchVars == <<op_array, active_code, starts, branch_ends, entry_points, outs, highest_out, paths>>
analysisVars == <<stage, calls_left, position, last_start, in_branch, open_paths>>
runVars == <<pc, cov_path, last_branch_nr, visited_branches, hit_branch, hit_paths, executed, walked>>
coverageVars == <<branchVars, analysisVars, runVars>>

\* prefill_from_oparray, and xdebug_code_coverage_start_of_function: the function
\* is analysed from its beginning and every catch block.
CoverageInit ==
  /\ op_array \in OpArrays
  /\ stage = "branches" /\ calls_left = {0} \cup Catches(op_array) /\ position = NotSet
  /\ active_code = {} /\ starts = {} /\ branch_ends = {} /\ entry_points = {}
  /\ outs = [i \in DOMAIN op_array |-> <<>>] /\ highest_out = 0
  /\ paths = {} /\ open_paths = {} /\ last_start = NotSet /\ in_branch = FALSE
  /\ pc = 0 /\ cov_path = <<>> /\ last_branch_nr = NotSet
  /\ visited_branches = {} /\ hit_branch = {} /\ hit_paths = {}
  /\ executed = <<>> /\ walked = <<>>

\* Nothing is covered: the function is not looked at.
NoCoverage ==
  /\ op_array = <<>> /\ outs = <<>> /\ stage = "none" /\ position = NotSet /\ highest_out = 0
  /\ calls_left = {} /\ active_code = {} /\ starts = {} /\ branch_ends = {} /\ entry_points = {}
  /\ paths = {} /\ open_paths = {} /\ last_start = NotSet /\ in_branch = FALSE
  /\ pc = EXIT /\ cov_path = <<>> /\ last_branch_nr = NotSet /\ visited_branches = {}
  /\ hit_branch = {} /\ hit_paths = {} /\ executed = <<>> /\ walked = <<>>

\* xdebug_analysis_branch before its loop.  The order of the calls changes nothing
\* of what they find.
AnalysisBranch ==
  /\ stage = "branches" /\ position = NotSet /\ calls_left # {}
  /\ LET at == CHOOSE i \in calls_left : TRUE IN
     /\ calls_left' = calls_left \ {at}
     /\ starts' = starts \cup {at}
     /\ position' = IF at \in active_code THEN NotSet ELSE at
     /\ active_code' = active_code \cup {at}
  /\ UNCHANGED <<op_array, branch_ends, entry_points, outs, highest_out, paths,
                 stage, last_start, in_branch, open_paths, runVars>>

\* A turn of its loop, with the calls it makes for the jumps of an opcode.
FollowBranch ==
  /\ stage = "branches" /\ position # NotSet
  /\ LET jumps == Jumps(op_array, position) IN
     IF EndsBranch(op_array, position)
     THEN /\ branch_ends' = branch_ends \cup {position}
          /\ outs' = [outs EXCEPT ![position] = jumps]
          /\ highest_out' = MaxOf(highest_out, Len(jumps))
          /\ calls_left' = calls_left \cup (ToSet(jumps) \ {EXIT})
          /\ position' = NotSet
          /\ UNCHANGED active_code
     ELSE /\ position' = position + 1
          /\ active_code' = active_code \cup {position + 1}
          /\ UNCHANGED <<branch_ends, outs, highest_out, calls_left>>
  /\ UNCHANGED <<op_array, starts, entry_points, paths, stage, last_start, in_branch, open_paths, runVars>>

\* xdebug_analysis_oparray is done; the first loop of xdebug_branch_post_process.
BranchesFound ==
  /\ stage = "branches" /\ position = NotSet /\ calls_left = {}
  /\ LET entries == {0} \cup Catches(op_array) IN
     entry_points' = entries \ Chained(op_array, entries)
  /\ branch_ends' = branch_ends \cup {OpCount(op_array) - 1}
  /\ stage' = "outs" /\ position' = 0
  /\ UNCHANGED <<op_array, active_code, starts, outs, highest_out, paths,
                 calls_left, last_start, in_branch, open_paths, runVars>>

\* A turn of the second loop of xdebug_branch_post_process: a branch goes on into
\* the one that starts behind it, or gets the outs of the opcode it ends with.
FindOuts ==
  /\ stage = "outs" /\ position < OpCount(op_array)
  /\ LET starting == position \in starts
         branch   == IF starting THEN position ELSE last_start
         linked   == IF starting /\ in_branch THEN [outs EXCEPT ![last_start] = <<position>>] ELSE outs
         ending   == position \in branch_ends
     IN /\ last_start' = branch
        /\ outs' = IF ending THEN [linked EXCEPT ![branch] = linked[position]] ELSE linked
        /\ in_branch' = (~ending /\ (starting \/ in_branch))
  /\ position' = position + 1
  /\ UNCHANGED <<op_array, active_code, starts, branch_ends, entry_points, highest_out, paths,
                 stage, calls_left, open_paths, runVars>>

\* xdebug_branch_find_paths
OutsFound ==
  /\ stage = "outs" /\ position = OpCount(op_array)
  /\ stage' = "paths" /\ position' = NotSet
  /\ open_paths' = {<<i>> : i \in entry_points}
  /\ UNCHANGED <<branchVars, calls_left, last_start, in_branch, runVars>>

\* xdebug_branch_find_path: on to every branch that does not repeat a step; a
\* path ends where there is none.  (The bound of 4096 paths is left out.)
StepsOf(path) == {<<path[k], path[k + 1]>> : k \in 1..(Len(path) - 1)}
Onwards(path) ==
  {out \in ToSet(outs[Last(path)]) \ {0, EXIT} : <<Last(path), out>> \notin StepsOf(path)}

FindPath ==
  /\ stage = "paths" /\ open_paths # {}
  /\ LET path == CHOOSE p \in open_paths : TRUE IN
     /\ paths' = IF Onwards(path) = {} THEN paths \cup {path} ELSE paths
     /\ open_paths' = (open_paths \ {path}) \cup {Append(path, out) : out \in Onwards(path)}
  /\ UNCHANGED <<op_array, active_code, starts, branch_ends, entry_points, outs, highest_out,
                 stage, calls_left, position, last_start, in_branch, runVars>>

Analysed == stage = "paths" /\ open_paths = {}
-----------------------------------------------------------------------------
Bit(nr) == nr * (1 + highest_out)

\* xdebug_branch_info_mark_end_of_function_reached
EndedPaths == IF cov_path \in paths THEN {cov_path} ELSE {}

\* xdebug_branch_info_mark_reached, with last the branch before this opcode
MarkReached(last) ==
  /\ hit_branch' = hit_branch \cup {Bit(pc)}
       \cup (IF last = NotSet THEN {} ELSE {Bit(last) + k : k \in {j \in 1..Len(outs[last]) : outs[last][j] = pc}})
  /\ visited_branches' = visited_branches \cup {<<pc, last>>}
  /\ last_branch_nr' = pc
  /\ walked' = Append(walked, <<last, pc>>)

\* Where the engine goes after the opcode at pc, and where it may throw to: the
\* first catch of a try block around it.  Xdebug makes a switch take its cases
\* one by one.
Successors ==
  LET to == op_array[pc].to IN
  CASE op_array[pc].op \in {"JMP", "GOTO"} -> {to}
    [] op_array[pc].op \in {"JMPZ", "FE_RESET", "FE_FETCH", "JMP_FRAMELESS", "CATCH"} -> {pc + 1, to}
    [] op_array[pc].op = "MATCH" -> {to, OpCount(op_array) - 1}
    [] op_array[pc].op = "LAST_CATCH" -> {pc + 1, EXIT}
    [] op_array[pc].op \in {"RETURN", "RETURN_BY_REF", "CALL_EXIT"} -> {EXIT}
    [] op_array[pc].op = "THROW" -> {}
    [] OTHER -> {pc + 1}
Handlers == {i \in DOMAIN op_array : i > pc + 1 /\ i \in entry_points}
MayThrow == op_array[pc].op \in {"other", "THROW"}

\* xdebug_switch_handler stands where the other handlers look for branches: a branch
\* that begins at a switch, as one over a value that is jumped to does, is not noticed.
Watched == {i \in starts : op_array[i].op # "SWITCH"}

\* Faulty: a path goes on in the catch block an exception leads to.
OpcodeHandlerGoingOn ==
  /\ IF pc \in Watched
     THEN /\ MarkReached(last_branch_nr)
          /\ cov_path' = IF <<pc, last_branch_nr>> \in visited_branches THEN cov_path ELSE Append(cov_path, pc)
     ELSE UNCHANGED <<hit_branch, visited_branches, last_branch_nr, cov_path, walked>>
  /\ UNCHANGED hit_paths

\* xdebug_common_override_handler, xdebug_check_branch_entry_handler,
\* xdebug_switch_handler: a catch block that is entered ends a path and begins another.
OpcodeHandler ==
  LET entered == pc # 0 /\ pc \in entry_points
      last    == IF entered THEN NotSet ELSE last_branch_nr
      path    == IF entered THEN <<>> ELSE cov_path
  IN /\ hit_paths' = IF entered THEN hit_paths \cup EndedPaths ELSE hit_paths
     /\ IF pc \in Watched
        THEN /\ MarkReached(last)
             /\ cov_path' = IF <<pc, last>> \in visited_branches THEN path ELSE Append(path, pc)
        ELSE UNCHANGED <<hit_branch, visited_branches, last_branch_nr, cov_path, walked>>

ExecuteOpcode ==
  /\ Analysed /\ pc # EXIT /\ Len(executed) < MaxRun
  /\ OpcodeHandler
  /\ executed' = Append(executed, pc)
  /\ pc' \in Successors \cup (IF MayThrow THEN Handlers \cup {EXIT} ELSE {})
  /\ UNCHANGED <<branchVars, analysisVars>>

\* xdebug_coverage_execute_ex_end
EndOfFunction ==
  /\ pc = EXIT /\ cov_path # <<>>
  /\ hit_paths' = hit_paths \cup EndedPaths
  /\ cov_path' = <<>>
  /\ UNCHANGED <<branchVars, analysisVars, pc, last_branch_nr, visited_branches, hit_branch, executed, walked>>

CoverageNext ==
  \/ AnalysisBranch \/ FollowBranch \/ BranchesFound \/ FindOuts \/ OutsFound \/ FindPath
  \/ ExecuteOpcode \/ EndOfFunction
CoverageSpec == CoverageInit /\ [][CoverageNext]_coverageVars
-----------------------------------------------------------------------------
\* What ran is not reported as dead code.
ExecutedIsActive == ToSet(executed) \subseteq active_code

\* A step from the branch at i to the one at j, through none that is noticed.
Stepped(i, j) ==
  \E k, m \in DOMAIN executed :
    /\ k < m /\ executed[k] = i /\ executed[m] = j
    /\ \A between \in (k + 1)..(m - 1) : executed[between] \notin Watched

\* add_branches reports as hit the branches that were entered, and as taken the
\* ways out of them that were: no bit of one is taken for a bit of another.  A branch
\* that begins at a switch is never reported, nor are the ways into it and out of it;
\* a way through it counts as one past it.
BranchesHit ==
  Analysed =>
    \A i \in starts :
      /\ Bit(i) \in hit_branch <=> i \in ToSet(executed) \cap Watched
      /\ \A k \in 1..Len(outs[i]) :
           outs[i][k] \notin entry_points =>
             (Bit(i) + k \in hit_branch <=> {i, outs[i][k]} \subseteq Watched /\ Stepped(i, outs[i][k]))

\* The path since the beginning of the function, or the catch block entered last.
BeginsPath(k) == walked[k][1] = NotSet /\ \A later \in (k + 1)..Len(walked) : walked[later][1] # NotSet
PathFrom(k) == [j \in 1..(Len(walked) - k + 1) |-> walked[k + j - 1][2]]

\* When a call that took no step twice returns, the path it took at last is one of
\* those the analysis has found and is reported as hit.  Only where the last opcode
\* is live: when it is dead, the branch before it is given its outs, which it has
\* none of.  And a step is noted once for a call: the path that goes on from a
\* catch block with steps taken before it lacks them (branch_info.c:427).  Nor when a
\* branch that begins at a switch was on the way: the path noted leaves it out.
AllNoticed == ToSet(executed) \cap starts \subseteq Watched
StepsDiffer == \A j, k \in 1..Len(walked) : walked[j] = walked[k] => j = k
PathHit ==
  (/\ pc = EXIT /\ cov_path = <<>> /\ executed # <<>> /\ IsReturn(op_array, Last(executed))
   /\ OpCount(op_array) - 1 \in active_code /\ StepsDiffer /\ AllNoticed) =>
  \A k \in 1..Len(walked) : BeginsPath(k) => PathFrom(k) \in hit_paths

CoverageIsExact == ExecutedIsActive /\ BranchesHit /\ PathHit
=============================================================================
