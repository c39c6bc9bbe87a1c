---------------------------- MODULE LineCoverage ----------------------------
(***************************************************************************)
(* Line coverage (coverage/code_coverage.c): what a script gets that       *)
(* starts and stops it, over files that are compiled and run before,       *)
(* between and after.  A file is looked up by name, or is the one of the   *)
(* last look-up (fetch_file): the same, as no file leaves XG_COV(info)     *)
(* before the request ends.                                                *)
(***************************************************************************)
EXTENDS CodeCoverage

CONSTANTS
  CodeFiles,  \* file -> the lines of its opcodes that count
  DeadLines   \* file -> those of them no branch reaches

ASSUME LinesAssumption == DOMAIN DeadLines = DOMAIN CodeFiles

VARIABLES
  cc_active, cc_options,   \* code_coverage_active; unused, dead_code_analysis, branch_check
  cc_info,                 \* file -> lines with COV_BIT_HIT, _EXEC and _ACTIVE
  cc_filtered,             \* op_array->reserved[filter_offset] of the files compiled
  cc_ran, cc_late          \* history: lines run since the last cleanup; dead code
                           \* analysis was asked for when lines were known already

lineVars == <<cc_active, cc_options, cc_info, cc_filtered, cc_ran, cc_late>>

LineInit ==
  /\ cc_active = FALSE /\ cc_options = {} /\ cc_info = <<>> /\ cc_filtered = <<>>
  /\ cc_ran = {} /\ cc_late = FALSE

\* xdebug_start_code_coverage, also when it is active
StartCodeCoverage(options) ==
  /\ cc_options' = options /\ cc_active' = TRUE
  /\ cc_late' = (cc_late \/ ("dead_code" \in options \ cc_options /\ DOMAIN cc_info # {}))
  /\ UNCHANGED <<cc_info, cc_filtered, cc_ran>>

\* xdebug_stop_code_coverage: scrub_runtime, the analysis stays
StopCodeCoverage(cleanup) ==
  /\ cc_active /\ cc_active' = FALSE
  /\ cc_info' = IF cleanup THEN [f \in DOMAIN cc_info |-> [cc_info[f] EXCEPT !.hit = {}]] ELSE cc_info
  /\ cc_ran' = IF cleanup THEN {} ELSE cc_ran
  /\ UNCHANGED <<cc_options, cc_filtered, cc_late>>

\* fetch_file
FetchFile(f) == IF f \in DOMAIN cc_info THEN cc_info[f] ELSE [hit |-> {}, exec |-> {}, active |-> {}]
WithFile(f, file) == [g \in DOMAIN cc_info \cup {f} |-> IF g = f THEN file ELSE cc_info[g]]

\* xdebug_coverage_init_oparray, with the filter of the moment, then
\* xdebug_coverage_compile_file with prefill_from_oparray
CompileFile(f, filtered) ==
  LET file == FetchFile(f) IN
  /\ cc_filtered' = [g \in DOMAIN cc_filtered \cup {f} |-> IF g = f THEN filtered ELSE cc_filtered[g]]
  /\ cc_info' =
       IF ~cc_active \/ "unused" \notin cc_options \/ filtered THEN cc_info
       ELSE WithFile(f, [file EXCEPT !.exec = CodeFiles[f],
              !.active = IF "dead_code" \in cc_options THEN CodeFiles[f] \ DeadLines[f] ELSE @])
  /\ UNCHANGED <<cc_active, cc_options, cc_ran, cc_late>>

\* xdebug_count_line, by the statement handler and the overridden opcodes
RunLine(f, n) ==
  /\ f \in DOMAIN cc_filtered
  /\ LET counted == cc_active /\ ~cc_filtered[f]   file == FetchFile(f) IN
     /\ cc_info' = IF counted THEN WithFile(f, [file EXCEPT !.hit = @ \cup {n}]) ELSE cc_info
     /\ cc_ran' = IF counted THEN cc_ran \cup {<<f, n>>} ELSE cc_ran
  /\ UNCHANGED <<cc_active, cc_options, cc_filtered, cc_late>>

LineNext ==
  \/ \E o \in {{}, {"unused"}, {"unused", "dead_code"}} : StartCodeCoverage(o)
  \/ \E b \in BOOLEAN : StopCodeCoverage(b)
  \/ \E f \in DOMAIN CodeFiles : \E b \in BOOLEAN : CompileFile(f, b)
  \/ \E f \in DOMAIN CodeFiles : \E n \in CodeFiles[f] \ DeadLines[f] : RunLine(f, n)

LineSpec == LineInit /\ [][LineNext]_lineVars

\* add_file: the bits of a line as a number, and the table of what it means
Nmap == IF "dead_code" \in cc_options
        THEN <<10, 1, -2, 1, 14, 15, -1, 1>> ELSE <<10, 1, -1, 1, 14, 15, -1, 1>>
LineNumber(file, n) ==
  (IF n \in file.hit THEN 1 ELSE 0) + (IF n \in file.exec THEN 2 ELSE 0)
  + (IF n \in file.active THEN 4 ELSE 0)
Reported(f, n) == Nmap[LineNumber(cc_info[f], n) + 1]

\* xdebug_get_code_coverage says 1 of exactly the lines that ran while it was
\* active, and never of a line that is live that it is dead: unless dead code
\* analysis is asked for after files were compiled, whose lines are all dead then.
LinesAreReported ==
  \A f \in DOMAIN cc_info : \A n \in CodeFiles[f] :
    /\ (Reported(f, n) = 1) = (<<f, n>> \in cc_ran)
    /\ (Reported(f, n) = -2 /\ ~cc_late) => n \in DeadLines[f]
    /\ Reported(f, n) \in {1, -1, -2, 10}

\* A function that runs, and what its coverage says of it; files whose lines run.
CoverageIsRight == CoverageIsExact /\ LinesAreReported
=============================================================================
