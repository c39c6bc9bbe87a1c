----------------------------- MODULE MCLibrary -----------------------------
(* The sequential parts of Xdebug, for TLC.  Each behaviour is about one of    *)
(* them, its subject; the variables of the others keep their first values.     *)
(* A subject that is a function is given one of the inputs listed here.        *)
EXTENDS CommandLine, Containers, PathMaps, CodeCoverage, LineCoverage, StartDecisions, Variables, Inspection, Sources, OutputFiles,
  ControlSocket, LineResolver

VARIABLES subject, input

MCLines == <<<<"i">>, <<>>, <<"i", "n">>>>
MCCwd == <<"/", "w">>
MCSlotOf == [k \in Keys |-> IF k = "k1" THEN 1 ELSE 2]

\* Commands of up to two options, whose values have three characters between them.
Words == UNION {[1..n -> {"n", "7", Space, Quote, Backslash}] : n \in 0..3}
Options == {o \in [opt : {"i", "n", Dash}, value : Words] : o.opt = Dash => o.value # <<>>}
MCCommands ==
  [name : {<<>>, <<"n">>}, options : {<<>>} \cup {<<o>> : o \in Options}]
  \cup [name : {<<"n">>}, options : {<<p[1], p[2]>> : p \in {q \in Options \X Options :
                              q[1].opt # Dash /\ Len(q[1].value) + Len(q[2].value) <= 3}}]

\* Map files: ranges of one file, directories and files with prefixes, and two
\* files with rules for the same paths.
RemoteFile == <<"/", "r", "/", "s", "/", "f">>
MapRule(remote, range, local, to) ==
  [kind |-> "rule", remote |-> [path |-> remote, range |-> range],
   local |-> [path |-> local, range |-> to]]
RangeLines ==
  {MapRule(RemoteFile, range, <<"/", "l">>, to) :
     range \in {<<1>>, <<2, 3>>, <<4, 5>>, <<5, EOFText>>},
     to \in {<<1>>, <<3>>, <<2, 3>>, <<4, 5>>, <<6, EOFText>>}}
  \cup {MapRule(RemoteFile, range, <<"SKIP">>, <<>>) : range \in {<<1>>, <<2, 3>>, <<5, 6>>}}
PathLines ==
  {MapRule(remote, <<>>, local, <<>>) :
     remote \in {<<"/", "r", "/">>, <<"/", "r", "/", "s", "/">>, <<".", "/", "f">>, RemoteFile},
     local \in {<<"/", "l", "/">>, <<"x", "/">>, <<"/", "g">>, <<"SKIP">>}}
  \cup {[kind |-> k, path |-> p] : k \in {"remote_prefix", "local_prefix"},
                                   p \in {<<"/", "q", "/">>, <<".", "/">>, <<"q">>}}
  \cup {[kind |-> "nothing"], [kind |-> "garbage"],
        MapRule(RemoteFile, <<0, 2>>, <<"/", "l">>, <<0, 2>>),
        MapRule(RemoteFile, <<NotANumber>>, <<"/", "l">>, <<1>>)}
OneFile == UNION {[1..n -> RangeLines] : n \in 1..3} \cup UNION {[1..n -> PathLines] : n \in 1..2}
OtherFile == <<"/", "r", "/", "t">>
MixedLines ==
  {MapRule(path, range, <<"/", "l">>, to) :
     path \in {RemoteFile, OtherFile}, range \in {<<1>>, <<2, 3>>}, to \in {<<1>>, <<2, 3>>}}
  \cup {MapRule(RemoteFile, <<1>>, <<"SKIP">>, <<>>), MapRule(OtherFile, <<>>, <<"/", "l">>, <<>>)}
MCMapFiles ==
  {<<f>> : f \in OneFile \cup UNION {[1..n -> MixedLines] : n \in 1..3}}
  \cup {<<<<x>>, <<y, z>>>> : x \in MixedLines, y \in MixedLines, z \in MixedLines}
  \cup {<<<<x>>, <<y, z>>>> : y \in PathLines, z \in PathLines,
        x \in {MapRule(p, <<>>, q, <<>>) : p \in {<<"/", "r", "/">>, RemoteFile}, q \in {<<"/", "l", "/">>, <<"/", "g">>}}}
MCPathsAsked ==
  {RemoteFile, OtherFile, <<"/", "r", "/", "f">>, <<"/", "w", "/", "f">>, <<"/", "q", "/", "r", "/", "s", "/", "f">>}
MCLinesAsked == 1..7

\* Functions: of jumps and returns, of try blocks, and with a switch in a loop.
Flow == {Op("other", 0), Op("RETURN_BY_REF", 0)}
          \cup {Op("JMP", t) : t \in {1, 3, 4}} \cup {Op("JMPZ", t) : t \in 1..4}
TryBody == {Op("other", 0), Op("THROW", 0), Op("JMPZ", 4), Op("SWITCH", 2)}
Catching == {Op("other", 0), Op("LAST_CATCH", 0), Op("CATCH", 3), Op("CATCH", 4)}
MCOpArrays ==
  {[i \in 0..4 |-> IF i = 4 THEN Op("RETURN", 0) ELSE f[i]] : f \in {h \in [0..3 -> Flow] : h[0].op \in {"other", "JMPZ"}}}
  \cup {[i \in 0..4 |-> IF i = 4 THEN Op("RETURN", 0) ELSE IF i < 2 THEN f[i] ELSE g[i]] :
          f \in {h \in [0..1 -> TryBody] : h[0].op # "SWITCH"}, g \in [2..3 -> Catching]}
  \cup {[i \in 0..4 |-> CASE i = 0 -> Op("JMPZ", 2) [] i = 1 -> Op("SWITCH", 3) [] i = 2 -> x
                           [] i = 3 -> Op("JMPZ", 1) [] i = 4 -> Op("RETURN", 0)] :
          x \in {Op("other", 0), Op("JMPZ", 4)}}

MCCodeFiles == [f1 |-> {1, 2}, f2 |-> {1}]
MCDeadLines == [f1 |-> {2}, f2 |-> {}]

MCDataSizes == {-1, 1024}

\* Requests that carry up to two of the variables that start parts of Xdebug, or
\* one of them in two places.
Variable(name, value) ==
  [place |-> CASE name = "XDEBUG_CONFIG" -> "ENV" [] name = "XDEBUG_SESSION" -> "COOKIE"
               [] name = "XDEBUG_TRACE" -> "POST" [] OTHER -> "GET",
   name |-> name, value |-> value]
Elsewhere(place, name, value) == [place |-> place, name |-> name, value |-> value]
VariablesOfRequests ==
  {Variable(n, x) : n \in {"XDEBUG_TRIGGER", "XDEBUG_SESSION", "XDEBUG_TRACE", "XDEBUG_PROFILE",
                          "XDEBUG_IGNORE"}, x \in {"no", "s1", "s2"}}
  \cup {Elsewhere("ENV", "XDEBUG_TRIGGER", x) : x \in {"s1", "s2"}}
  \cup {Elsewhere("COOKIE", "XDEBUG_IGNORE", "no"), Elsewhere("COOKIE", "XDEBUG_SESSION_START", "k")}
  \cup {Variable(n, "k") : n \in {"XDEBUG_SESSION_START", "XDEBUG_CONFIG"}}
  \cup {Elsewhere("ENV", "XDEBUG_SESSION_START", "k")}
Requests ==
  {{p[1], p[2]} : p \in {q \in VariablesOfRequests \X VariablesOfRequests :
                          q[1].place = q[2].place /\ q[1].name = q[2].name => q[1] = q[2]}}
ModeSettings ==
  {<<Whole("debug")>>, <<Whole("debug"), Whole("profile")>>, <<Whole("trace"), Whole("gcstats")>>,
   <<Whole("develop"), Whole("profile")>>}
Situation(env, mode, with, variables, trigger_value, sent, key) ==
  [env_mode |-> env, mode |-> mode, start_with_request |-> with, globals |-> variables,
   trigger_value |-> trigger_value, headers_sent |-> sent, ide_key |-> key]
MCSituations ==
  {Situation(<<>>, m, w, g, t, h, k) :
     w \in {"yes", "no", "trigger", "default"}, m \in ModeSettings, g \in Requests,
     t \in {<<>>, <<"s1", "s3">>}, h \in BOOLEAN, k \in {"", "ide"}}
  \cup {Situation(e, m, "default", {}, <<>>, FALSE, "") :
          e \in {<<>>} \cup UNION {[1..n -> {Whole("off"), Whole("debug"), Whole("bug"), ModeItem("debug", 2, FALSE)}] : n \in 1..2},
          m \in ModeSettings \cup {<<Whole("debug"), Whole("bug")>>, <<ModeItem("trace", 3, FALSE)>>}}

\* Values: items with every short name, in arrays and objects within each other,
\* objects with inherited private and static properties, and more items than a page.
Public(name, value) == Item(FALSE, name, "public", "", value)
MCClassStatics ==
  [c \in {"C", "P", "ArrayObject", "MyList"} |->
     IF c # "C" THEN <<>>
     ELSE <<[Item(FALSE, <<"s">>, "private", "P", Scalar(1)) EXCEPT !.static = TRUE],
            [Item(FALSE, <<"t">>, "private", "C", Array(<<Public(<<"-">>, Scalar(2))>>))
               EXCEPT !.static = TRUE]>>]
NameCharacters == {"a", "-", "[", "]", "{", ">", ":", "*", Quote, Backslash, NUL, "1"}
NamesUpTo(n) == UNION {[1..k -> NameCharacters] : k \in 0..n}
Holding(name, value) == {Array(<<Public(name, value)>>), Object("P", <<Public(name, value)>>)}
Families ==
  {Object("C", <<Item(FALSE, <<"x">>, v, o, Scalar(1)), Item(FALSE, <<"x">>, "private", "P", w)>>) :
     v \in {"public", "protected", "private"}, o \in {"C"}, w \in {Scalar(2)}}
  \cup {Object(c, <<Item(FALSE, n, "debug", "ArrayObject", Array(<<Item(TRUE, <<"7">>, "public", "", Scalar(3))>>))>>) :
          c \in {"ArrayObject", "MyList"}, n \in {<<"storage">>, <<"flags">>}}
  \cup {Array(<<Item(TRUE, <<"-", "1">>, "public", "", Object("C", <<>>))>>)}
MCValues ==
  UNION {Holding(n, Scalar(1)) : n \in NamesUpTo(2)}
  \cup UNION {Holding(n, v) : n \in NamesUpTo(1), v \in UNION {Holding(m, Scalar(1)) : m \in NamesUpTo(1)}}
  \cup {Array([i \in 1..n |-> Item(TRUE, <<ToString(i)>>, "public", "", v)]) : n \in 0..4, v \in Families}
  \cup Families
MCScope(value, this, class, intermediate, special, returning) ==
  [intermediate |-> intermediate,
   locals |-> <<[name |-> <<"a">>, value |-> value], [name |-> <<"_">>, value |-> Scalar("u")]>>,
   this |-> this, class |-> class, special |-> special, return_shown |-> returning]
ValueOptions == {[max_children |-> c, max_depth |-> d, page |-> 0] : c \in 1..3, d \in 1..2}
VariableInputs ==
  {[scope |-> MCScope(v, Undefined, "", <<>>, <<>>, FALSE), options |-> [max_children |-> 2, max_depth |-> 2, page |-> 0]] :
     v \in MCValues}
  \cup {[scope |-> MCScope(v, t, c, m, s, FALSE), options |-> o] :
          v \in Families, t \in {Undefined} \cup Families, c \in {"", "C"},
          m \in {<<>>, <<[name |-> <<"_", "_", "I">>, value |-> Array(<<Public(<<"i">>, Scalar("i"))>>)]>>},
          s \in {<<>>, <<[name |-> <<"_", "_", "E">>, value |-> Scalar("e")]>>}, o \in ValueOptions}
  \cup {[scope |-> MCScope(v, Undefined, "C", <<>>, <<[name |-> <<"_", "_", "R">>, value |-> v]>>, TRUE), options |-> o] :
          v \in Families, o \in ValueOptions}

\* Names of files, for their URLs: names in / and in the current directory, drives
\* and streams; two files with quotes and percent signs in their names, and evals.
NameParts == {"r", "/", BackSlash, Colon, "%", Dquote, "2", "5"}
MCPathsNamed ==
  {p \in UNION {[1..n -> NameParts] : n \in 1..5} :
     p[1] \in {"/", BackSlash} \/ (\A i \in DOMAIN p : p[i] # "/") \/ Second(p) = Colon}
  \cup {<<"/", "file", Colon, "/", "/", "r">>, <<"/", "r", "file", Colon, "/", "/", "r">>}
MCSourceFiles ==
  (<<"/", "r", "%", "2", "2">> :> File(<<"1", "2", "3">>, FALSE))
  @@ (<<"/", Dquote>> :> File(<<"a", "b">>, TRUE))
MCEvalTexts == {<<"e1">>, <<"e1", "e2", "e3">>}

\* A file with a function or a method, which may have a closure, and an eval that
\* may declare a function.
Closures ==
  {<<>>} \cup {<<OpArray(3, 3, s, <<>>)>> : s \in SUBSET {3}}
         \cup {<<OpArray(3, 5, s, <<>>)>> : s \in SUBSET {3, 5}}
FileFunctions == {OpArray(2, 6, s, c) : s \in SUBSET {2, 6}, c \in Closures}
EvalFunctions == {OpArray(2, 4, {3}, <<>>)}
FileMains == {OpArray(1, 8, m, <<>>) : m \in {{7}, {1, 7}}}
OtherMain == OpArray(1, 4, {1, 4}, <<>>)   OtherFunction == OpArray(4, 4, {4}, <<>>)
OtherMethod == OpArray(2, 4, {2}, <<>>)    EvalMain == OpArray(1, 5, {1, 5}, <<>>)
MCUnitOpArrays ==
  FileFunctions \cup UNION {ToSet(c) : c \in Closures} \cup FileMains \cup EvalFunctions
    \cup {OtherMain, OtherFunction, OtherMethod, EvalMain}
MCUnitShapes ==
  {[f |-> Unit(m, IF method THEN <<>> ELSE <<g>>, IF method THEN <<g>> ELSE <<>>),
    h |-> Unit(OtherMain, <<OtherFunction>>, <<OtherMethod>>),
    e |-> Unit(EvalMain, x[1], x[2])] :
     m \in FileMains, g \in FileFunctions, method \in BOOLEAN,
     x \in {<<y, <<>>>> : y \in {<<>>} \cup {<<o>> : o \in EvalFunctions}} \cup {<<<<>>, <<OtherMethod>>>>}}

Subject == {"resolver", "urls", "output", "control", "source", "values", "inspection", "command", "reader", "list", "hash", "set", "str", "paths", "coverage", "lines", "start"}
Inputs == IF subject = "values" THEN VariableInputs ELSE {"none"}

Init ==
  /\ subject \in Subject /\ input \in Inputs
  /\ IF subject = "command" THEN CommandInit
     ELSE asked = [name |-> <<>>, options |-> <<>>] /\ parser = Called /\ ptr = 0
  /\ ReaderInit /\ ListInit /\ HashInit /\ SetInit
  /\ StrInit /\ (subject # "str" => a = 0)
  /\ IF subject = "coverage" THEN CoverageInit ELSE NoCoverage
  /\ LineInit
  /\ InspectionInit
  /\ IF subject = "source" THEN SourcesInit ELSE NoSources
  /\ IF subject = "urls" THEN named \in PathsNamed ELSE named = <<"/", "r">>
  /\ OutputInit /\ (subject # "output" => entry = NoFile)
  /\ ControlInit /\ (subject # "control" => ~step_debug)
  /\ IF subject = "paths" THEN PathMapsInit ELSE NoPathMaps /\ map_files = <<>>
  /\ IF subject = "start" THEN StartInit ELSE NoStart
  /\ IF subject = "resolver" THEN ResolverInit ELSE NoResolver

Next ==
  /\ UNCHANGED <<subject, input>>
  /\ \/ /\ subject = "command" /\ CommandNext
        /\ UNCHANGED <<readerVars, listVars, hashVars, setVars, strVars, coverageVars, lineVars, inspectionVars, sourceVars, outputVars, controlVars, startVars, pathMapVars, resolverVars>>
     \/ /\ subject = "reader" /\ ReaderNext
        /\ UNCHANGED <<commandVars, listVars, hashVars, setVars, strVars, coverageVars, lineVars, inspectionVars, sourceVars, outputVars, controlVars, startVars, pathMapVars, resolverVars>>
     \/ /\ subject = "list" /\ ListNext
        /\ UNCHANGED <<commandVars, readerVars, hashVars, setVars, strVars, coverageVars, lineVars, inspectionVars, sourceVars, outputVars, controlVars, startVars, pathMapVars, resolverVars>>
     \/ /\ subject = "hash" /\ HashNext
        /\ UNCHANGED <<commandVars, readerVars, listVars, setVars, strVars, coverageVars, lineVars, inspectionVars, sourceVars, outputVars, controlVars, startVars, pathMapVars, resolverVars>>
     \/ /\ subject = "set" /\ SetNext
        /\ UNCHANGED <<commandVars, readerVars, listVars, hashVars, strVars, coverageVars, lineVars, inspectionVars, sourceVars, outputVars, controlVars, startVars, pathMapVars, resolverVars>>
     \/ /\ subject = "str" /\ StrNext
        /\ UNCHANGED <<commandVars, readerVars, listVars, hashVars, setVars, coverageVars, lineVars, inspectionVars, sourceVars, outputVars, controlVars, startVars, pathMapVars, resolverVars>>
     \/ /\ subject = "coverage" /\ CoverageNext
        /\ UNCHANGED <<commandVars, readerVars, listVars, hashVars, setVars, strVars, lineVars, inspectionVars, sourceVars, outputVars, controlVars, startVars, pathMapVars, resolverVars>>
     \/ /\ subject = "lines" /\ LineNext
        /\ UNCHANGED <<commandVars, readerVars, listVars, hashVars, setVars, strVars, coverageVars, inspectionVars, sourceVars, outputVars, controlVars, startVars, pathMapVars, resolverVars>>
     \/ /\ subject = "inspection" /\ InspectionNext
        /\ UNCHANGED <<commandVars, readerVars, listVars, hashVars, setVars, strVars, coverageVars, lineVars, sourceVars, outputVars, controlVars, startVars, pathMapVars, resolverVars>>
     \/ /\ subject = "source" /\ SourcesNext
        /\ UNCHANGED <<commandVars, readerVars, listVars, hashVars, setVars, strVars, coverageVars, lineVars, inspectionVars, outputVars, controlVars, startVars, pathMapVars, resolverVars>>
     \/ /\ subject = "output" /\ OutputNext
        /\ UNCHANGED <<commandVars, readerVars, listVars, hashVars, setVars, strVars, coverageVars, lineVars, inspectionVars, sourceVars, controlVars, startVars, pathMapVars, resolverVars>>
     \/ /\ subject = "control" /\ ControlNext
        /\ UNCHANGED <<commandVars, readerVars, listVars, hashVars, setVars, strVars, coverageVars, lineVars, inspectionVars, sourceVars, outputVars, startVars, pathMapVars, resolverVars>>
     \/ /\ subject = "start" /\ StartNext
        /\ UNCHANGED <<commandVars, readerVars, listVars, hashVars, setVars, strVars, coverageVars, lineVars, inspectionVars, sourceVars, outputVars, controlVars, pathMapVars, resolverVars>>
     \/ /\ subject = "paths" /\ PathMapsNext
        /\ UNCHANGED <<commandVars, readerVars, listVars, hashVars, setVars, strVars, coverageVars, lineVars, inspectionVars, sourceVars, outputVars, controlVars, startVars, resolverVars>>
     \/ /\ subject = "resolver" /\ ResolverNext
        /\ UNCHANGED <<commandVars, readerVars, listVars, hashVars, setVars, strVars, coverageVars, lineVars, inspectionVars, sourceVars, outputVars, controlVars, startVars, pathMapVars>>

vars == <<commandVars, readerVars, listVars, hashVars, setVars, strVars, coverageVars, lineVars, inspectionVars, sourceVars, outputVars, controlVars, startVars, pathMapVars, resolverVars, subject, input>>
Spec == Init /\ [][Next]_vars

\* The values a frame's context shows, asked for by the names they were given, are
\* found, and page by page all that is below them; but for the intermediate value and
\* a variable that a special value hides (ValuesAreFound), and for the names that
\* are read otherwise than they were written (Misread).
NamesFindValues ==
  subject = "values" => ValuesAreFound(input.scope, input.options)
=============================================================================
