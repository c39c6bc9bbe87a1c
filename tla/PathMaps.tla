------------------------------ MODULE PathMaps ------------------------------
(***************************************************************************)
(* The path maps (lib/maps): files in .xdebug directories that say which   *)
(* lines of the files PHP runs (remote) come from which lines of the files *)
(* a user edits (local).  The parser of a file, the two tables its rules   *)
(* are copied into, and the look-ups in both directions.                   *)
(*                                                                         *)
(* A path is a sequence of names and separators.  A line of a map file is  *)
(* a record: what is written, cut at the '=', the ':' and the '-', which   *)
(* the parser does by looking for these characters.                        *)
(***************************************************************************)
EXTENDS Integers, Sequences, SequencesExt, Functions

CONSTANTS
  Cwd,         \* the directory a map file is for
  EOFLine,     \* XDEBUG_PATH_MAP_EOF, 1 << 30
  MapFiles,    \* the map files of requests, in the order they are read
  PathsAsked,  \* what is looked up in the maps
  LinesAsked

Sep == "/"   Dot == "."
NotANumber == -1   EOFText == -2      \* in the place of a line number
Path == Seq(STRING)
Side == [path : Path, range : {r \in Seq(Int) : Len(r) <= 2}]

\* A rule, a prefix, nothing (an empty line or a comment), or what is no rule.
MapLine ==
  [kind : {"rule"}, remote : Side, local : Side]
    \cup [kind : {"remote_prefix", "local_prefix"}, path : Path]
    \cup [kind : {"nothing", "garbage"}]
ASSUME MapsAssumption ==
  /\ Cwd \in Path /\ EOFLine \in Nat
  /\ \A files \in MapFiles : files \in Seq(Seq(MapLine))
  /\ PathsAsked \subseteq Path /\ LinesAsked \subseteq Nat

Skipped == [path |-> <<"SKIP">>, range |-> <<>>]

StartsWith(path, s) == path # <<>> /\ path[1] = s
EndsWith(path, s)   == path # <<>> /\ path[Len(path)] = s
IsRelative(path)    == StartsWith(path, Dot) /\ Len(path) > 1 /\ path[2] = Sep

NoMaps == [remote_to_local |-> <<>>, local_to_remote |-> <<>>]
-----------------------------------------------------------------------------
(* A line of the file. *)

\* is_valid_prefix
ValidPrefix(prefix) == IsRelative(prefix) \/ StartsWith(prefix, Sep)

\* has_no_separator, has_double_separator
JoinsWell(prefix, path) == prefix = <<>> \/ EndsWith(prefix, Sep) # StartsWith(path, Sep)

\* extract_line_range: <<>> when it is wrong, else where the range begins and
\* ends, both 0 without one.  The begin of a range is not compared with 1.
LineRange(e) ==
  LET r == e.range
      to == IF Len(r) = 2 /\ r[2] = EOFText THEN EOFLine ELSE r[Len(r)]
  IN IF r = <<>> THEN <<0, 0>>
     ELSE IF e.path = <<>> \/ EndsWith(e.path, Sep) \/ r[1] < 0 THEN <<>>
     ELSE IF Len(r) = 1 THEN IF r[1] < 1 THEN <<>> ELSE <<r[1], r[1]>>
     ELSE IF to = NotANumber \/ to < r[1] THEN <<>> ELSE <<r[1], to>>

Assembled(prefix, path) ==
  (IF IsRelative(prefix) THEN Cwd \o Tail(prefix) ELSE prefix)
  \o (IF IsRelative(path) THEN Cwd \o Tail(path) ELSE path)

Element(path, type, begin, end) ==
  [path |-> path, type |-> type, begin |-> begin, end |-> end]
Unknown == Element(<<>>, "unknown", 0, 0)

\* prepare_remote_element and, but for SKIP, prepare_local_element
Prepare(prefix, e) ==
  LET range == LineRange(e) IN
  IF (e.path = <<>> /\ e.range = <<>>) \/ ~JoinsWell(prefix, e.path) \/ range = <<>>
  THEN Unknown
  ELSE Element(Assembled(prefix, e.path),
               IF EndsWith(e.path, Sep) THEN "directory"
               ELSE IF range[1] > 0 THEN "lines" ELSE "file",
               range[1], range[2])

PrepareLocal(prefix, e) ==
  IF e = Skipped THEN Element(<<>>, "skip", -1, -1) ELSE Prepare(prefix, e)
-----------------------------------------------------------------------------
(* state_add_rule.  s is the state of the parser; s.file_rules maps a remote  *)
(* path to its mapping.                                                       *)
NewRange(remote, local) ==
  [remote_begin |-> remote.begin, remote_end |-> remote.end, skip |-> local.type = "skip",
   local_path |-> local.path, local_begin |-> local.begin, local_end |-> local.end]

NewMapping(remote, local) ==
  [type |-> remote.type, skip |-> local.type = "skip" /\ remote.type # "lines",
   remote_path |-> remote.path, local_path |-> local.path,
   line_ranges |-> IF remote.type = "lines" THEN <<NewRange(remote, local)>> ELSE <<>>]

\* Both sides end at EOF: they are made equally long.
Adjusted(remote, local) ==
  IF remote.type = "lines" /\ remote.begin # remote.end /\ remote.end = EOFLine
     /\ local.begin # local.end /\ local.end = EOFLine
  THEN [local EXCEPT !.end = EOFLine + local.begin - remote.begin]
  ELSE local

Fits(remote, local) ==
  \/ local.type = "skip"
  \/ /\ remote.type = local.type
     /\ (remote.type = "lines" /\ local.begin # local.end)
          => remote.end - remote.begin = local.end - local.begin

\* The rule extends the ranges its remote path has.  A SKIP is not compared
\* with the last one, nor is a local path with the last one when that is a SKIP.
Extends(mapping, remote, local) ==
  LET last == mapping.line_ranges[Len(mapping.line_ranges)] IN
  /\ mapping.type = "lines"
  /\ local.type = "skip" \/
       /\ last.skip \/ last.local_path = local.path
       /\ remote.begin > last.remote_end
       /\ local.begin > last.local_end

Failing(s) == [s EXCEPT !.failed = TRUE]

Put(map, path, mapping) ==
  [p \in DOMAIN map \cup {path} |-> IF p = path THEN mapping ELSE map[p]]
WithRule(s, path, mapping) == [s EXCEPT !.file_rules = Put(@, path, mapping)]

\* The two sides of a rule, of type "unknown" when they are wrong.
Remote(s, line) == Prepare(s.remote_prefix, line.remote)
Local(s, line)  == Adjusted(Remote(s, line), PrepareLocal(s.local_prefix, line.local))

\* Faulty: a range may begin on the line the last one ends on.
AddRuleTouching(s, line) ==
  LET remote == Remote(s, line)   local == Local(s, line)
      path   == remote.path       old   == s.file_rules[path]
  IN IF remote.type = "unknown" \/ local.type = "unknown" \/ ~Fits(remote, local)
     THEN Failing(s)
     ELSE IF path \notin DOMAIN s.file_rules
     THEN WithRule(s, path, NewMapping(remote, local))
     ELSE IF Extends(old, [remote EXCEPT !.begin = @ + 1], local)
     THEN WithRule(s, path, [old EXCEPT !.line_ranges = Append(@, NewRange(remote, local))])
     ELSE Failing(s)

AddRule(s, line) ==
  LET remote == Remote(s, line)   local == Local(s, line)
      path   == remote.path       old   == s.file_rules[path]
  IN IF remote.type = "unknown" \/ local.type = "unknown" \/ ~Fits(remote, local)
     THEN Failing(s)
     ELSE IF path \notin DOMAIN s.file_rules
     THEN WithRule(s, path, NewMapping(remote, local))
     ELSE IF Extends(old, remote, local)
     THEN WithRule(s, path, [old EXCEPT !.line_ranges = Append(@, NewRange(remote, local))])
     ELSE Failing(s)

\* A turn of state_file_read_lines; nothing is read after an error.
ReadMapLine(s, line) ==
  CASE s.failed                       -> s
    [] line.kind = "nothing"          -> s          \* empty, or a comment
    [] line.kind = "garbage"          -> Failing(s) \* no '=', nothing before it, no newline
    [] line.kind = "remote_prefix"    -> IF ValidPrefix(line.path)
                                         THEN [s EXCEPT !.remote_prefix = line.path] ELSE Failing(s)
    [] line.kind = "local_prefix"     -> IF ValidPrefix(line.path)
                                         THEN [s EXCEPT !.local_prefix = line.path] ELSE Failing(s)
    [] line.kind = "rule"             -> AddRule(s, line)

ParserState == [failed |-> FALSE, remote_prefix |-> <<>>, local_prefix |-> <<>>, file_rules |-> <<>>]
-----------------------------------------------------------------------------
(* The rules of a file are copied after it was read, first to one table, then *)
(* in reverse to the other.  The hash table gives them in an order that their *)
(* paths decide: here in any.  The first copy that fails ends the copying.    *)
VARIABLES
  map_files,    \* the files that are not read yet
  map_step,     \* "idle", "reading", "copying", "reversing"
  map_parser,   \* the state of the parser for this file
  unread,       \* its lines that are not read yet
  maps,         \* the tables
  copied,       \* the rules that were copied, in their order
  reversed,     \* how many of them were copied in reverse
  maps_before,  \* history: the tables before this file
  rules_read    \* history: the ranges of its rules

pathMapVars == <<map_files, map_step, map_parser, unread, maps, copied, reversed, maps_before, rules_read>>

NoPathMaps ==
  /\ map_step = "idle" /\ map_parser = ParserState /\ unread = <<>> /\ maps = NoMaps
  /\ copied = <<>> /\ reversed = 0 /\ maps_before = NoMaps /\ rules_read = {}
PathMapsInit == map_files \in MapFiles /\ NoPathMaps

\* scan_directory, xdebug_path_maps_parse_file
ParseFile ==
  /\ map_step = "idle" /\ map_files # <<>>
  /\ map_files' = Tail(map_files) /\ unread' = Head(map_files)
  /\ map_step' = "reading" /\ map_parser' = ParserState
  /\ copied' = <<>> /\ reversed' = 0 /\ maps_before' = maps /\ rules_read' = {}
  /\ UNCHANGED maps

\* state_file_read_lines
ReadLine ==
  LET line == Head(unread)   remote == Remote(map_parser, line)
      range == NewRange(remote, Local(map_parser, line))
  IN /\ map_step = "reading" /\ unread # <<>>
     /\ unread' = Tail(unread)
     /\ map_parser' = ReadMapLine(map_parser, line)
     /\ map_step' = IF map_parser'.failed THEN "idle" ELSE "reading"
     /\ rules_read' =
          IF /\ line.kind = "rule" /\ ~map_parser'.failed
             /\ map_parser'.file_rules[remote.path].type = "lines"
          THEN rules_read \cup {[path |-> remote.path, range |-> range]} ELSE rules_read
     /\ UNCHANGED <<map_files, maps, copied, reversed, maps_before>>

\* A file without rules is an error.
FileEnds ==
  /\ map_step = "reading" /\ unread = <<>>
  /\ IF DOMAIN map_parser.file_rules = {}
     THEN map_parser' = Failing(map_parser) /\ map_step' = "idle"
     ELSE map_step' = "copying" /\ UNCHANGED map_parser
  /\ UNCHANGED <<map_files, unread, maps, copied, reversed, maps_before, rules_read>>

PathsCopied(rules) == {rules[i].remote_path : i \in 1..Len(rules)}

\* copy_rule
CopyRule ==
  /\ map_step = "copying"
  /\ \E path \in DOMAIN map_parser.file_rules \ PathsCopied(copied) :
       LET mapping == map_parser.file_rules[path] IN
       IF mapping.remote_path \in DOMAIN maps.remote_to_local
       THEN /\ map_parser' = Failing(map_parser) /\ map_step' = "idle"
            /\ UNCHANGED <<maps, copied>>
       ELSE /\ maps' = [maps EXCEPT !.remote_to_local = Put(@, mapping.remote_path, mapping)]
            /\ copied' = Append(copied, mapping)
            /\ map_step' = IF DOMAIN map_parser.file_rules \subseteq PathsCopied(copied')
                           THEN "reversing" ELSE "copying"
            /\ UNCHANGED map_parser
  /\ UNCHANGED <<map_files, unread, reversed, maps_before, rules_read>>

\* The ranges that do not skip.
Kept(ranges) ==
  LET kept[i \in 0..Len(ranges)] ==
        IF i = 0 THEN <<>>
        ELSE IF ranges[i].skip THEN kept[i - 1] ELSE Append(kept[i - 1], ranges[i])
  IN kept[Len(ranges)]

\* A mapping as it is put into the other table, and the path that it has there.
Reversed(mapping) ==
  LET kept == Kept(mapping.line_ranges) IN
  IF mapping.type # "lines" THEN mapping
  ELSE [mapping EXCEPT
          !.local_path = IF kept = <<>> THEN <<>> ELSE kept[Len(kept)].local_path,
          !.line_ranges = [i \in 1..Len(kept) |-> [kept[i] EXCEPT !.local_path = mapping.remote_path]]]
IsReversed(mapping) == ~mapping.skip /\ (mapping.type = "lines" => Kept(mapping.line_ranges) # <<>>)
LocalPath(mapping) == Reversed(mapping).local_path

\* copy_rule_reverse: the ranges of a file replace those another remote file
\* gave the same local file.
CopyRuleReverse ==
  LET mapping == copied[reversed + 1]   table == maps.local_to_remote IN
  /\ map_step = "reversing"
  /\ IF IsReversed(mapping) /\ mapping.type # "lines" /\ LocalPath(mapping) \in DOMAIN table
     THEN /\ map_parser' = Failing(map_parser) /\ map_step' = "idle"
          /\ UNCHANGED <<maps, reversed>>
     ELSE /\ maps' = IF IsReversed(mapping)
                     THEN [maps EXCEPT !.local_to_remote = Put(@, LocalPath(mapping), Reversed(mapping))]
                     ELSE maps
          /\ reversed' = reversed + 1
          /\ map_step' = IF reversed' = Len(copied) THEN "idle" ELSE "reversing"
          /\ UNCHANGED map_parser
  /\ UNCHANGED <<map_files, unread, copied, maps_before, rules_read>>

PathMapsNext == ParseFile \/ ReadLine \/ FileEnds \/ CopyRule \/ CopyRuleReverse
PathMapsSpec == PathMapsInit /\ [][PathMapsNext]_pathMapVars
-----------------------------------------------------------------------------
(* The look-ups. *)

\* do_local_binary_search and do_remote_binary_search: the place of a span that
\* has the line, 0 if the search meets none.  Each turn of the loop leaves less
\* between low and high.
Middle(b) == b.low + (b.high - b.low) \div 2
Halve(spans, line, b) ==
  IF b.low > b.high \/ line \in spans[Middle(b)][1]..spans[Middle(b)][2] THEN b
  ELSE IF line < spans[Middle(b)][1] THEN [b EXCEPT !.high = Middle(b) - 1]
  ELSE [b EXCEPT !.low = Middle(b) + 1]
Search(spans, line) ==
  LET turns[n \in 0..Len(spans)] ==
        IF n = 0 THEN [low |-> 1, high |-> Len(spans)] ELSE Halve(spans, line, turns[n - 1])
      last == turns[Len(spans)]
  IN IF last.low > last.high THEN 0 ELSE Middle(last)

Answer(type, path, line) == [type |-> type, path |-> path, line |-> line]
UnknownPath == Answer("unknown", <<>>, -1)
SkippedPath == Answer("skip", <<>>, -1)

\* The line that belongs to one of a span: n:1, 1:1 or n:m
Counterpart(line, from, to) == IF to[1] = to[2] THEN to[1] ELSE line - from[1] + to[1]

RemoteSpans(ranges) == [k \in 1..Len(ranges) |-> <<ranges[k].remote_begin, ranges[k].remote_end>>]
LocalSpans(ranges)  == [k \in 1..Len(ranges) |-> <<ranges[k].local_begin, ranges[k].local_end>>]

\* from and to are the spans of the ranges on the side of line, and on the other
InRanges(ranges, line, from, to) ==
  LET i == Search(from, line) IN
  IF i = 0 THEN UnknownPath
  ELSE IF ranges[i].skip THEN SkippedPath
  ELSE Answer("lines", ranges[i].local_path, Counterpart(line, from[i], to[i]))

\* The ends of the directories a path is in, the innermost first; a map of
\* another type under such a name is passed over.
Directories(map, path) ==
  {n \in 1..Len(path) :
     /\ path[n] = Sep /\ SubSeq(path, 1, n) \in DOMAIN map
     /\ LET m == map[SubSeq(path, 1, n)] IN m.skip \/ m.type = "directory"}
Innermost(set) == CHOOSE n \in set : \A m \in set : m <= n

\* other is the field of a mapping that has the path on the other side
InDirectory(map, path, line, other) ==
  LET found == Directories(map, path)
      n     == Innermost(found)
      m     == map[SubSeq(path, 1, n)]
  IN IF found = {} THEN UnknownPath
     ELSE IF m.skip THEN SkippedPath
     ELSE Answer("directory", m[other] \o SubSeq(path, n + 1, Len(path)), line)

\* remote_to_local
RemoteToLocal(tables, path, line) ==
  LET map == tables.remote_to_local   m == map[path] IN
  IF path \notin DOMAIN map THEN InDirectory(map, path, line, "local_path")
  ELSE IF m.skip THEN SkippedPath
  ELSE IF m.type = "lines" THEN InRanges(m.line_ranges, line, RemoteSpans(m.line_ranges), LocalSpans(m.line_ranges))
  ELSE Answer(m.type, m.local_path, line)

\* local_to_remote
LocalToRemote(tables, path, line) ==
  LET map == tables.local_to_remote   m == map[path] IN
  IF path \notin DOMAIN map THEN InDirectory(map, path, line, "remote_path")
  ELSE IF m.type = "lines" THEN InRanges(m.line_ranges, line, LocalSpans(m.line_ranges), RemoteSpans(m.line_ranges))
  ELSE Answer(m.type, m.remote_path, line)
-----------------------------------------------------------------------------
(* What a user of a map file expects. *)

FileAccepted == map_step = "idle" /\ ~map_parser.failed
FileRules == {map_parser.file_rules[p] : p \in DOMAIN map_parser.file_rules}

\* A rule that skips, and the one after it, are in their place: the parser does
\* not see to these two.
SkipsInPlace(ranges) ==
  \A i \in 2..Len(ranges) :
    /\ ranges[i].skip => ranges[i].remote_begin > ranges[i - 1].remote_end
    /\ (ranges[i - 1].skip /\ ~ranges[i].skip) =>
         \A j \in 1..(i - 1) : ranges[j].skip \/
            (ranges[j].local_path = ranges[i].local_path /\ ranges[j].local_end < ranges[i].local_begin)

\* The remote files with ranges whose rules are in their place.
HasLines(path) ==
  LET m == maps.remote_to_local[path] IN
  path \in DOMAIN maps.remote_to_local /\ m.type = "lines" /\ SkipsInPlace(m.line_ranges)

\* In an accepted file, a line has the counterpart that the rule it is in gives
\* it, and none when it is in no rule: the halving search loses no range, as long
\* as the SKIP rules are in their place too.
LinesMapAsWritten ==
  FileAccepted =>
    \A path \in {x.path : x \in rules_read} :
      /\ path \in DOMAIN maps.remote_to_local
      /\ HasLines(path) => \A l \in LinesAsked :
           LET hit == {x \in rules_read : x.path = path /\ l \in x.range.remote_begin..x.range.remote_end}
               r   == (CHOOSE x \in hit : TRUE).range
           IN RemoteToLocal(maps, path, l) =
                IF hit = {} THEN UnknownPath
                ELSE IF r.skip THEN SkippedPath
                ELSE Answer("lines", r.local_path,
                            IF r.local_begin = r.local_end THEN r.local_begin
                            ELSE r.local_begin + (l - r.remote_begin))

\* A breakpoint that is set on the local line of a remote line comes back as it,
\* as long as the local file is that of this remote file.
LinesMapBack ==
  \A path \in PathsAsked : HasLines(path) => \A l \in LinesAsked :
    LET there == RemoteToLocal(maps, path, l)
        other == maps.local_to_remote[there.path]
        back  == LocalToRemote(maps, there.path, there.line)
    IN (/\ there.type = "lines" /\ there.path \in DOMAIN maps.local_to_remote
        /\ other.type = "lines" /\ other.remote_path = path) =>
         /\ back.type = "lines" /\ back.path = path
         /\ RemoteToLocal(maps, path, back.line) = there

\* An accepted file leaves in reverse each of its rules that do not skip, or
\* another of its rules that is for the same local file.
RulesAreReversed ==
  FileAccepted =>
    \A r \in FileRules : IsReversed(r) =>
      /\ LocalPath(r) \in DOMAIN maps.local_to_remote
      /\ \E q \in FileRules : /\ LocalPath(q) = LocalPath(r)
                              /\ maps.local_to_remote[LocalPath(r)] = Reversed(q)

\* Of all directories that are mapped or skipped the longest one decides.
LongestDirectoryDecides ==
  \A path \in PathsAsked \ DOMAIN maps.remote_to_local :
    LET map    == maps.remote_to_local
        dirs   == {p \in DOMAIN map : map[p].type = "directory" /\ IsPrefix(p, path) /\ p # path}
        answer == RemoteToLocal(maps, path, 1)
    IN IF dirs = {} THEN answer = UnknownPath
       ELSE LET p == CHOOSE p \in dirs : \A q \in dirs : Len(q) <= Len(p) IN
            answer = IF map[p].skip THEN SkippedPath
                     ELSE Answer("directory",
                                 map[p].local_path \o SubSeq(path, Len(p) + 1, Len(path)), 1)

\* "Returns false on error, with an error set in 'error_message' and no
\* modifications to 'maps'" (the comment on xdebug_path_maps_parse_file): but what
\* was copied before two rules turn out to be for the same path stays.  Whatever
\* the error, the files mapped before keep their rules (parser.c:800, 833, 885).
RulesClash ==
  \E r \in FileRules :
    \/ r.remote_path \in DOMAIN maps_before.remote_to_local
    \/ LocalPath(r) \in DOMAIN maps_before.local_to_remote
    \/ \E q \in FileRules \ {r} : LocalPath(q) = LocalPath(r)
FailedFileChangesLittle ==
  /\ (map_step = "idle" /\ map_parser.failed) => maps = maps_before \/ RulesClash
  /\ \A p \in DOMAIN maps_before.remote_to_local :
       /\ p \in DOMAIN maps.remote_to_local
       /\ maps.remote_to_local[p] = maps_before.remote_to_local[p]

\* The tables of path maps, whatever the files say.
PathsTranslate ==
  /\ LinesMapAsWritten /\ LinesMapBack /\ RulesAreReversed
  /\ LongestDirectoryDecides /\ FailedFileChangesLittle
=============================================================================
