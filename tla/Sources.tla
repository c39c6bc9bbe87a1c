------------------------------ MODULE Sources ------------------------------
(***************************************************************************)
(* Where a stopped program is and the source a client is shown for it:     *)
(* names of files as URLs (lib/usefulstuff.c), the commands source and      *)
(* stack_get, and the ids of eval'd code (debugger/handler_dbgp.c).        *)
(*                                                                         *)
(* A path or URL is a sequence of characters, a text one of lines.  Files  *)
(* are shown under their own names: for path maps see PathMaps.            *)
(***************************************************************************)
EXTENDS Integers, Sequences, SequencesExt

CONSTANTS
  SourceFiles,   \* [path -> text of the file, as File makes it]
  EvalTexts,     \* texts the program gives to eval
  PathsNamed,    \* names of files the program has
  WorkingDir,    \* the current directory of the process
  MaxSites,      \* bound: frames on the stack
  MaxEvals       \* bound: evals of a behaviour

Dquote == "quote"   BackSlash == "backslash"   Colon == ":"   Slash == "/"
Percent == "%"   Two == "2"   Five == "5"

ASSUME SourcesAssumption ==
  /\ MaxSites \in Nat \ {0} /\ MaxEvals \in Nat
  /\ WorkingDir \in Seq(STRING)
  /\ \A p \in PathsNamed : p \in Seq(STRING) /\ p # <<>>
  /\ \A p \in DOMAIN SourceFiles :
       /\ p \in Seq(STRING) /\ p # <<>> /\ p[1] = Slash
       /\ SourceFiles[p].lines \in Seq(STRING) \ {<<>>} /\ SourceFiles[p].early \in BOOLEAN
  /\ EvalTexts \subseteq Seq(STRING) \ {<<>>}


\* A file: its lines, and whether its end is noticed together with the last of
\* them, as when no newline ends that line, or with the next read.
File(lines, early) == [lines |-> lines, early |-> early]
CannotOpen == [error |-> "can't open file"]
Text(lines) == [lines |-> lines]
Lower(x, y) == IF x < y THEN x ELSE y
Higher(x, y) == IF x > y THEN x ELSE y
-----------------------------------------------------------------------------
(* xdebug_raw_url_encode and xdebug_raw_url_decode, for characters that stand *)
(* for themselves, the quote and the percent sign.                            *)
Hexadecimal == {Two, Five}
NumberedBy(x, y) == CASE <<x, y>> = <<Two, Two>> -> Dquote [] <<x, y>> = <<Two, Five>> -> Percent
                      [] <<x, y>> = <<Five, Two>> -> "R"    [] <<x, y>> = <<Five, Five>> -> "U"
Encoded(c) == CASE c = Dquote  -> <<Percent, Two, Two>>
                [] c = Percent -> <<Percent, Two, Five>>
                [] OTHER       -> <<c>>
RawUrlEncode(path) == FlattenSeq([i \in DOMAIN path |-> Encoded(path[i])])

IsEncodedAt(s, i) ==
  /\ s[i] = Percent /\ i + 2 <= Len(s)
  /\ s[i + 1] \in Hexadecimal /\ s[i + 2] \in Hexadecimal

\* An escape gives the character it numbers.  Its digits give none: no escape
\* begins with one of them.
Decoded(s, i) ==
  IF IsEncodedAt(s, i) THEN <<NumberedBy(s[i + 1], s[i + 2])>>
  ELSE IF \E k \in {i - 2, i - 1} \cap DOMAIN s : IsEncodedAt(s, k) THEN <<>>
  ELSE <<s[i]>>
RawUrlDecode(s) == FlattenSeq([i \in DOMAIN s |-> Decoded(s, i)])

\* xdebug_path_to_url.
HasPrefix(path, s) == Len(s) <= Len(path) /\ SubSeq(path, 1, Len(s)) = s
Second(path) == IF Len(path) > 1 THEN path[2] ELSE "end"
IsWrapper(path) ==                  \* x://, with no slash before that
  \E i \in 1..(Len(path) - 2) :
    /\ SubSeq(path, i, i + 2) = <<Colon, Slash, Slash>>
    /\ \A j \in 1..i : path[j] # Slash
NoRoot(path) == path[1] \notin {Slash, BackSlash} /\ Second(path) # Colon
IsUnc(path) == ~NoRoot(path) /\ Second(path) \in {Slash, BackSlash}
InWorkingDir(path) == WorkingDir \o <<Slash>> \o path
FileScheme == <<"file", Colon>>
FileUrl == FileScheme \o <<Slash, Slash>>

PathToUrl(path) ==
  LET url == IF IsWrapper(path) THEN path
             ELSE IF NoRoot(path) THEN FileUrl \o InWorkingDir(path)
             ELSE IF IsUnc(path) THEN FileScheme \o RawUrlEncode(path)
             ELSE IF path[1] \in {Slash, BackSlash} THEN FileUrl \o RawUrlEncode(path)
             ELSE FileUrl \o <<Slash>> \o RawUrlEncode(path)
  IN  [i \in DOMAIN url |-> IF url[i] = BackSlash THEN Slash ELSE url[i]]

\* xdebug_path_from_url: what follows the first file://, without the slash before
\* a drive; a name without file:// is taken as it is.
AfterScheme(s) ==
  LET at == CHOOSE i \in 1..Len(s) :
              /\ HasPrefix(SubSeq(s, i, Len(s)), FileUrl)
              /\ \A j \in 1..(i - 1) : ~HasPrefix(SubSeq(s, j, Len(s)), FileUrl)
  IN  SubSeq(s, at + 4, Len(s))
HasScheme(s) ==
  \E i \in 1..Len(s) : HasPrefix(SubSeq(s, i, Len(s)), FileUrl)

PathFromUrl(url) ==
  LET s == RawUrlDecode(url)
      p == IF HasScheme(s) THEN AfterScheme(s) ELSE <<>>
  IN  IF ~HasScheme(s) THEN url
      ELSE IF Len(p) > 2 /\ p[1] = Slash /\ p[3] = Colon THEN Tail(p)
      ELSE p
-----------------------------------------------------------------------------
(* return_file_source: lines are read up to begin, then to the end that was    *)
(* asked for.                                                                  *)
Gets(file, s) ==
  IF s.at < Len(file.lines)
  THEN [at |-> s.at + 1, line |-> <<file.lines[s.at + 1]>>,
        eof |-> s.at + 1 = Len(file.lines) /\ file.early]
  ELSE [at |-> s.at, line |-> <<>>, eof |-> TRUE]

\* The loop that skips lines: i counts down, and stops at the end of the file.
Opened(i) == [stream |-> [at |-> 0, line |-> <<>>, eof |-> FALSE], left |-> i]
Skipping(file, r) ==
  IF r.stream.eof THEN r ELSE [stream |-> Gets(file, r.stream), left |-> r.left - 1]
SkippedTo(file, i) ==
  LET turns[n \in 0..i] ==
        IF n = 0 THEN Opened(i) ELSE LET turn == turns[n - 1] IN Skipping(file, turn)
  IN  turns[i]

\* The loop that reads: it is left behind the last line, or after count lines.
ToRead(skipped) == [text |-> <<>>, done |-> FALSE, stream |-> skipped.stream, i |-> skipped.left]
Reading(file, r, count) ==
  IF r.done THEN r
  ELSE [text   |-> r.text \o r.stream.line,
        done   |-> (r.stream.line # <<>> /\ r.stream.eof) \/ r.i + 1 >= count,
        stream |-> Gets(file, r.stream),
        i      |-> r.i + 1]
ReadOn(file, skipped, count) ==
  LET N == Higher(count - skipped.left, 1)
      turns[n \in 0..N] ==
        IF n = 0 THEN ToRead(skipped) ELSE LET turn == turns[n - 1] IN Reading(file, turn, count)
  IN  turns[N].text

FileSource(file, begin, end) ==
  LET b == IF begin < 0 THEN 0 ELSE begin
  IN  Text(ReadOn(file, SkippedTo(file, b), end + 1 - b))

(* return_eval_source: xdebug_explode splits off end + 1 lines and keeps the    *)
(* rest in one, xdebug_join adds the last one whatever begin is.  Lines of      *)
(* eval'd code count from 0.                                                    *)
Exploded(lines, limit) ==
  LET longest == IF limit = -1 THEN Len(lines) - 1 ELSE IF limit > 2 THEN limit - 1 ELSE 1
      splits == IF longest < Len(lines) - 1 THEN longest ELSE Len(lines) - 1
  IN  [i \in 1..splits |-> <<lines[i]>>] \o <<SubSeq(lines, splits + 1, Len(lines))>>

EvalSource(lines, begin, end) ==
  LET parts == Exploded(lines, end + 2)
      b == IF begin < 0 THEN 0 ELSE begin
      e == IF end > Len(parts) - 1 THEN Len(parts) - 1 ELSE end
  IN  Text(FlattenSeq(SubSeq(parts, b + 1, e)) \o parts[e + 1])
-----------------------------------------------------------------------------
(* A program that calls functions of files and evaluates texts.  Eval'd code   *)
(* runs under a name made of the place of the eval.  A place is what a stack    *)
(* entry keeps of its caller; contents and eval are what really runs there and  *)
(* the id it was given, 0 for none.                                             *)
VARIABLES
  sites,         \* XG_BASE(stack): the places the frames were called from
  running,       \* the place the program is at
  connected,     \* xdebug_is_debug_connection_active()
  named,         \* a name of a file, which a client is shown as a URL
  evals          \* context.eval_id_lookup by name and by id; a sequence of ids

sourceVars == <<sites, running, connected, evals, named>>

OfFile(path) == [kind |-> "file", path |-> path]
OfEval(place) == [kind |-> "eval", in |-> place.file, line |-> place.line]
PlaceAt(file, line, contents, eval) == [file |-> file, line |-> line, contents |-> contents, eval |-> eval]
InFile(path, line) == PlaceAt(OfFile(path), line, SourceFiles[path], 0)
Calling(path) == InFile(path, Len(SourceFiles[path].lines))   \* a file calls from its last line
NoEvals == [byFile |-> {}, byId |-> <<>>]

SourcesInit ==
  /\ \E path \in DOMAIN SourceFiles :
       sites = <<InFile(path, 0)>> /\ running = Calling(path)
  /\ connected \in BOOLEAN
  /\ evals = NoEvals /\ named \in PathsNamed

NoSources ==
  sites = <<>> /\ running = 0 /\ connected = FALSE /\ evals = NoEvals

EvalId(file) == (CHOOSE e \in evals.byFile : e.file = file).id
HasId(file) == \E e \in evals.byFile : e.file = file
\* Faulty: the name keeps the id of the first eval.
RegisterEvalOnce(file, lines) ==
  [byFile |-> evals.byFile \cup (IF HasId(file) THEN {} ELSE {[file |-> file, id |-> Len(evals.byId) + 1]}),
   byId |-> Append(evals.byId, [name |-> file, lines |-> lines])]

\* xdebug_dbgp_register_eval_id: an eval at the same place takes the name over.
RegisterEval(file, lines) ==
  [byFile |-> {e \in evals.byFile : e.file # file}
                \cup {[file |-> file, id |-> Len(evals.byId) + 1]},
   byId |-> Append(evals.byId, [name |-> file, lines |-> lines])]

CallsFunction == \E path \in DOMAIN SourceFiles :
  /\ Len(sites) < MaxSites
  /\ sites' = Append(sites, running)
  /\ running' = Calling(path)
  /\ UNCHANGED <<connected, evals, named>>

Evaluates == \E lines \in EvalTexts :
  /\ Len(sites) < MaxSites /\ Len(evals.byId) < MaxEvals
  /\ sites' = Append(sites, running)
  /\ running' = PlaceAt(OfEval(running), 1, Text(lines), IF connected THEN Len(evals.byId) + 1 ELSE 0)
  /\ evals' = IF connected THEN RegisterEval(OfEval(running), lines) ELSE evals
  /\ UNCHANGED <<connected, named>>

Returns ==
  /\ Len(sites) > 1
  /\ running' = Last(sites) /\ sites' = Front(sites)
  /\ UNCHANGED <<connected, evals, named>>

\* xdebug_dbgp_init and xdebug_dbgp_deinit: ids are those of a connection.
Forgotten(place) == PlaceAt(place.file, place.line, place.contents, 0)
Connects ==
  /\ ~connected
  /\ connected' = TRUE /\ evals' = NoEvals
  /\ sites' = [i \in DOMAIN sites |-> Forgotten(sites[i])]
  /\ running' = Forgotten(running)
  /\ UNCHANGED named

Disconnects ==
  /\ connected
  /\ connected' = FALSE
  /\ UNCHANGED <<sites, running, evals, named>>

SourcesNext == CallsFunction \/ Evaluates \/ Returns \/ Connects \/ Disconnects
SourcesSpec == SourcesInit /\ [][SourcesNext]_sourceVars
-----------------------------------------------------------------------------
(* stack_get and source, for a client that is connected.                      *)
Described(place) ==
  CASE place.file.kind = "file" ->
         [type |-> "file", filename |-> [url |-> PathToUrl(place.file.path)], lineno |-> place.line]
    [] place.file.kind = "eval" /\ HasId(place.file) ->
         [type |-> "eval", filename |-> [dbgp |-> EvalId(place.file)], lineno |-> place.line]
    [] OTHER ->
         [type |-> "file", filename |-> [of |-> place.file], lineno |-> place.line]

\* return_stackframe: a frame is where the frame above it was called from.
Place(nr) == IF nr = 0 THEN running ELSE sites[Len(sites) - nr + 1]
StackFrame(nr) == Described(Place(nr))

SourceOfFile(path, begin, end) ==
  IF path \in DOMAIN SourceFiles THEN FileSource(SourceFiles[path], begin, end) ELSE CannotOpen

Source(filename, begin, end) ==
  IF "dbgp" \in DOMAIN filename
  THEN IF filename.dbgp \in DOMAIN evals.byId
       THEN EvalSource(evals.byId[filename.dbgp].lines, begin, end) ELSE CannotOpen
  ELSE IF "url" \in DOMAIN filename THEN SourceOfFile(PathFromUrl(filename.url), begin, end)
  ELSE CannotOpen

\* Without -f, the file the function was called from.
SourceOfTail(begin, end) ==
  LET file == Last(sites).file
  IN  IF file.kind = "file" THEN SourceOfFile(PathFromUrl(file.path), begin, end) ELSE CannotOpen
-----------------------------------------------------------------------------
(* The URL of a path leads back to it, but for backslashes, //server paths,   *)
(* directories like /r: that pass for a drive, percent signs of relative      *)
(* names, and streams whose names hold file:// themselves.                    *)
FullPath(path) == IF NoRoot(path) /\ ~IsWrapper(path) THEN InWorkingDir(path) ELSE path
TakenForUrl(path) == HasScheme(RawUrlDecode(path))
AlteredByUrl(path) ==
  LET full == FullPath(path) IN
  \/ \E i \in DOMAIN full : full[i] = BackSlash
  \/ IsUnc(path)
  \/ full[1] = Slash /\ Len(full) > 2 /\ full[3] = Colon
  \/ NoRoot(path) /\ \E i \in DOMAIN full : IsEncodedAt(full, i)
  \/ IsWrapper(path) /\ TakenForUrl(path)

UrlLeadsBack(path) == AlteredByUrl(path) \/ PathFromUrl(PathToUrl(path)) = FullPath(path)

(* The lines a client asks for.  begin after the end of a file gives nothing    *)
(* or its last line; end before begin still gives line begin.                   *)
SourceRanges == (-1..4) \X (0..5)
LinesOf(lines, begin, end, first) ==
  SubSeq(lines, Higher(begin, first) + 1 - first, Lower(Higher(end, begin), Len(lines) + first - 1) + 1 - first)

GivesLines(answer, place, begin, end) ==
  LET lines == place.contents.lines
  IN  IF place.file.kind = "eval"
      THEN answer = Text(LinesOf(lines, Lower(begin, Lower(end, Len(lines) - 1)), end, 0))
      ELSE IF begin <= Len(lines) THEN answer = Text(LinesOf(lines, begin, end, 1))
      ELSE answer \in {Text(<<>>), Text(<<Last(lines)>>)}

\* What the client can name: a file whose URL leads to it, and eval'd code that
\* was entered while connected, with no later eval at its place.
StillNamed(place) ==
  \/ place.file.kind = "file" /\ ~AlteredByUrl(place.file.path)
  \/ /\ place.eval # 0
     /\ \A id \in DOMAIN evals.byId : id > place.eval => evals.byId[id].name # place.file

\* A client that asks for the source of what stack_get names as a frame gets
\* the lines of what that frame runs, each frame at the line it is at.
FramesShowTheirSource ==
  connected =>
    \A nr \in 0..(Len(sites) - 1) :
      LET place == Place(nr)  shown == StackFrame(nr)
      IN  /\ shown.lineno = place.line
          /\ StillNamed(place) =>
               \A r \in SourceRanges : GivesLines(Source(shown.filename, r[1], r[2]), place, r[1], r[2])
          /\ ~StillNamed(place) /\ shown.type = "eval" => shown.filename.dbgp # place.eval
          /\ nr = 1 \/ Len(sites) = 1 =>    \* source without -f: the file of the caller
               (Last(sites).file.kind = "file" /\ ~TakenForUrl(Last(sites).file.path) =>
                  \A r \in SourceRanges : GivesLines(SourceOfTail(r[1], r[2]), Last(sites), r[1], r[2]))

\* The sources of what runs, and the URLs of the names of files.
SourceIsServed == UrlLeadsBack(named) /\ FramesShowTheirSource
=============================================================================
