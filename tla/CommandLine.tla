---------------------------- MODULE CommandLine ----------------------------
(***************************************************************************)
(* From a line that LineReader has read to the command that is executed:   *)
(* the parser (lib/cmd_parser.c) with its escapes (lib/stripcslashes.c).   *)
(*                                                                         *)
(* A line is a sequence of characters.  Only those are told apart that the *)
(* parser tells apart; hexadecimal escapes are left out, as neither clients *)
(* nor Xdebug write them.                                                  *)
(***************************************************************************)
EXTENDS LineReader

CONSTANTS
  Letters,      \* option letters
  Escapes,      \* letters that mean another character after a backslash, \n and the like
  CommandsSent      \* what clients ask for: records of a name and the options they give

Space == " "   Dash == "-"   Quote == "quote"   Backslash == "backslash"

OptionNames == Letters \cup {Dash}
Octal == {"0", "1", "2", "3", "4", "5", "6", "7"}

\* Values hold no NUL, which ends a line.  The option "--", whose value goes to
\* the end of the line, is the last, and its value must not be empty: the parser
\* takes it for unset then.
ASSUME CommandAssumption ==
  /\ Letters \subseteq STRING
  /\ Escapes \cap ({Quote, Backslash} \cup Octal) = {}
  /\ \A c \in CommandsSent :
       /\ c.name \in Seq(STRING \ {Space, NUL})
       /\ c.options \in Seq([opt : OptionNames, value : Seq(STRING \ {NUL})])
       /\ \A i \in 1..Len(c.options) :
            c.options[i].opt = Dash => i = Len(c.options) /\ c.options[i].value # <<>>

OK == "ok"   Bad == "parse error"   Duplicate == "duplicate option"

NoOptions == [o \in OptionNames |-> <<>>]   \* <<>> unset, <<value>> set
At(line, i) == IF i <= Len(line) THEN line[i] ELSE NUL
-----------------------------------------------------------------------------
(* xdebug_stripcslashes: a backslash takes the next character with it, or up  *)
(* to three octal digits that are the number of a character; one at the end   *)
(* stays.                                                                     *)
Escaped(c) == IF c \in Escapes THEN "escape " \o c ELSE c

OctalDigits(s) == CHOOSE n \in 0..3 :      \* how many s begins with
                    /\ n <= Len(s) /\ \A i \in 1..n : s[i] \in Octal
                    /\ n < 3 /\ n < Len(s) => s[n + 1] \notin Octal
Numbered(digits) == IF ToSet(digits) = {"0"} THEN NUL ELSE FoldLeft(LAMBDA t, d : t \o d, "number ", digits)

\* One turn of its loop: source is the next character to read, target what is written.
Turn(s, loop) ==
  IF loop.source > Len(s) THEN loop
  ELSE IF s[loop.source] = Backslash /\ loop.source < Len(s)
  THEN LET n == OctalDigits(SubSeq(s, loop.source + 1, Len(s))) IN
       IF n > 0
       THEN [source |-> loop.source + n + 1,
             target |-> Append(loop.target, Numbered(SubSeq(s, loop.source + 1, loop.source + n)))]
       ELSE [source |-> loop.source + 2, target |-> Append(loop.target, Escaped(s[loop.source + 1]))]
  ELSE [source |-> loop.source + 1, target |-> Append(loop.target, s[loop.source])]

Stripped(s) ==
  LET loop[n \in 0..Len(s)] ==
        IF n = 0 THEN [source |-> 1, target |-> <<>>] ELSE Turn(s, loop[n - 1])
  IN  loop[Len(s)].target
-----------------------------------------------------------------------------
(* What a client does to write a command with its options.                    *)
Protect(c) == IF c \in {Quote, Backslash} THEN <<Backslash, c>> ELSE <<c>>
Protected(s) == FlattenSeq([i \in 1..Len(s) |-> Protect(s[i])])

IsPlain(o) == o.opt = Dash \/ (o.value # <<>> /\ o.value[1] # Quote /\ Space \notin ToSet(o.value))
Written(o) ==
  <<Space, Dash, o.opt, Space>> \o
  IF IsPlain(o) THEN o.value ELSE <<Quote>> \o Protected(o.value) \o <<Quote>>

Format(c) == c.name \o FlattenSeq([i \in 1..Len(c.options) |-> Written(c.options[i])])
-----------------------------------------------------------------------------
(* xdebug_cmd_parse, one step for each turn of its loop.                      *)
VARIABLES
  asked,     \* what the client asks for
  parser,    \* state, option and value_begin of the loop, and what it will return
  ptr        \* the character it looks at next

commandVars == <<asked, parser, ptr>>

Machine == {"normal", "option", "separator", "first", "value", "quoted", "skip", "escaped"}

Called == [state |-> "called", opt |-> Space, begin |-> 0, cmd |-> <<>>, options |-> NoOptions, error |-> OK]
CommandInit == asked \in CommandsSent /\ parser = Called /\ ptr = 0

FirstSpace(line) == CHOOSE i \in 1..Len(line) :
                      line[i] = Space /\ \A j \in 1..(i - 1) : line[j] # Space

\* What is before the first space is the name of the command.
FindCommand ==
  LET line == Format(asked) IN
  /\ parser.state = "called"
  /\ IF Space \notin ToSet(line)
     THEN /\ parser' = [parser EXCEPT !.state = "done", !.cmd = line,
                                     !.error = IF line = <<>> THEN Bad ELSE OK]
          /\ UNCHANGED ptr
     ELSE /\ parser' = [parser EXCEPT !.state = "normal", !.cmd = Slice(line, 1, FirstSpace(line))]
          /\ ptr' = FirstSpace(line) + 1
  /\ UNCHANGED asked

Became(p, state) == [p EXCEPT !.state = state]
Failed(p, error) == [p EXCEPT !.error = error]

Store(p, value, state) ==
  IF p.options[p.opt] = <<>>
  THEN [p EXCEPT !.options[p.opt] = <<value>>, !.state = state]
  ELSE Failed(p, Duplicate)

\* Faulty: a quote ends the value although a backslash is before it.
ReadCharUnescaped(p, c, i, line) ==
  CASE p.state = "normal"    -> IF c = Dash THEN Became(p, "option") ELSE Failed(p, Bad)
    [] p.state = "option"    -> [p EXCEPT !.state = "separator", !.opt = c]
    [] p.state = "separator" -> [p EXCEPT !.state = "first", !.begin = i + 1]
    [] p.state = "first"     -> IF c = Quote /\ p.opt # Dash
                                THEN [p EXCEPT !.state = "quoted", !.begin = i + 1]
                                ELSE Became(p, "value")
    [] p.state = "value"     -> IF (c = Space /\ p.opt # Dash) \/ c = NUL
                                THEN Store(p, Slice(line, p.begin, i), "normal")
                                ELSE p
    [] p.state = "quoted"    -> IF c = Quote
                                THEN Store(p, Stripped(Slice(line, p.begin, i)), "skip")
                                ELSE p
    [] p.state = "skip"      -> Became(p, "normal")

ReadChar(p, c, i, line) ==
  CASE p.state = "normal"    -> IF c = Dash THEN Became(p, "option") ELSE Failed(p, Bad)
    [] p.state = "option"    -> IF c \in Letters \cup {Dash}
                                THEN [p EXCEPT !.state = "separator", !.opt = c]
                                ELSE Failed(p, Bad)
    [] p.state = "separator" -> IF c = Space
                                THEN [p EXCEPT !.state = "first", !.begin = i + 1]
                                ELSE Failed(p, Bad)
    [] p.state = "first"     -> IF c = Quote /\ p.opt # Dash
                                THEN [p EXCEPT !.state = "quoted", !.begin = i + 1]
                                ELSE Became(p, "value")
    [] p.state = "value"     -> IF (c = Space /\ p.opt # Dash) \/ c = NUL
                                THEN Store(p, Slice(line, p.begin, i), "normal")
                                ELSE p
    [] p.state = "quoted"    -> IF c = Backslash THEN Became(p, "escaped")
                                ELSE IF c = Quote
                                THEN Store(p, Stripped(Slice(line, p.begin, i)), "skip")
                                ELSE p
    [] p.state = "skip"      -> Became(p, "normal")
    [] p.state = "escaped"   -> Became(p, "quoted")

\* The loop ends with an error or after the NUL behind the line.
ParseChar ==
  LET line == Format(asked)
      p    == ReadChar(parser, At(line, ptr), ptr, line)
  IN
  /\ parser.state \in Machine
  /\ parser' = IF p.error # OK \/ ptr > Len(line) THEN Became(p, "done") ELSE p
  /\ ptr' = ptr + 1
  /\ UNCHANGED asked

CommandNext == FindCommand \/ ParseChar
CommandSpec == CommandInit /\ [][CommandNext]_commandVars
-----------------------------------------------------------------------------
\* What the first n options of a command mean, and whether one is there twice.
Given(c, n, o) == {i \in 1..n : c.options[i].opt = o}
Meant(c, n) ==
  [o \in OptionNames |->
     IF Given(c, n, o) = {} THEN <<>> ELSE <<c.options[CHOOSE i \in Given(c, n, o) : TRUE].value>>]
GivenTwice(c, n) == \E i, j \in 1..n : i # j /\ c.options[i].opt = c.options[j].opt

\* Whatever a value holds, blanks, quotes and backslashes, the command gets the
\* values its client wrote, and no option runs into the next; an option that is
\* there twice is refused, and so is an empty line (cmd_parser.c:73).
CommandsAreUnderstood ==
  parser.state = "done" =>
    LET n == Len(asked.options) IN
    /\ parser.error = IF Format(asked) = <<>> THEN Bad
                      ELSE IF GivenTwice(asked, n) THEN Duplicate ELSE OK
    /\ parser.error = OK => parser.cmd = asked.name /\ parser.options = Meant(asked, n)
=============================================================================
