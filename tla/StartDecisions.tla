--------------------------- MODULE StartDecisions ---------------------------
(***************************************************************************)
(* Which parts of Xdebug are on, and which of them start with a request    *)
(* (lib/lib.c, with what debugger/com.c adds for step debugging).          *)
(*                                                                         *)
(* A situation is a record: the settings, the variables of the request and *)
(* its environment by the place they come from, and whether headers were   *)
(* sent already.  "" is a variable or setting that is empty.               *)
(***************************************************************************)
EXTENDS Integers, Sequences, SequencesExt

CONSTANT Situations

\* The order of xdebug_lib_find_in_globals: the environment is last.
GlobalPlaces == <<"GET", "POST", "COOKIE", "ENV">>

ModeNames == <<"off", "develop", "coverage", "debug", "gcstats", "profile", "trace">>

\* An item of xdebug.mode: the first letters of a word.
ModeItem(word, letters, whole) == [word |-> word, letters |-> letters, whole |-> whole]
ModeItems == [word : STRING, letters : Nat, whole : BOOLEAN]
Whole(word) == ModeItem(word, 9, TRUE)

\* A setting has an item at least, and a place has a name once.
ASSUME SituationsAssumption ==
  \A s \in Situations :
    /\ s.mode \in Seq(ModeItems) /\ s.mode # <<>> /\ s.env_mode \in Seq(ModeItems)
    /\ s.start_with_request \in {"yes", "no", "trigger", "default"}
    /\ \A v, w \in s.globals :
         /\ v.place \in ToSet(GlobalPlaces)
         /\ v.place = w.place /\ v.name = w.name => v = w

VARIABLES
  situation,
  modes,     \* xdebug_global_mode
  starting,  \* the parts that start with the request
  phase      \* what comes next: "module", "request" or "script"

startVars == <<situation, modes, starting, phase>>

\* strncmp(item, name, length of the item) = 0: "de" begins two names, and the
\* empty item begins them all.
BeginsName(item, name) ==
  IF item.whole THEN item.word = name
  ELSE \/ item.letters = 0
       \/ item.word = name
       \/ item.letters <= 2 /\ {item.word, name} = {"develop", "debug"}
-----------------------------------------------------------------------------
\* xdebug_lib_set_mode_item: the first name that fits, {} if there is none
ModeOf(item) ==
  LET fitting == {i \in 1..Len(ModeNames) : BeginsName(item, ModeNames[i])} IN
  IF fitting = {} THEN {} ELSE {ModeNames[CHOOSE i \in fitting : \A j \in fitting : i <= j]}

\* xdebug_lib_set_mode_from_setting: {} when an item is wrong
ModesOf(items) ==
  IF \E i \in 1..Len(items) : ModeOf(items[i]) = {} THEN {}
  ELSE UNION {ModeOf(items[i]) : i \in 1..Len(items)}

\* xdebug_lib_set_mode: XDEBUG_MODE goes before the setting, unless it is wrong.
\* If the setting is wrong too, the modes that the module starts with.
Modes(env, setting) ==
  IF ModesOf(env) # {} THEN ModesOf(env)
  ELSE IF ModesOf(setting) # {} THEN ModesOf(setting)
  ELSE {"develop"}

\* PHP_MINIT_FUNCTION(xdebug)
ModuleStarts ==
  /\ phase = "module" /\ phase' = "request"
  /\ modes' = Modes(situation.env_mode, situation.mode)
  /\ UNCHANGED <<situation, starting>>
-----------------------------------------------------------------------------
\* xdebug_lib_start_with_request
StartWithRequest(s, mode) ==
  s.start_with_request = "yes" \/ (s.start_with_request = "default" /\ mode = "profile")

NotFound == <<>>

\* xdebug_lib_find_in_globals: <<value>>, or NotFound
FindInGlobals(s, name) ==
  LET there == {i \in 1..Len(GlobalPlaces) : \E v \in s.globals : v.place = GlobalPlaces[i] /\ v.name = name}
      i     == CHOOSE i \in there : \A j \in there : i <= j
  IN IF there = {} THEN NotFound
     ELSE <<(CHOOSE v \in s.globals : v.place = GlobalPlaces[i] /\ v.name = name).value>>

LegacyTrigger(mode) ==
  CASE mode = "profile" -> "XDEBUG_PROFILE"
    [] mode = "trace"   -> "XDEBUG_TRACE"
    [] mode = "debug"   -> "XDEBUG_SESSION"
    [] OTHER            -> "XDEBUG_TRIGGER"

HasSharedSecret(s) == s.trigger_value # <<>>

\* Faulty: any of the names will do.
TriggerOfAnyName(s, mode) ==
  LET values == {FindInGlobals(s, "XDEBUG_TRIGGER"), FindInGlobals(s, LegacyTrigger(mode))} \ {NotFound} IN
  \E value \in values : ~HasSharedSecret(s) \/ value[1] \in ToSet(s.trigger_value)

\* trigger_enabled and does_shared_secret_match: when XDEBUG_TRIGGER is there
\* the other name is not looked at
TriggerEnabled(s, mode) ==
  LET generic == FindInGlobals(s, "XDEBUG_TRIGGER")
      value   == IF generic # NotFound THEN generic ELSE FindInGlobals(s, LegacyTrigger(mode))
  IN /\ value # NotFound
     /\ HasSharedSecret(s) => value[1] \in ToSet(s.trigger_value)

\* is_mode_trigger_and_enabled.  By default every part is triggered when
\* debugging or tracing is on.
ModeIsTrigger(s) ==
  \/ s.start_with_request = "trigger"
  \/ s.start_with_request = "default" /\ modes \cap {"debug", "trace"} # {}
StartWithTrigger(s, mode) == ModeIsTrigger(s) /\ TriggerEnabled(s, mode)

\* xdebug_should_ignore
ShouldIgnore(s) ==
  LET value == FindInGlobals(s, "XDEBUG_IGNORE") IN value # NotFound /\ value[1] \notin {"no", "0"}

\* xdebug_handle_start_session; the environment is that of PHP or of the process
HandleStartSession(s) ==
  LET Has(name, places) == \E v \in s.globals : v.name = name /\ v.place \in places
      started == Has("XDEBUG_SESSION_START", {"GET", "POST"}) /\ ~s.headers_sent
      env     == Has("XDEBUG_SESSION_START", {"ENV"})
      config  == Has("XDEBUG_CONFIG", {"ENV"}) /\ s.ide_key # "" /\ ~s.headers_sent
  IN (started \/ env \/ config) /\ ~HasSharedSecret(s)

\* The conditions of xdebug_profiler_init_if_requested, xdebug_tracing_rinit,
\* xdebug_gcstats_rinit and xdebug_debug_init_if_requested_at_startup
Starts(s, mode) ==
  /\ mode \in modes
  /\ CASE mode \in {"profile", "trace"} -> StartWithRequest(s, mode) \/ StartWithTrigger(s, mode)
       [] mode = "gcstats" -> StartWithRequest(s, mode)
       [] mode = "debug" ->
            /\ ~ShouldIgnore(s)
            /\ \/ StartWithRequest(s, mode)
               \/ s.start_with_request # "no" /\ HandleStartSession(s)
               \/ StartWithTrigger(s, mode)

\* PHP_RINIT_FUNCTION(xdebug), then the first function: xdebug_execute_user_code_begin
RequestStarts ==
  /\ phase = "request" /\ phase' = "script"
  /\ starting' = {mode \in {"debug", "trace", "profile", "gcstats"} : Starts(situation, mode)}
  /\ UNCHANGED <<situation, modes>>

NoStart == situation = <<>> /\ modes = {} /\ starting = {} /\ phase = "module"
StartInit == situation \in Situations /\ modes = {} /\ starting = {} /\ phase = "module"
StartNext == ModuleStarts \/ RequestStarts
StartSpec == StartInit /\ [][StartNext]_startVars
-----------------------------------------------------------------------------
(* What the documentation of mode, start_with_request and trigger_value says, *)
(* in xdebug.ini.                                                             *)
Effective(s, mode) ==
  IF s.start_with_request # "default" THEN s.start_with_request
  ELSE CASE mode \in {"debug", "trace"} -> "trigger" [] mode = "gcstats" -> "no" [] mode = "profile" -> "yes"

\* The variable of a name, in the first of the places that has it.
Foremost(s, name) ==
  {v \in s.globals : v.name = name /\
     \A w \in s.globals : w.name = name =>
       \E i, j \in 1..4 : i <= j /\ v.place = GlobalPlaces[i] /\ w.place = GlobalPlaces[j]}

Present(s, name, places) == \E v \in s.globals : v.name = name /\ v.place \in places
Accepted(s, name) ==
  \E v \in Foremost(s, name) : s.trigger_value = <<>> \/ v.value \in ToSet(s.trigger_value)
Ignored(s) == \E v \in Foremost(s, "XDEBUG_IGNORE") : v.value \notin {"no", "0"}

\* A trigger has an accepted value; the old names only count where the new one is
\* absent.
Triggered(s, mode) ==
  IF Foremost(s, "XDEBUG_TRIGGER") # {} THEN Accepted(s, "XDEBUG_TRIGGER")
  ELSE Accepted(s, LegacyTrigger(mode))

\* The other ways to ask for step debugging, which a trigger_value turns off.
SessionAsked(s) ==
  /\ s.trigger_value = <<>>
  /\ \/ Present(s, "XDEBUG_SESSION_START", {"GET", "POST", "ENV"})
     \/ Present(s, "XDEBUG_CONFIG", {"ENV"})

\* A part of Xdebug starts exactly as its documented setting says.  Garbage
\* collection statistics have no trigger.  A session is certain to start only as
\* long as its cookie can be sent.
StartsAsDocumented(s) ==
  \A mode \in {"debug", "trace", "profile", "gcstats"} :
    LET setting == Effective(s, mode)   starts == mode \in starting IN
    /\ starts => mode \in modes /\ setting # "no" /\ ~(mode = "debug" /\ Ignored(s))
    /\ starts /\ setting = "trigger" =>
         mode # "gcstats" /\ (Triggered(s, mode) \/ (mode = "debug" /\ SessionAsked(s)))
    /\ (mode \in modes /\ ~(mode = "debug" /\ Ignored(s))) =>
         /\ setting = "yes" => starts
         /\ setting = "trigger" /\ mode # "gcstats" /\ Triggered(s, mode) => starts
         /\ setting = "trigger" /\ mode = "debug" /\ SessionAsked(s)
              /\ ~s.headers_sent /\ s.ide_key # "" => starts

\* ModeItems that are names of modes turn these on: those of XDEBUG_MODE, or those of
\* the setting if XDEBUG_MODE is not there or has an unknown word.
NamesModes(items) == items # <<>> /\ \A i \in 1..Len(items) : items[i] \in {Whole(m) : m \in ToSet(ModeNames)}
HasUnknownWord(items) == \E i \in 1..Len(items) : items[i].whole /\ items[i].word \notin ToSet(ModeNames)
NamedModes(items) == {items[i].word : i \in 1..Len(items)}
ModesAsNamed(s) ==
  /\ NamesModes(s.env_mode) => modes = NamedModes(s.env_mode)
  /\ NamesModes(s.mode) /\ (s.env_mode = <<>> \/ HasUnknownWord(s.env_mode)) => modes = NamedModes(s.mode)

\* What is on, and what starts with the request, is what xdebug.ini says.
StartsAreDecided ==
  /\ phase # "module" => ModesAsNamed(situation)
  /\ phase = "script" => StartsAsDocumented(situation)
=============================================================================
