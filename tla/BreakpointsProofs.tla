------------------------- MODULE BreakpointsProofs -------------------------
(***************************************************************************)
(* Theorems about the breakpoint engine (module Breakpoints), for every    *)
(* program, every client and every number of fibers and breakpoints.       *)
(***************************************************************************)
EXTENDS Breakpoints, SequenceTheorems, WellFoundedInduction, TLAPS

(* What the operators on one breakpoint return. *)

Same(b, c) == b.brk_type = c.brk_type /\ b.where = c.where

\* A hit counts: the place of the breakpoint, and all it was asked for, stay.
LEMMA AfterHitType ==
  ASSUME NEW b \in Info
  PROVE  /\ AfterHit(b) \in Info /\ Same(AfterHit(b), b)
         /\ AfterHit(b).original_lineno = b.original_lineno
<1>1. (b.disabled \/ b.temporary) \in BOOLEAN /\ b.hit_count + 1 \in Nat
  BY DEF Info
<1>2. \A v \in BOOLEAN, n \in Nat :
        LET c == [b EXCEPT !.disabled = v, !.hit_count = n]
        IN  c \in Info /\ Same(c, b) /\ c.original_lineno = b.original_lineno
  BY DEF Info, Same
<1> QED BY <1>1, <1>2 DEF AfterHit

\* Resolving a line breakpoint changes its resolved line alone.
LEMMA ResolveType ==
  ASSUME NEW b \in Info, b.where \in Files, b.original_lineno \in ClientLines
  PROVE  /\ Resolve(b) \in Info /\ Same(Resolve(b), b)
         /\ Resolve(b).original_lineno = b.original_lineno
BY CodeAssumption DEF Resolve, Info, Same

\* An update keeps a breakpoint what it is and moves it to a line of the client's.
LEMMA UpdatedType ==
  ASSUME NEW b \in Info, NEW u \in Updates
  PROVE  /\ Updated(b, u) \in Info /\ Same(Updated(b, u), b)
         /\ Updated(b, u).original_lineno \in {b.original_lineno} \cup ClientLines
<1>1. u \in Update
  BY ClientAssumption
<1>2. DEFINE s == [b EXCEPT !.disabled = IF u.s = None THEN @ ELSE u.s = "disabled"]
             n == IF u.n = None THEN s
                  ELSE [s EXCEPT !.original_lineno = u.n, !.resolved_lineno = u.n]
             h == [n EXCEPT !.hit_value = IF u.h = None THEN @ ELSE u.h]
<1>3. s \in Info /\ Same(s, b) /\ s.original_lineno = b.original_lineno
  BY DEF Info, Same
<1>4. u.n # None => u.n \in ClientLines /\ u.n \in Nat
  BY <1>1 DEF ClientLines, Update
<1>5. /\ n \in Info /\ Same(n, b)
      /\ n.original_lineno \in {b.original_lineno} \cup ClientLines
  BY <1>3, <1>4 DEF Info, Same
<1>6. h \in Info /\ Same(h, b) /\ h.original_lineno = n.original_lineno
  <2>1. (IF u.h = None THEN n.hit_value ELSE u.h) \in Nat
    BY <1>1, <1>5 DEF Info, Update
  <2> QED BY <2>1, <1>5 DEF Info, Same
<1>7. u.o \notin {None, "invalid"} =>
        /\ [h EXCEPT !.hit_condition = u.o] \in Info
        /\ Same([h EXCEPT !.hit_condition = u.o], b)
        /\ [h EXCEPT !.hit_condition = u.o].original_lineno = n.original_lineno
  <2>1. u.o \notin {None, "invalid"} => u.o \in HitConditions
    BY <1>1 DEF Update
  <2> HIDE DEF h
  <2> QED BY <2>1, <1>6 DEF Info, Same
<1> HIDE DEF h, n
<1>8. Updated(b, u) = IF u.s = "invalid" THEN b
                      ELSE IF u.o \in {None, "invalid"} THEN h
                      ELSE [h EXCEPT !.hit_condition = u.o]
  BY DEF Updated, h, n
<1> QED BY <1>5, <1>6, <1>7, <1>8 DEF Same

\* breakpoint_set builds an xdebug_brk_info from what the client passed.
LEMMA NewInfoType ==
  ASSUME NEW type \in Types, NEW place \in Places, NEW n \in Nat, NEW o \in SetOptions
  PROVE  /\ NewInfo(type, place, n, o) \in Info
         /\ NewInfo(type, place, n, o).brk_type = type
         /\ NewInfo(type, place, n, o).where = place
         /\ NewInfo(type, place, n, o).original_lineno = n
  BY ClientAssumption DEF NewInfo, Info, Options

\* The first element of the part of the list that matches is one of it.
LEMMA BeforeIsOne ==
  ASSUME NEW S \in SUBSET Nat, S # {}
  PROVE  Before(S) \in S
<1>1. PICK x \in S : \A y \in S : ~(<<y, x>> \in OpToRel(<, Nat))
  BY NatLessThanWellFounded, WFMin
<1>2. ASSUME NEW y \in S PROVE x <= y
  <2>1. ~(<<y, x>> \in {p \in Nat \X Nat : p[1] < p[2]})
    BY <1>1, Zenon DEF OpToRel
  <2> QED BY <2>1
<1> QED BY <1>2, Zenon DEF Before

\* breakpoint_set marks frames; they stay frames.
LEMMA MarkAllType ==
  ASSUME NEW s \in Seq(Frame)
  PROVE  MarkAll(s) \in Seq(Frame)
<1>1. \A i \in 1..Len(s) : MarkAll(s)[i] \in Frame
  <2>1. \A b \in Frame : [b EXCEPT !.has_line_breakpoints = TRUE] \in Frame
    BY DEF Frame
  <2>2. DOMAIN s = 1..Len(s) /\ \A i \in 1..Len(s) : s[i] \in Frame
    BY LenProperties, ElementOfSeq
  <2> QED BY <2>1, <2>2 DEF MarkAll
<1>2. MarkAll(s) = [i \in 1..Len(s) |-> MarkAll(s)[i]]
  BY DEF MarkAll
<1>3. Len(s) \in Nat
  BY LenProperties
<1>4. [i \in 1..Len(s) |-> MarkAll(s)[i]] \in Seq(Frame)
  BY <1>1, <1>3, IsASeq
<1> QED BY <1>2, <1>4
-----------------------------------------------------------------------------
(* What a step does to the types, one lemma per way it changes the tables. *)

\* A step that hits, resolves or updates breakpoints keeps the tables in order.
LEMMA KeepTypes ==
  ASSUME InfoOK, TablesOK,
         UNCHANGED <<breakpoint_count, line_breakpoints, function_breakpoints,
                     exception_breakpoints>>,
         info' = [d \in DOMAIN info |-> info'[d]],
         \A d \in DOMAIN info :
           /\ info'[d] \in Info /\ Same(info'[d], info[d])
           /\ info'[d].original_lineno \in {info[d].original_lineno} \cup ClientLines
  PROVE  InfoOK' /\ TablesOK'
<1>1. DOMAIN info' = DOMAIN info
  OBVIOUS
<1>2. InfoOK'
  BY <1>1 DEF InfoOK
<1>3. TablesOK'
  BY <1>1 DEF TablesOK, Same
<1> QED BY <1>2, <1>3

\* A hit is such a step.
LEMMA HitType ==
  ASSUME InfoOK, TablesOK, NEW S, Hit(S),
         UNCHANGED <<breakpoint_count, line_breakpoints, function_breakpoints,
                     exception_breakpoints>>
  PROVE  InfoOK' /\ TablesOK'
<1>1. info' = [d \in DOMAIN info |-> info'[d]]
  BY DEF Hit
<1>2. ASSUME NEW d \in DOMAIN info
      PROVE  /\ info'[d] \in Info /\ Same(info'[d], info[d])
             /\ info'[d].original_lineno = info[d].original_lineno
  <2>1. info[d] \in Info /\ info'[d] \in {info[d], AfterHit(info[d])}
    BY DEF Hit, InfoOK
  <2> QED BY <2>1, AfterHitType DEF Same
<1> QED BY <1>1, <1>2, KeepTypes

\* Taking breakpoints away, with the entries of the tables that lead to them.
LEMMA RemoveTypes ==
  ASSUME InfoOK, TablesOK, NEW freed, NEW F, NEW X,
         breakpoint_count' = breakpoint_count,
         info' = Without(info, freed),
         line_breakpoints' = line_breakpoints \ freed,
         function_breakpoints' = Without(function_breakpoints, F),
         exception_breakpoints' = Without(exception_breakpoints, X),
         \A k \in DOMAIN function_breakpoints \ F : function_breakpoints[k] \notin freed,
         \A x \in DOMAIN exception_breakpoints \ X : exception_breakpoints[x] \notin freed
  PROVE  InfoOK' /\ TablesOK'
<1>1. /\ DOMAIN info' = DOMAIN info \ freed
      /\ \A d \in DOMAIN info' : info'[d] = info[d]
  BY DEF Without
<1>2. InfoOK'
  BY <1>1 DEF InfoOK
<1>3. TablesOK'
  BY <1>1 DEF TablesOK, Without
<1> QED BY <1>2, <1>3

\* A breakpoint gets an id that no breakpoint has had, and "freed" are freed.
LEMMA AddInfo ==
  ASSUME IdsOK, InfoOK, NEW type \in Types, NEW place \in Places, NEW n \in Nat,
         AdminAdd(type, place, n), NEW b \in Info, NEW freed,
         info' = With(Without(info, freed), breakpoint_count', b)
  PROVE  /\ IdsOK' /\ InfoOK'
         /\ info'[breakpoint_count'] = b
         /\ DOMAIN info' = (DOMAIN info \ freed) \cup {breakpoint_count'}
         /\ \A d \in DOMAIN info \ freed : info'[d] = info[d] /\ d # breakpoint_count'
<1>1. breakpoint_count' \in Nat /\ breakpoint_count' = breakpoint_count + 1
  BY DEF AdminAdd, IdsOK
<1>2. IdsOK'
  BY <1>1 DEF AdminAdd, IdsOK, Admin, With
<1>3. /\ DOMAIN info' = (DOMAIN info \ freed) \cup {breakpoint_count'}
      /\ info'[breakpoint_count'] = b
      /\ \A d \in DOMAIN info \ freed : info'[d] = info[d] /\ d # breakpoint_count'
  BY <1>1 DEF With, Without, InfoOK, IdsOK
<1>4. InfoOK'
  BY <1>1, <1>3 DEF InfoOK, IdsOK
<1> QED BY <1>2, <1>3, <1>4

\* The tables after a breakpoint was added whose id is "id".
LEMMA AddToTables ==
  ASSUME TablesOK, NEW id, NEW freed,
         id \in DOMAIN info',
         \A d \in DOMAIN info' \ {id} : d \in DOMAIN info /\ info'[d] = info[d],
         \A d \in DOMAIN info \ freed : d \in DOMAIN info' /\ info'[d] = info[d] /\ d # id,
         \A d \in freed : d \in DOMAIN info => info[d].brk_type = "exception",
         line_breakpoints' = line_breakpoints \cup (IF info'[id].brk_type = "line" THEN {id} ELSE {}),
         info'[id].brk_type = "line" =>
           info'[id].where \in Files /\ info'[id].original_lineno \in ClientLines,
         \A k \in DOMAIN function_breakpoints' :
           \/ k \in DOMAIN function_breakpoints /\ function_breakpoints'[k] = function_breakpoints[k]
           \/ /\ k \in FunctionTypes \X Functions /\ function_breakpoints'[k] = id
              /\ info'[id].brk_type = k[1] /\ info'[id].where = k[2],
         \A x \in DOMAIN exception_breakpoints' :
           \/ /\ x \in DOMAIN exception_breakpoints /\ exception_breakpoints[x] \notin freed
              /\ exception_breakpoints'[x] = exception_breakpoints[x]
           \/ /\ x \in Exceptions \cup {Wildcard} /\ exception_breakpoints'[x] = id
              /\ info'[id].brk_type = "exception" /\ info'[id].where = x
  PROVE  TablesOK'
<1>1. line_breakpoints' = {d \in DOMAIN info' : info'[d].brk_type = "line"}
  <2>1. ASSUME NEW d, d # id
        PROVE  d \in line_breakpoints <=> d \in DOMAIN info' /\ info'[d].brk_type = "line"
    BY <2>1 DEF TablesOK
  <2>2. id \in line_breakpoints => info'[id].brk_type = "line"
    BY DEF TablesOK
  <2> QED BY <2>1, <2>2
<1>2. \A d \in line_breakpoints' : /\ info'[d].where \in Files
                                 /\ info'[d].original_lineno \in ClientLines
  BY <1>1 DEF TablesOK
<1>3. ASSUME NEW k \in DOMAIN function_breakpoints'
      PROVE  /\ k \in FunctionTypes \X Functions
             /\ function_breakpoints'[k] \in DOMAIN info'
             /\ info'[function_breakpoints'[k]].brk_type = k[1]
             /\ info'[function_breakpoints'[k]].where = k[2]
  <2>1. CASE k \in DOMAIN function_breakpoints /\ function_breakpoints'[k] = function_breakpoints[k]
    <3>1. /\ k \in FunctionTypes \X Functions
          /\ function_breakpoints[k] \in DOMAIN info
          /\ info[function_breakpoints[k]].brk_type = k[1]
          /\ info[function_breakpoints[k]].where = k[2]
      BY <2>1 DEF TablesOK
    <3>2. k[1] # "exception"
      BY <3>1 DEF FunctionTypes
    <3> QED BY <2>1, <3>1, <3>2
  <2> QED BY <2>1
<1>4. ASSUME NEW x \in DOMAIN exception_breakpoints'
      PROVE  /\ x \in Exceptions \cup {Wildcard}
             /\ exception_breakpoints'[x] \in DOMAIN info'
             /\ info'[exception_breakpoints'[x]].brk_type = "exception"
             /\ info'[exception_breakpoints'[x]].where = x
  BY DEF TablesOK
<1> QED BY <1>1, <1>2, <1>3, <1>4 DEF TablesOK

\* A call or return breakpoint is hit, or not.
LEMMA FunctionBreakTypes ==
  ASSUME InfoOK, TablesOK, EngineOK, NEW type, NEW f, FunctionBreak(type, f),
         UNCHANGED <<breakpoint_count, line_breakpoints, function_breakpoints,
                     exception_breakpoints, step_armed>>
  PROVE  InfoOK' /\ TablesOK' /\ EngineOK'
<1>1. EngineOK'
  BY DEF FunctionBreak, EngineOK, TablesOK, InfoOK
<1>2. (\E S : Hit(S)) \/ UNCHANGED info
  BY DEF FunctionBreak
<1>3. InfoOK' /\ TablesOK'
  <2>1. CASE UNCHANGED info
    BY <2>1 DEF InfoOK, TablesOK
  <2> QED BY <1>2, <2>1, HitType
<1> QED BY <1>1, <1>3
-----------------------------------------------------------------------------
(* The type invariant, one lemma for every command of the client. *)

LEMMA SetLineTypes ==
  ASSUME TypeOK, NEW o \in SetOptions, NEW f \in Files, NEW n \in SetLines, SetLine(f, n, o)
  PROVE  TypeOK'
<1> DEFINE b == NewInfo("line", f, n, o)
           gone == {}
           c == IF resolved_breakpoints /\ f \in compiled THEN Resolve(b) ELSE b
<1>1. n \in Nat /\ n \in ClientLines /\ f \in Places /\ "line" \in Types
  BY ClientAssumption, NoneAssumption DEF ClientLines, Places, Types
<1>2. /\ b \in Info /\ b.brk_type = "line" /\ b.where = f /\ b.original_lineno = n
  BY <1>1, NewInfoType
<1> HIDE DEF b
<1>3. c \in Info /\ c.brk_type = "line" /\ c.where = f /\ c.original_lineno = n
  BY <1>1, <1>2, ResolveType DEF Same
<1>4. /\ AdminAdd("line", f, n)
      /\ info' = With(info, breakpoint_count', c)
      /\ line_breakpoints' = line_breakpoints \cup {breakpoint_count'}
      /\ UNCHANGED <<function_breakpoints, exception_breakpoints, Session>>
  BY DEF SetLine, b
<1> HIDE DEF c
<1>5. info' = With(Without(info, gone), breakpoint_count', c) /\ DOMAIN info = DOMAIN info \ gone
  BY <1>4 DEF With, Without
<1> HIDE DEF gone
<1>6. /\ IdsOK' /\ InfoOK'
      /\ info'[breakpoint_count'] = c
      /\ DOMAIN info' = DOMAIN info \cup {breakpoint_count'}
      /\ \A d \in DOMAIN info : info'[d] = info[d] /\ d # breakpoint_count'
  BY <1>1, <1>3, <1>4, <1>5, AddInfo DEF TypeOK
<1>7. TablesOK'
  <2>1. TablesOK
    BY DEF TypeOK
  <2>2. line_breakpoints' = line_breakpoints \cup
          (IF info'[breakpoint_count'].brk_type = "line" THEN {breakpoint_count'} ELSE {})
    BY <1>3, <1>4, <1>6
  <2>3. /\ breakpoint_count' \in DOMAIN info'
        /\ \A d \in DOMAIN info' \ {breakpoint_count'} : d \in DOMAIN info /\ info'[d] = info[d]
        /\ \A d \in DOMAIN info \ gone : /\ d \in DOMAIN info' /\ info'[d] = info[d]
                                      /\ d # breakpoint_count'
        /\ \A d \in gone : d \in DOMAIN info => info[d].brk_type = "exception"
    BY <1>5, <1>6 DEF gone
  <2>4. info'[breakpoint_count'].where \in Files
        /\ info'[breakpoint_count'].original_lineno \in ClientLines
    BY <1>1, <1>3, <1>6
  <2>5. /\ \A k \in DOMAIN function_breakpoints' :
             k \in DOMAIN function_breakpoints /\ function_breakpoints'[k] = function_breakpoints[k]
        /\ \A x \in DOMAIN exception_breakpoints' :
             /\ x \in DOMAIN exception_breakpoints /\ exception_breakpoints[x] \notin gone
             /\ exception_breakpoints'[x] = exception_breakpoints[x]
    BY <1>4 DEF gone
  <2> QED BY <2>1, <2>2, <2>3, <2>4, <2>5, AddToTables
<1>8. EngineOK' /\ ProgramOK'
  BY MarkAllType DEF TypeOK, EngineOK, ProgramOK, SetLine, Session
<1> QED BY <1>6, <1>7, <1>8 DEF TypeOK

LEMMA SetFunctionTypes ==
  ASSUME TypeOK, NEW o \in SetOptions, NEW type \in FunctionTypes, NEW f \in Functions,
         SetFunction(type, f, o)
  PROVE  TypeOK'
<1> DEFINE b == NewInfo(type, f, 0, o)
           gone == {}
<1>1. f \in Places /\ type \in Types /\ type # "line" /\ 0 \in Nat
  BY DEF Places, Types, FunctionTypes
<1>2. b \in Info /\ b.brk_type = type /\ b.where = f
  BY <1>1, NewInfoType
<1>3. /\ AdminAdd(type, f, 0)
      /\ info' = With(info, breakpoint_count', b)
      /\ function_breakpoints' = With(function_breakpoints, <<type, f>>, breakpoint_count')
      /\ UNCHANGED <<line_breakpoints, exception_breakpoints, stack, Session>>
  BY DEF SetFunction
<1> HIDE DEF b
<1>4. info' = With(Without(info, gone), breakpoint_count', b) /\ DOMAIN info = DOMAIN info \ gone
  BY <1>3 DEF With, Without
<1> HIDE DEF gone
<1>5. /\ IdsOK' /\ InfoOK'
      /\ info'[breakpoint_count'] = b
      /\ DOMAIN info' = DOMAIN info \cup {breakpoint_count'}
      /\ \A d \in DOMAIN info : info'[d] = info[d] /\ d # breakpoint_count'
  BY <1>1, <1>2, <1>3, <1>4, AddInfo DEF TypeOK
<1>6. TablesOK'
  <2>1. TablesOK
    BY DEF TypeOK
  <2>2. line_breakpoints' = line_breakpoints \cup
          (IF info'[breakpoint_count'].brk_type = "line" THEN {breakpoint_count'} ELSE {})
    BY <1>1, <1>2, <1>3, <1>5
  <2>3. /\ breakpoint_count' \in DOMAIN info'
        /\ \A d \in DOMAIN info' \ {breakpoint_count'} : d \in DOMAIN info /\ info'[d] = info[d]
        /\ \A d \in DOMAIN info \ gone : /\ d \in DOMAIN info' /\ info'[d] = info[d]
                                      /\ d # breakpoint_count'
        /\ \A d \in gone : d \in DOMAIN info => info[d].brk_type = "exception"
    BY <1>4, <1>5 DEF gone
  <2>4. info'[breakpoint_count'].brk_type # "line"
    BY <1>1, <1>2, <1>5
  <2>5. \A k \in DOMAIN function_breakpoints' :
          \/ k \in DOMAIN function_breakpoints /\ function_breakpoints'[k] = function_breakpoints[k]
          \/ /\ k \in FunctionTypes \X Functions /\ function_breakpoints'[k] = breakpoint_count'
             /\ info'[breakpoint_count'].brk_type = k[1] /\ info'[breakpoint_count'].where = k[2]
    BY <1>2, <1>3, <1>5 DEF With
  <2>6. \A x \in DOMAIN exception_breakpoints' :
          /\ x \in DOMAIN exception_breakpoints /\ exception_breakpoints[x] \notin gone
          /\ exception_breakpoints'[x] = exception_breakpoints[x]
    BY <1>3 DEF gone
  <2> QED BY <2>1, <2>2, <2>3, <2>4, <2>5, <2>6, AddToTables
<1>7. EngineOK' /\ ProgramOK'
  BY <1>3 DEF TypeOK, EngineOK, ProgramOK, Session
<1> QED BY <1>5, <1>6, <1>7 DEF TypeOK

LEMMA SetExceptionTypes ==
  ASSUME TypeOK, NEW o \in SetOptions, NEW x \in Exceptions \cup {Wildcard}, SetException(x, o)
  PROVE  TypeOK'
<1> DEFINE b == NewInfo("exception", x, 0, o)
           held == {exception_breakpoints[y] : y \in DOMAIN exception_breakpoints \cap {x}}
<1>1. x \in Places /\ "exception" \in Types /\ 0 \in Nat
  BY DEF Places, Types
<1>2. b \in Info /\ b.brk_type = "exception" /\ b.where = x
  BY <1>1, NewInfoType
<1>3. /\ AdminAdd("exception", x, 0)
      /\ info' = With(Without(info, held), breakpoint_count', b)
      /\ exception_breakpoints' = With(exception_breakpoints, x, breakpoint_count')
      /\ UNCHANGED <<line_breakpoints, function_breakpoints, stack, Session>>
  BY DEF SetException
<1> HIDE DEF b
<1>4. /\ \A d \in held : d \in DOMAIN info /\ info[d].brk_type = "exception"
      /\ \A y \in DOMAIN exception_breakpoints \ {x} : exception_breakpoints[y] \notin held
  <2>1. \A y \in DOMAIN exception_breakpoints :
          /\ exception_breakpoints[y] \in DOMAIN info
          /\ info[exception_breakpoints[y]].brk_type = "exception"
          /\ info[exception_breakpoints[y]].where = y
    BY DEF TypeOK, TablesOK
  <2> QED BY <2>1
<1> HIDE DEF held
<1>5. /\ IdsOK' /\ InfoOK'
      /\ info'[breakpoint_count'] = b
      /\ DOMAIN info' = (DOMAIN info \ held) \cup {breakpoint_count'}
      /\ \A d \in DOMAIN info \ held : info'[d] = info[d] /\ d # breakpoint_count'
  BY <1>1, <1>2, <1>3, AddInfo DEF TypeOK
<1>6. TablesOK'
  <2>1. TablesOK
    BY DEF TypeOK
  <2>2. line_breakpoints' = line_breakpoints \cup
          (IF info'[breakpoint_count'].brk_type = "line" THEN {breakpoint_count'} ELSE {})
    BY <1>2, <1>3, <1>5
  <2>3. /\ breakpoint_count' \in DOMAIN info'
        /\ \A d \in DOMAIN info' \ {breakpoint_count'} : d \in DOMAIN info /\ info'[d] = info[d]
        /\ \A d \in DOMAIN info \ held : /\ d \in DOMAIN info' /\ info'[d] = info[d]
                                        /\ d # breakpoint_count'
        /\ \A d \in held : d \in DOMAIN info => info[d].brk_type = "exception"
    BY <1>4, <1>5
  <2>4. info'[breakpoint_count'].brk_type # "line"
    BY <1>2, <1>5
  <2>5. function_breakpoints' = function_breakpoints
    BY <1>3
  <2>6. \A y \in DOMAIN exception_breakpoints' :
          \/ /\ y \in DOMAIN exception_breakpoints /\ exception_breakpoints[y] \notin held
             /\ exception_breakpoints'[y] = exception_breakpoints[y]
          \/ /\ y \in Exceptions \cup {Wildcard} /\ exception_breakpoints'[y] = breakpoint_count'
             /\ info'[breakpoint_count'].brk_type = "exception" /\ info'[breakpoint_count'].where = y
    BY <1>2, <1>3, <1>4, <1>5 DEF With
  <2> QED BY <2>1, <2>2, <2>3, <2>4, <2>5, <2>6, AddToTables
<1>7. EngineOK' /\ ProgramOK'
  BY <1>3 DEF TypeOK, EngineOK, ProgramOK, Session
<1> QED BY <1>5, <1>6, <1>7 DEF TypeOK

\* A command that dereferences NULL changes nothing but the state of the process.
LEMMA CrashTypes ==
  ASSUME TypeOK, Crash
  PROVE  TypeOK'
BY DEF TypeOK, Crash, IdsOK, InfoOK, TablesOK, EngineOK, ProgramOK, registry, program

LEMMA UpdateTypes ==
  ASSUME TypeOK, NEW d \in DOMAIN breakpoint_list, NEW u \in Updates, BreakpointUpdate(d, u)
  PROVE  TypeOK'
<1> DEFINE b == Fetch(breakpoint_list[d])
<1>1. CASE b = None
  BY <1>1, CrashTypes DEF BreakpointUpdate
<1>2. CASE b # None
  <2>1. /\ info' = [info EXCEPT ![b] = Updated(@, u)]
        /\ UNCHANGED <<breakpoint_count, breakpoint_list, line_breakpoints,
                       function_breakpoints, exception_breakpoints, stack, Session>>
    BY <1>2 DEF BreakpointUpdate
  <2> HIDE DEF b
  <2>2. ASSUME NEW e \in DOMAIN info
        PROVE  /\ info'[e] \in Info /\ Same(info'[e], info[e])
               /\ info'[e].original_lineno \in {info[e].original_lineno} \cup ClientLines
    <3>1. info[e] \in Info /\ info'[e] \in {info[e], Updated(info[e], u)}
      BY <2>1 DEF TypeOK, InfoOK
    <3> QED BY <3>1, UpdatedType DEF Same
  <2>3. info' = [e \in DOMAIN info |-> info'[e]]
    BY <2>1
  <2>4. InfoOK' /\ TablesOK'
    BY <2>1, <2>2, <2>3, KeepTypes DEF TypeOK
  <2> QED BY <2>1, <2>4 DEF TypeOK, IdsOK, EngineOK, ProgramOK, Session
<1> QED BY <1>1, <1>2

LEMMA RemoveCommandTypes ==
  ASSUME TypeOK, NEW d \in DOMAIN breakpoint_list, BreakpointRemove(d)
  PROVE  TypeOK'
<1> DEFINE a == breakpoint_list[d]
           freed == IF a.type = "line"
                    THEN IF AtKey(a) = {} THEN {} ELSE {Before(AtKey(a))}
                    ELSE {Fetch(a)}
           F == IF a.type \in FunctionTypes THEN {<<a.type, a.where>>} ELSE {}
           X == IF a.type = "exception" THEN {a.where} ELSE {}
<1>1. CASE Fetch(a) = None
  BY <1>1, CrashTypes DEF BreakpointRemove
<1>2. CASE Fetch(a) # None
  <2>1. /\ breakpoint_list' = Without(breakpoint_list, {d})
        /\ info' = Without(info, freed)
        /\ line_breakpoints' = line_breakpoints \ freed
        /\ function_breakpoints' = Without(function_breakpoints, F)
        /\ exception_breakpoints' = Without(exception_breakpoints, X)
        /\ UNCHANGED <<breakpoint_count, stack, Session>>
    BY <1>2 DEF BreakpointRemove
  <2>2. IdsOK /\ TablesOK /\ InfoOK /\ EngineOK /\ ProgramOK
    BY DEF TypeOK
  <2>3. IdsOK'
    BY <2>1, <2>2 DEF IdsOK, Without
  <2>4. a.type \in Types
    BY <2>2 DEF IdsOK, Admin
  <2>5. /\ \A k \in DOMAIN function_breakpoints \ F : function_breakpoints[k] \notin freed
        /\ \A x \in DOMAIN exception_breakpoints \ X : exception_breakpoints[x] \notin freed
    <3>1. CASE a.type = "line"
      <4>1. freed \subseteq line_breakpoints
        <5>1. AtKey(a) \in SUBSET Nat /\ AtKey(a) \subseteq line_breakpoints
          BY <2>2 DEF AtKey, TablesOK, InfoOK
        <5> QED BY <3>1, <5>1, BeforeIsOne
      <4> HIDE DEF freed
      <4> QED BY <2>2, <4>1 DEF TablesOK, FunctionTypes
    <3>2. CASE a.type \in FunctionTypes
      <4>1. /\ F = {<<a.type, a.where>>} /\ <<a.type, a.where>> \in DOMAIN function_breakpoints
            /\ freed = {function_breakpoints[<<a.type, a.where>>]}
        BY <1>2, <3>2 DEF Fetch, FunctionTypes
      <4>2. \A k \in DOMAIN function_breakpoints :
              /\ k = <<k[1], k[2]>> /\ k[1] # "exception"
              /\ info[function_breakpoints[k]].brk_type = k[1]
              /\ info[function_breakpoints[k]].where = k[2]
        BY <2>2 DEF TablesOK, FunctionTypes
      <4>3. \A x \in DOMAIN exception_breakpoints :
              info[exception_breakpoints[x]].brk_type = "exception"
        BY <2>2 DEF TablesOK
      <4> HIDE DEF freed, F
      <4> QED BY <4>1, <4>2, <4>3
    <3>3. CASE a.type = "exception"
      <4>1. /\ X = {a.where} /\ a.where \in DOMAIN exception_breakpoints
            /\ freed = {exception_breakpoints[a.where]}
        BY <1>2, <3>3 DEF Fetch, FunctionTypes
      <4>2. \A x \in DOMAIN exception_breakpoints :
              /\ info[exception_breakpoints[x]].brk_type = "exception"
              /\ info[exception_breakpoints[x]].where = x
        BY <2>2 DEF TablesOK
      <4>3. \A k \in DOMAIN function_breakpoints :
              info[function_breakpoints[k]].brk_type # "exception"
        BY <2>2 DEF TablesOK, FunctionTypes
      <4> HIDE DEF freed, X
      <4> QED BY <4>1, <4>2, <4>3
    <3> QED BY <2>4, <3>1, <3>2, <3>3 DEF Types
  <2> HIDE DEF freed, F, X
  <2>6. InfoOK' /\ TablesOK'
    BY <2>1, <2>2, <2>5, RemoveTypes
  <2>7. EngineOK' /\ ProgramOK'
    BY <2>1, <2>2 DEF EngineOK, ProgramOK, Session
  <2> QED BY <2>3, <2>6, <2>7 DEF TypeOK
<1> QED BY <1>1, <1>2
-----------------------------------------------------------------------------
(* The type invariant, for the steps of the program. *)

LEMMA StatementTypes ==
  ASSUME TypeOK, NEW n, NEW truths,
         StatementBreak(n) \/ StatementStep(n) \/ StatementLine(n, truths)
  PROVE  TypeOK'
<1>1. CASE StatementBreak(n) \/ StatementStep(n)
  <2>1. /\ UNCHANGED <<breakpoint_count, registry, program>>
        /\ do_break' \in {FALSE, do_break} /\ step_armed' \in {FALSE, step_armed}
        /\ pending_breakpoint' \in {None, pending_breakpoint}
        /\ status' \in {"break", "crashed"}
    BY <1>1 DEF StatementBreak, StatementStep
  <2>2. EngineOK'
    BY <2>1 DEF TypeOK, EngineOK
  <2>3. IdsOK' /\ InfoOK' /\ TablesOK' /\ ProgramOK'
    BY <2>1 DEF TypeOK, IdsOK, InfoOK, TablesOK, ProgramOK, registry, program
  <2> QED BY <2>2, <2>3 DEF TypeOK
<1>2. CASE StatementLine(n, truths)
  <2>1. PICK S : Hit(S)
    BY <1>2 DEF StatementLine
  <2>2. /\ status' \in {"running", "break"}
        /\ UNCHANGED <<breakpoint_count, breakpoint_list, line_breakpoints,
                       function_breakpoints, exception_breakpoints, do_break,
                       pending_breakpoint, step_armed, program>>
    BY <1>2 DEF StatementLine
  <2>3. InfoOK' /\ TablesOK'
    BY <2>1, <2>2, HitType DEF TypeOK
  <2> QED BY <2>2, <2>3 DEF TypeOK, IdsOK, EngineOK, ProgramOK, program
<1> QED BY <1>1, <1>2

LEMMA CallTypes ==
  ASSUME TypeOK, NEW f \in Functions, Call(f)
  PROVE  TypeOK'
<1>1. UNCHANGED <<breakpoint_count, breakpoint_list, line_breakpoints, function_breakpoints,
                  exception_breakpoints, step_armed, compiled, fiber>>
  BY DEF Call
<1>2. InfoOK' /\ TablesOK' /\ EngineOK'
  BY <1>1, FunctionBreakTypes DEF Call, TypeOK
<1>3. PICK marked \in BOOLEAN :
        stack' = [stack EXCEPT ![fiber] =
                    Append(@, [function |-> f, has_line_breakpoints |-> marked])]
  BY DEF Call
<1>4. ProgramOK'
  <2>1. [function |-> f, has_line_breakpoints |-> marked] \in Frame
    BY DEF Frame
  <2>2. stack[fiber] \in Seq(Frame)
    BY DEF TypeOK, ProgramOK
  <2>3. Append(stack[fiber], [function |-> f, has_line_breakpoints |-> marked]) \in Seq(Frame)
    BY <2>1, <2>2, AppendProperties
  <2> QED BY <1>1, <1>3, <2>3 DEF TypeOK, ProgramOK
<1> QED BY <1>1, <1>2, <1>4 DEF TypeOK, IdsOK

LEMMA ReturnTypes ==
  ASSUME TypeOK, Return
  PROVE  TypeOK'
<1>1. UNCHANGED <<breakpoint_count, breakpoint_list, line_breakpoints, function_breakpoints,
                  exception_breakpoints, step_armed, compiled, fiber>>
  BY DEF Return
<1>2. InfoOK' /\ TablesOK' /\ EngineOK'
  BY <1>1, FunctionBreakTypes DEF Return, TypeOK
<1>3. ProgramOK'
  <2>1. stack[fiber] \in Seq(Frame) /\ stack[fiber] # <<>>
    BY DEF TypeOK, ProgramOK, Return
  <2>2. SubSeq(stack[fiber], 1, Len(stack[fiber]) - 1) \in Seq(Frame)
    BY <2>1, SubSeqProperties, LenProperties, EmptySeq
  <2> QED BY <1>1, <2>2 DEF TypeOK, ProgramOK, Return
<1> QED BY <1>1, <1>2, <1>3 DEF TypeOK, IdsOK

LEMMA ThrowTypes ==
  ASSUME TypeOK, NEW x, Throw(x)
  PROVE  TypeOK'
<1>1. PICK S : Hit(S)
  BY DEF Throw
<1>2. /\ status' \in {status, "break"}
      /\ UNCHANGED <<breakpoint_count, breakpoint_list, line_breakpoints,
                     function_breakpoints, exception_breakpoints, do_break,
                     pending_breakpoint, step_armed, program>>
  BY DEF Throw
<1>3. InfoOK' /\ TablesOK'
  BY <1>1, <1>2, HitType DEF TypeOK
<1> QED BY <1>2, <1>3 DEF TypeOK, IdsOK, EngineOK, ProgramOK, program

LEMMA CompileTypes ==
  ASSUME TypeOK, NEW f \in Files, Compile(f)
  PROVE  TypeOK'
<1> DEFINE fetched == {Fetch(breakpoint_list[d]) : d \in DOMAIN breakpoint_list}
<1>1. CASE resolved_breakpoints /\ None \in fetched
  BY <1>1, CrashTypes DEF Compile
<1>2. CASE ~(resolved_breakpoints /\ None \in fetched)
  <2>1. /\ compiled' = compiled \cup {f}
        /\ info' = [d \in DOMAIN info |->
              IF /\ resolved_breakpoints /\ d \in fetched
                 /\ info[d].brk_type = "line" /\ info[d].where = f
              THEN Resolve(info[d]) ELSE info[d]]
        /\ UNCHANGED <<breakpoint_count, breakpoint_list, line_breakpoints,
                       function_breakpoints, exception_breakpoints, do_break,
                       pending_breakpoint, step_armed, stack, fiber, status>>
    BY <1>2 DEF Compile
  <2> HIDE DEF fetched
  <2>2. ASSUME NEW d \in DOMAIN info
        PROVE  /\ info'[d] \in Info /\ Same(info'[d], info[d])
               /\ info'[d].original_lineno \in {info[d].original_lineno} \cup ClientLines
    <3>1. info[d] \in Info
      BY DEF TypeOK, InfoOK
    <3>2. CASE info[d].brk_type = "line"
      <4>1. info[d].where \in Files /\ info[d].original_lineno \in ClientLines
        BY <3>2 DEF TypeOK, TablesOK
      <4> QED BY <2>1, <3>1, <4>1, ResolveType DEF Same
    <3>3. CASE info[d].brk_type # "line"
      BY <2>1, <3>1, <3>3 DEF Same
    <3> QED BY <3>2, <3>3
  <2>3. info' = [d \in DOMAIN info |-> info'[d]]
    BY <2>1
  <2>4. InfoOK' /\ TablesOK'
    BY <2>1, <2>2, <2>3, KeepTypes DEF TypeOK
  <2> QED BY <2>1, <2>4 DEF TypeOK, IdsOK, EngineOK, ProgramOK
<1> QED BY <1>1, <1>2
-----------------------------------------------------------------------------
(* The theorems. *)

\* The tables only ever lead to breakpoints that are allocated and that are
\* what, and where, the table says: whatever the client sends, the hashes and
\* the list of handler_dbgp.c never hold a freed xdebug_brk_info.
THEOREM TypeCorrect == Spec => []TypeOK
<1>1. Init => TypeOK
  <2> SUFFICES ASSUME Init PROVE TypeOK
    OBVIOUS
  <2>1. IdsOK /\ InfoOK
    BY DEF Init, IdsOK, InfoOK
  <2>2. TablesOK
    BY DEF Init, TablesOK
  <2>3. EngineOK
    BY DEF Init, EngineOK
  <2>4. ProgramOK
    BY FiberAssumption, EmptySeq DEF Init, ProgramOK
  <2> QED BY <2>1, <2>2, <2>3, <2>4 DEF TypeOK
<1>2. TypeOK /\ [Next]_vars => TypeOK'
  <2> SUFFICES ASSUME TypeOK, [Next]_vars PROVE TypeOK'
    OBVIOUS
  <2>1. CASE ClientNext
    <3>1. ASSUME NEW o \in SetOptions, NEW f \in Files, NEW n \in SetLines, SetLine(f, n, o)
          PROVE  TypeOK'
      BY <3>1, SetLineTypes
    <3>2. ASSUME NEW o \in SetOptions, NEW type \in FunctionTypes, NEW f \in Functions,
                 SetFunction(type, f, o)
          PROVE  TypeOK'
      BY <3>2, SetFunctionTypes
    <3>3. ASSUME NEW o \in SetOptions, NEW x \in Exceptions \cup {Wildcard}, SetException(x, o)
          PROVE  TypeOK'
      BY <3>3, SetExceptionTypes
    <3>4. ASSUME NEW d \in DOMAIN breakpoint_list, NEW u \in Updates, BreakpointUpdate(d, u)
          PROVE  TypeOK'
      BY <3>4, UpdateTypes
    <3>5. ASSUME NEW d \in DOMAIN breakpoint_list, BreakpointRemove(d)
          PROVE  TypeOK'
      BY <3>5, RemoveCommandTypes
    <3>6. ASSUME NEW d \in DOMAIN breakpoint_list, BreakpointGet(d)
          PROVE  TypeOK'
      BY <3>6, CrashTypes DEF BreakpointGet
    <3>7. ASSUME NEW step \in BOOLEAN, Continue(step)
          PROVE  TypeOK'
      BY <3>7 DEF Continue, TypeOK, IdsOK, InfoOK, TablesOK, EngineOK, ProgramOK, registry, program
    <3> QED BY <2>1, <3>1, <3>2, <3>3, <3>4, <3>5, <3>6, <3>7 DEF ClientNext
  <2>2. CASE ProgramNext
    <3>1. ASSUME NEW n, NEW truths,
                 StatementBreak(n) \/ StatementStep(n) \/ StatementLine(n, truths)
          PROVE  TypeOK'
      BY <3>1, StatementTypes
    <3>2. ASSUME NEW f \in Functions, Call(f)
          PROVE  TypeOK'
      BY <3>2, CallTypes
    <3>3. CASE Return
      BY <3>3, ReturnTypes
    <3>4. ASSUME NEW x \in Exceptions, Throw(x)
          PROVE  TypeOK'
      BY <3>4, ThrowTypes
    <3>5. ASSUME NEW f \in Files, Compile(f)
          PROVE  TypeOK'
      BY <3>5, CompileTypes
    <3>6. CASE XdebugBreak
      BY <3>6 DEF XdebugBreak, TypeOK, IdsOK, InfoOK, TablesOK, EngineOK, ProgramOK, registry, program
    <3>7. CASE Pause
      BY <3>7 DEF Pause, TypeOK, IdsOK, InfoOK, TablesOK, EngineOK, ProgramOK, registry, program
    <3>8. ASSUME NEW f \in Fibers, SwitchFiber(f)
          PROVE  TypeOK'
      BY <3>8 DEF SwitchFiber, TypeOK, IdsOK, InfoOK, TablesOK, EngineOK, ProgramOK, registry
    <3> QED BY <2>2, <3>1, <3>2, <3>3, <3>4, <3>5, <3>6, <3>7, <3>8 DEF ProgramNext
  <2>3. CASE UNCHANGED vars
    BY <2>3 DEF vars, registry, program, TypeOK, IdsOK, InfoOK, TablesOK, EngineOK, ProgramOK
  <2> QED BY <2>1, <2>2, <2>3 DEF Next
<1> QED BY <1>1, <1>2, PTL DEF Spec

\* What a step of the program does to the registry: the ids and the keys stay.
LEMMA ProgramKeepsKeys ==
  ASSUME ProgramNext
  PROVE  UNCHANGED <<breakpoint_count, breakpoint_list, line_breakpoints,
                     function_breakpoints, exception_breakpoints>>
BY DEF ProgramNext, StatementBreak, StatementStep, StatementLine, Call, Return, Throw, Compile,
       XdebugBreak, Pause, SwitchFiber, Crash, registry

\* For a call or return breakpoint, the key of its id is in the hash and holds it.
KeyHolds(d) ==
  LET a == breakpoint_list[d]
  IN  a.type \in FunctionTypes =>
        /\ <<a.type, a.where>> \in DOMAIN function_breakpoints
        /\ function_breakpoints[<<a.type, a.where>>] = d
KeysHold == \A d \in DOMAIN breakpoint_list : KeyHolds(d)

\* breakpoint_admin_add: the new id is none of the old ones.
LEMMA AdminAddKeeps ==
  ASSUME IdsOK, NEW type, NEW place, NEW n, AdminAdd(type, place, n)
  PROVE  /\ DOMAIN breakpoint_list' = DOMAIN breakpoint_list \cup {breakpoint_count'}
         /\ \A d \in DOMAIN breakpoint_list :
              d # breakpoint_count' /\ breakpoint_list'[d] = breakpoint_list[d]
         /\ breakpoint_list'[breakpoint_count'].type = type
         /\ breakpoint_list'[breakpoint_count'].where = place
BY DEF AdminAdd, With, IdsOK

\* breakpoint_set refuses a key that is taken, and breakpoint_remove takes the
\* id and the key away together.
THEOREM KeysCorrect == Spec => []KeysHold
<1>1. Init => KeysHold
  BY DEF Init, KeysHold
<1>2. ASSUME TypeOK, KeysHold, [Next]_vars
      PROVE  KeysHold'
  <2>1. IdsOK
    BY <1>2 DEF TypeOK
  <2>2. \A d \in DOMAIN breakpoint_list : KeyHolds(d)
    BY <1>2 DEF KeysHold
  <2>3. ASSUME UNCHANGED <<breakpoint_list, function_breakpoints>>
        PROVE  KeysHold'
    BY <2>2, <2>3 DEF KeysHold, KeyHolds
  <2>4. ASSUME NEW type, NEW place, NEW n, AdminAdd(type, place, n), type \notin FunctionTypes,
               function_breakpoints' = function_breakpoints
        PROVE  KeysHold'
    <3>1. ASSUME NEW d \in DOMAIN breakpoint_list' PROVE KeyHolds(d)'
      <4>1. CASE d = breakpoint_count'
        BY <2>1, <2>4, <4>1, AdminAddKeeps DEF KeyHolds
      <4>2. CASE d \in DOMAIN breakpoint_list
        BY <2>1, <2>2, <2>4, <4>2, AdminAddKeeps DEF KeyHolds
      <4> QED BY <2>1, <2>4, <4>1, <4>2, AdminAddKeeps
    <3> QED BY <3>1 DEF KeysHold
  <2>5. ASSUME NEW o, NEW f, NEW n, SetLine(f, n, o) PROVE KeysHold'
    BY <2>4, <2>5 DEF SetLine, FunctionTypes
  <2>6. ASSUME NEW o, NEW x, SetException(x, o) PROVE KeysHold'
    BY <2>4, <2>6 DEF SetException, FunctionTypes
  <2>7. ASSUME NEW o, NEW type \in FunctionTypes, NEW f, SetFunction(type, f, o)
        PROVE  KeysHold'
    <3>1. /\ AdminAdd(type, f, 0)
          /\ <<type, f>> \notin DOMAIN function_breakpoints
          /\ function_breakpoints' = With(function_breakpoints, <<type, f>>, breakpoint_count')
      BY <2>7 DEF SetFunction
    <3>2. /\ DOMAIN function_breakpoints' = DOMAIN function_breakpoints \cup {<<type, f>>}
          /\ function_breakpoints'[<<type, f>>] = breakpoint_count'
          /\ \A k \in DOMAIN function_breakpoints : function_breakpoints'[k] = function_breakpoints[k]
      BY <3>1 DEF With
    <3>3. ASSUME NEW d \in DOMAIN breakpoint_list' PROVE KeyHolds(d)'
      <4>1. CASE d = breakpoint_count'
        BY <2>1, <3>1, <3>2, <4>1, AdminAddKeeps DEF KeyHolds
      <4>2. CASE d \in DOMAIN breakpoint_list
        BY <2>1, <2>2, <3>1, <3>2, <4>2, AdminAddKeeps DEF KeyHolds
      <4> QED BY <2>1, <3>1, <4>1, <4>2, AdminAddKeeps
    <3> QED BY <3>3 DEF KeysHold
  <2>8. ASSUME NEW d \in DOMAIN breakpoint_list, BreakpointRemove(d)
        PROVE  KeysHold'
    <3> DEFINE a == breakpoint_list[d]
               F == IF a.type \in FunctionTypes THEN {<<a.type, a.where>>} ELSE {}
    <3>1. CASE Fetch(a) = None
      BY <2>3, <2>8, <3>1 DEF BreakpointRemove, Crash, registry
    <3>2. CASE Fetch(a) # None
      <4>1. /\ breakpoint_list' = Without(breakpoint_list, {d})
            /\ function_breakpoints' = Without(function_breakpoints, F)
        BY <2>8, <3>2 DEF BreakpointRemove
      <4>2. /\ DOMAIN breakpoint_list' = DOMAIN breakpoint_list \ {d}
            /\ \A e \in DOMAIN breakpoint_list' : breakpoint_list'[e] = breakpoint_list[e]
        BY <4>1 DEF Without
      <4>3. /\ DOMAIN function_breakpoints' = DOMAIN function_breakpoints \ F
            /\ \A k \in DOMAIN function_breakpoints' : function_breakpoints'[k] = function_breakpoints[k]
        BY <4>1 DEF Without
      <4>4. ASSUME NEW e \in DOMAIN breakpoint_list \ {d}, breakpoint_list[e].type \in FunctionTypes
            PROVE  <<breakpoint_list[e].type, breakpoint_list[e].where>> \notin F
        BY <2>2, <2>8, <4>4 DEF KeyHolds
      <4> HIDE DEF F
      <4> QED BY <2>2, <4>2, <4>3, <4>4 DEF KeysHold, KeyHolds
    <3> QED BY <3>1, <3>2
  <2>9. ASSUME NEW d, NEW u, NEW step,
               BreakpointUpdate(d, u) \/ BreakpointGet(d) \/ Continue(step)
        PROVE  KeysHold'
    BY <2>3, <2>9 DEF BreakpointUpdate, BreakpointGet, Continue, Crash, registry
  <2>10. CASE ClientNext
    BY <2>5, <2>6, <2>7, <2>8, <2>9, <2>10 DEF ClientNext
  <2>11. CASE ProgramNext
    BY <2>3, <2>11, ProgramKeepsKeys
  <2>12. CASE UNCHANGED vars
    BY <2>3, <2>12 DEF vars, registry
  <2> QED BY <1>2, <2>10, <2>11, <2>12 DEF Next
<1> QED BY <1>1, <1>2, TypeCorrect, PTL DEF Spec

\* Whatever the client sends, even updates that move breakpoints and exceptions
\* that are set twice, the id of a call or return breakpoint leads to the
\* breakpoint it was given to.
THEOREM FunctionIdsCorrect == Spec => []FunctionIdsFindTheirOwn
<1>1. TypeOK /\ KeysHold => FunctionIdsFindTheirOwn
  <2> SUFFICES ASSUME TypeOK, KeysHold, NEW d \in DOMAIN breakpoint_list,
                      breakpoint_list[d].type \in FunctionTypes
               PROVE  Fetch(breakpoint_list[d]) = d
    BY DEF FunctionIdsFindTheirOwn
  <2>1. breakpoint_list[d].type # "line"
    BY DEF FunctionTypes
  <2> QED BY <2>1 DEF Fetch, KeysHold, KeyHolds
<1> QED BY <1>1, TypeCorrect, KeysCorrect, PTL

\* A function breakpoint that was remembered for the first statement of the
\* function is forgotten whenever that break is taken: it is never reported
\* as the reason of a later break.
THEOREM PendingCorrect == Spec => []PendingMeansBreak
<1>1. Init => PendingMeansBreak
  BY DEF Init, PendingMeansBreak
<1>2. ASSUME PendingMeansBreak, [Next]_vars
      PROVE  PendingMeansBreak'
  <2>1. CASE UNCHANGED <<do_break, pending_breakpoint>>
    BY <1>2, <2>1 DEF PendingMeansBreak
  <2>2. ASSUME NEW type, NEW f, FunctionBreak(type, f)
        PROVE  PendingMeansBreak'
    BY <1>2, <2>2 DEF FunctionBreak, PendingMeansBreak
  <2>3. CASE ClientNext
    <3>1. UNCHANGED <<do_break, pending_breakpoint>>
      BY <2>3 DEF ClientNext, SetLine, SetFunction, SetException, BreakpointUpdate,
                  BreakpointRemove, BreakpointGet, Continue, Crash, Session
    <3> QED BY <2>1, <3>1
  <2>4. CASE ProgramNext
    <3>1. ASSUME NEW n, NEW truths,
                 StatementBreak(n) \/ StatementStep(n) \/ StatementLine(n, truths)
          PROVE  PendingMeansBreak'
      BY <1>2, <3>1 DEF StatementBreak, StatementStep, StatementLine, PendingMeansBreak
    <3>2. ASSUME NEW f, Call(f)
          PROVE  PendingMeansBreak'
      BY <2>2, <3>2 DEF Call
    <3>3. CASE Return
      BY <2>2, <3>3 DEF Return
    <3>4. ASSUME NEW x, NEW f, Throw(x) \/ Compile(f) \/ SwitchFiber(f)
          PROVE  PendingMeansBreak'
      BY <2>1, <3>4 DEF Throw, Compile, SwitchFiber, Crash
    <3>5. CASE XdebugBreak \/ Pause
      BY <3>5 DEF XdebugBreak, Pause, PendingMeansBreak
    <3> QED BY <2>4, <3>1, <3>2, <3>3, <3>4, <3>5 DEF ProgramNext
  <2>5. CASE UNCHANGED vars
    BY <2>1, <2>5 DEF vars
  <2> QED BY <1>2, <2>3, <2>4, <2>5 DEF Next
<1> QED BY <1>1, <1>2, PTL DEF Spec

\* Only a breakpoint that is enabled is hit, exception breakpoints aside, and
\* the hit disables it when it is temporary; no command counts a hit.
Silent(d) ==
  info'[d].hit_count > info[d].hit_count /\ info[d].brk_type # "exception" =>
    /\ ~info[d].disabled
    /\ info[d].temporary => info'[d].disabled

\* A breakpoint that is not hit, or that is enabled, is in order.
LEMMA HitIsSilent ==
  ASSUME InfoOK, NEW S, Hit(S), NEW d \in DOMAIN info,
         d \in S => ~info[d].disabled \/ info[d].brk_type = "exception"
  PROVE  Silent(d)
<1>1. info[d] \in Info
  BY DEF InfoOK
<1>2. info'[d] = IF d \in S THEN AfterHit(info[d]) ELSE info[d]
  BY DEF Hit
<1>3. CASE d \notin S
  BY <1>1, <1>2, <1>3 DEF Silent, Info
<1>4. CASE d \in S
  <2>1. info'[d].disabled = (info[d].disabled \/ info[d].temporary)
    BY <1>1, <1>2, <1>4 DEF AfterHit, Info
  <2> QED BY <2>1, <1>4 DEF Silent
<1> QED BY <1>3, <1>4

\* xdebug_dbgp_break_on_line and handle_function_breakpoints test the disabled
\* flag, and a hit sets it for a temporary breakpoint.
THEOREM DisabledSilentCorrect == Spec => DisabledStaysSilent
<1>1. ASSUME TypeOK, [Next]_vars, NEW d \in DOMAIN info \cap DOMAIN info'
      PROVE  Silent(d)
  <2>1. /\ IdsOK /\ InfoOK /\ TablesOK
        /\ info[d] \in Info /\ info[d].hit_count \in Nat
    BY <1>1 DEF TypeOK, InfoOK, Info
  <2>2. ASSUME info'[d].hit_count = info[d].hit_count PROVE Silent(d)
    BY <2>1, <2>2 DEF Silent
  <2>3. ASSUME UNCHANGED info PROVE Silent(d)
    BY <2>2, <2>3
  <2>4. ASSUME NEW type, NEW place, NEW n, NEW b, NEW freed, AdminAdd(type, place, n),
               info' = With(Without(info, freed), breakpoint_count', b)
        PROVE  Silent(d)
    <3>1. d # breakpoint_count'
      BY <2>1, <2>4 DEF AdminAdd, IdsOK, InfoOK
    <3>2. info'[d] = info[d]
      BY <1>1, <2>4, <3>1 DEF With, Without
    <3> QED BY <2>2, <3>2
  <2>5. ASSUME NEW type, NEW place, NEW n, NEW b, AdminAdd(type, place, n),
               info' = With(info, breakpoint_count', b)
        PROVE  Silent(d)
    <3>1. d # breakpoint_count'
      BY <2>1, <2>5 DEF AdminAdd, IdsOK, InfoOK
    <3>2. info'[d] = info[d]
      BY <1>1, <2>5, <3>1 DEF With
    <3> QED BY <2>2, <3>2
  <2>6. ASSUME NEW type, NEW f, FunctionBreak(type, f) PROVE Silent(d)
    <3> DEFINE k == function_breakpoints[<<type, f>>]
    <3>1. CASE UNCHANGED info
      BY <2>3, <3>1
    <3>2. CASE Hit({k}) /\ ~info[k].disabled
      BY <2>1, <3>2, HitIsSilent
    <3> QED BY <2>6, <3>1, <3>2 DEF FunctionBreak
  <2>7. CASE ClientNext
    <3>1. ASSUME NEW o, NEW f, NEW n, SetLine(f, n, o) PROVE Silent(d)
      BY <2>5, <3>1 DEF SetLine
    <3>2. ASSUME NEW o, NEW type, NEW f, SetFunction(type, f, o) PROVE Silent(d)
      BY <2>5, <3>2 DEF SetFunction
    <3>3. ASSUME NEW o, NEW x, SetException(x, o) PROVE Silent(d)
      BY <2>4, <3>3 DEF SetException
    <3>4. ASSUME NEW e, NEW u \in Updates, BreakpointUpdate(e, u) PROVE Silent(d)
      <4>1. UNCHANGED info \/ info'[d] \in {info[d], Updated(info[d], u)}
        BY <3>4 DEF BreakpointUpdate, Crash, registry
      <4>2. Updated(info[d], u).hit_count = info[d].hit_count
        BY <2>1 DEF Updated, Info
      <4> QED BY <2>2, <2>3, <4>1, <4>2
    <3>5. ASSUME NEW e, BreakpointRemove(e) PROVE Silent(d)
      <4>1. UNCHANGED info \/ \E freed : info' = Without(info, freed)
        BY <3>5 DEF BreakpointRemove, Crash, registry
      <4> QED BY <1>1, <2>2, <2>3, <4>1 DEF Without
    <3>6. ASSUME NEW e, NEW step, BreakpointGet(e) \/ Continue(step) PROVE Silent(d)
      BY <2>3, <3>6 DEF BreakpointGet, Continue, Crash, registry
    <3> QED BY <2>7, <3>1, <3>2, <3>3, <3>4, <3>5, <3>6 DEF ClientNext
  <2>8. CASE ProgramNext
    <3>1. ASSUME NEW n, NEW truths, StatementLine(n, truths) PROVE Silent(d)
      <4>1. PICK S : Hit(S) /\ S \subseteq BreakOnLine(n)
        BY <3>1 DEF StatementLine
      <4>2. d \in S => ~info[d].disabled
        BY <4>1 DEF BreakOnLine
      <4> QED BY <2>1, <4>1, <4>2, HitIsSilent
    <3>2. ASSUME NEW n, StatementBreak(n) \/ StatementStep(n) PROVE Silent(d)
      BY <2>3, <3>2 DEF StatementBreak, StatementStep, registry
    <3>3. ASSUME NEW f, Call(f) PROVE Silent(d)
      BY <2>6, <3>3 DEF Call
    <3>4. CASE Return
      BY <2>6, <3>4 DEF Return
    <3>5. ASSUME NEW x, Throw(x) PROVE Silent(d)
      <4>1. PICK y \in DOMAIN exception_breakpoints : Hit({exception_breakpoints[y]})
        BY <3>5 DEF Throw
      <4>2. d \in {exception_breakpoints[y]} => info[d].brk_type = "exception"
        BY <2>1, <4>1 DEF TablesOK
      <4> QED BY <2>1, <4>1, <4>2, HitIsSilent
    <3>6. ASSUME NEW f, Compile(f) PROVE Silent(d)
      <4>1. UNCHANGED info \/ info'[d] \in {info[d], Resolve(info[d])}
        BY <3>6 DEF Compile, Crash, registry
      <4>2. Resolve(info[d]).hit_count = info[d].hit_count
        BY <2>1 DEF Resolve, Info
      <4> QED BY <2>2, <2>3, <4>1, <4>2
    <3>7. ASSUME NEW f, XdebugBreak \/ Pause \/ SwitchFiber(f) PROVE Silent(d)
      BY <2>3, <3>7 DEF XdebugBreak, Pause, SwitchFiber, registry
    <3> QED BY <2>8, <3>1, <3>2, <3>3, <3>4, <3>5, <3>6, <3>7 DEF ProgramNext
  <2>9. CASE UNCHANGED vars
    BY <2>3, <2>9 DEF vars, registry
  <2> QED BY <1>1, <2>7, <2>8, <2>9 DEF Next
<1>2. ASSUME TypeOK, [Next]_vars
      PROVE  [\A d \in DOMAIN info \cap DOMAIN info' :
                info'[d].hit_count > info[d].hit_count /\ info[d].brk_type # "exception" =>
                  /\ ~info[d].disabled
                  /\ info[d].temporary => info'[d].disabled]_vars
  BY <1>1, <1>2 DEF Silent
<1> QED BY <1>2, TypeCorrect, PTL DEF Spec, DisabledStaysSilent
-----------------------------------------------------------------------------
(* What a client gets that leaves the line of its breakpoints alone, sets no   *)
(* exception breakpoint twice, and debugs files none of whose names begins     *)
(* another's.                                                                  *)

TameClient ==
  /\ ~RepeatsExceptions
  /\ \A u \in Updates : u.n = None
  /\ \A f, g \in Files : <<f, g>> \in PrefixOf => f = g

\* The entry of an id says what and where its breakpoint is.
EntryIsTrue(d) ==
  LET a == breakpoint_list[d]
  IN  /\ info[d].brk_type = a.type /\ info[d].where = a.where
      /\ a.type = "line" => info[d].original_lineno = a.line
      /\ a.type = "exception" => /\ a.where \in DOMAIN exception_breakpoints
                                 /\ exception_breakpoints[a.where] = d
NoTwins ==
  \A d, e \in DOMAIN breakpoint_list :
    breakpoint_list[d].type = "line" /\ breakpoint_list[d] = breakpoint_list[e] => d = e
OwnEntries ==
  /\ DOMAIN breakpoint_list = DOMAIN info
  /\ \A d \in DOMAIN breakpoint_list : EntryIsTrue(d)
  /\ NoTwins

\* The search by key then ends where it should, for every type of breakpoint.
LEMMA FetchIsOwn ==
  ASSUME TameClient, TypeOK, KeysHold, OwnEntries, NEW d \in DOMAIN breakpoint_list
  PROVE  /\ Fetch(breakpoint_list[d]) = d
         /\ breakpoint_list[d].type = "line" => AtKey(breakpoint_list[d]) = {d}
<1> DEFINE a == breakpoint_list[d]
<1>1. a \in Admin /\ EntryIsTrue(d) /\ d \in DOMAIN info /\ d \in Nat
  BY DEF TypeOK, IdsOK, OwnEntries
<1>2. CASE a.type = "line"
  <2>1. d \in AtKey(a)
    <3>1. d \in line_breakpoints /\ info[d].where = a.where /\ info[d].original_lineno = a.line
      BY <1>1, <1>2 DEF EntryIsTrue, TypeOK, TablesOK
    <3>2. <<a.where, a.where>> \in PrefixOf
      BY <3>1, CodeAssumption DEF TypeOK, TablesOK
    <3> QED BY <3>1, <3>2 DEF AtKey
  <2>2. ASSUME NEW e \in AtKey(a) PROVE e = d
    <3>1. /\ e \in DOMAIN breakpoint_list /\ info[e].brk_type = "line"
          /\ info[e].where \in Files /\ a.where \in Files
          /\ info[e].original_lineno = a.line /\ <<info[e].where, a.where>> \in PrefixOf
      <4>1. e \in line_breakpoints /\ d \in line_breakpoints
        BY <2>1, <2>2 DEF AtKey
      <4> QED BY <1>1, <2>2, <4>1 DEF AtKey, TypeOK, TablesOK, OwnEntries, EntryIsTrue
    <3>2. info[e].where = a.where
      BY <3>1 DEF TameClient
    <3>3. EntryIsTrue(e) /\ breakpoint_list[e] \in Admin
      BY <3>1 DEF OwnEntries, TypeOK, IdsOK
    <3>4. /\ breakpoint_list[e].type = a.type /\ breakpoint_list[e].where = a.where
          /\ breakpoint_list[e].line = a.line
      BY <1>2, <3>1, <3>2, <3>3 DEF EntryIsTrue
    <3>5. breakpoint_list[e] = a
      BY <1>1, <3>3, <3>4 DEF Admin
    <3> QED BY <1>2, <3>1, <3>5 DEF OwnEntries, NoTwins
  <2>3. AtKey(a) = {d}
    BY <2>1, <2>2
  <2>4. Before({d}) = d
    BY <1>1, BeforeIsOne
  <2>5. Fetch(a) = Before(AtKey(a))
    <3>1. AtKey(a) # {}
      BY <2>1
    <3> QED BY <1>2, <3>1 DEF Fetch, FunctionTypes
  <2> HIDE DEF a
  <2>6. Fetch(a) = d /\ AtKey(a) = {d}
    BY <2>3, <2>4, <2>5
  <2> QED BY <2>6 DEF a
<1>3. CASE a.type \in FunctionTypes
  BY <1>3 DEF Fetch, KeysHold, KeyHolds, FunctionTypes
<1>4. CASE a.type = "exception"
  BY <1>1, <1>4 DEF Fetch, EntryIsTrue, FunctionTypes
<1> QED BY <1>1, <1>2, <1>3, <1>4 DEF Admin, Types

\* A step that keeps every breakpoint where it is keeps the entries true.
LEMMA OwnEntriesKept ==
  ASSUME OwnEntries,
         UNCHANGED <<breakpoint_list, exception_breakpoints>>,
         DOMAIN info' = DOMAIN info,
         \A d \in DOMAIN info :
           Same(info'[d], info[d]) /\ info'[d].original_lineno = info[d].original_lineno
  PROVE  OwnEntries'
BY DEF OwnEntries, NoTwins, EntryIsTrue, Same

\* breakpoint_set -t line refuses a second id for a line that has one;
\* breakpoint_remove gives up an id and its breakpoint together.
THEOREM EntriesCorrect ==
  ASSUME TameClient
  PROVE  Spec => []OwnEntries
<1>1. Init => OwnEntries
  BY DEF Init, OwnEntries, NoTwins
<1>2. ASSUME TypeOK, KeysHold, OwnEntries, [Next]_vars
      PROVE  OwnEntries'
  <2>1. /\ IdsOK /\ InfoOK /\ TablesOK
        /\ DOMAIN breakpoint_list = DOMAIN info
        /\ \A d \in DOMAIN breakpoint_list : EntryIsTrue(d) /\ info[d] \in Info
    BY <1>2 DEF TypeOK, InfoOK, OwnEntries
  <2>2. ASSUME UNCHANGED <<breakpoint_list, info, exception_breakpoints>>
        PROVE  OwnEntries'
    BY <1>2, <2>2 DEF OwnEntries, NoTwins, EntryIsTrue
  <2>3. ASSUME NEW S, Hit(S), UNCHANGED <<breakpoint_list, exception_breakpoints>>
        PROVE  OwnEntries'
    <3>1. ASSUME NEW d \in DOMAIN info
          PROVE  Same(info'[d], info[d]) /\ info'[d].original_lineno = info[d].original_lineno
      <4>1. info'[d] \in {info[d], AfterHit(info[d])}
        BY <2>3 DEF Hit
      <4> QED BY <2>1, <4>1, AfterHitType DEF Same
    <3>2. DOMAIN info' = DOMAIN info
      BY <2>3 DEF Hit
    <3> QED BY <1>2, <2>3, <3>1, <3>2, OwnEntriesKept
  <2>4. ASSUME NEW type, NEW place, NEW n, AdminAdd(type, place, n),
               NEW b, DOMAIN info' = DOMAIN info \cup {breakpoint_count'},
               \A d \in DOMAIN info \cup {breakpoint_count'} :
                 info'[d] = IF d = breakpoint_count' THEN b ELSE info[d],
               b.brk_type = type, b.where = place,
               type = "line" => b.original_lineno = n,
               type = "line" => \A d \in DOMAIN breakpoint_list :
                 breakpoint_list[d] # [type |-> type, where |-> place, line |-> n],
               IF type = "exception"
               THEN /\ place \notin DOMAIN exception_breakpoints
                    /\ exception_breakpoints' = With(exception_breakpoints, place, breakpoint_count')
               ELSE exception_breakpoints' = exception_breakpoints
        PROVE  OwnEntries'
    <3>0. PICK id : id = breakpoint_count'
      OBVIOUS
    <3>1. /\ DOMAIN breakpoint_list' = DOMAIN breakpoint_list \cup {id}
          /\ DOMAIN info' = DOMAIN info \cup {id}
          /\ info'[id] = b /\ breakpoint_list'[id] = [type |-> type, where |-> place, line |-> n]
          /\ \A d \in DOMAIN breakpoint_list :
               d # id /\ breakpoint_list'[d] = breakpoint_list[d] /\ info'[d] = info[d]
      BY <2>1, <2>4, <3>0 DEF AdminAdd, With, IdsOK
    <3>2. ASSUME NEW x \in DOMAIN exception_breakpoints
          PROVE  /\ x \in DOMAIN exception_breakpoints'
                 /\ exception_breakpoints'[x] = exception_breakpoints[x]
      BY <2>4 DEF With
    <3>3. type = "exception" => /\ place \in DOMAIN exception_breakpoints'
                                /\ exception_breakpoints'[place] = id
      BY <2>4, <3>0 DEF With
    <3>4. EntryIsTrue(id)'
      BY <2>4, <3>1, <3>3 DEF EntryIsTrue
    <3>5. ASSUME NEW d \in DOMAIN breakpoint_list PROVE EntryIsTrue(d)'
      BY <2>1, <3>1, <3>2 DEF EntryIsTrue
    <3>6. NoTwins'
      <4>1. ASSUME NEW d \in DOMAIN breakpoint_list, breakpoint_list[d].type = "line"
            PROVE  breakpoint_list'[d] # breakpoint_list'[id]
        <5>1. CASE type = "line"
          BY <2>4, <3>1, <5>1
        <5>2. CASE type # "line"
          BY <3>1, <4>1, <5>2
        <5> QED BY <5>1, <5>2
      <4>2. \A d, e \in DOMAIN breakpoint_list :
              breakpoint_list'[d].type = "line" /\ breakpoint_list'[d] = breakpoint_list'[e] => d = e
        BY <1>2, <3>1 DEF OwnEntries, NoTwins
      <4>3. ASSUME NEW d \in DOMAIN breakpoint_list, breakpoint_list'[id].type = "line"
            PROVE  breakpoint_list'[d] # breakpoint_list'[id]
        BY <3>1, <4>1, <4>3
      <4> QED BY <3>1, <4>1, <4>2, <4>3 DEF NoTwins
    <3> QED BY <2>1, <3>1, <3>4, <3>5, <3>6 DEF OwnEntries
  <2>5. ASSUME NEW o \in SetOptions, NEW f \in Files, NEW n \in SetLines, SetLine(f, n, o)
        PROVE  OwnEntries'
    <3> DEFINE b == NewInfo("line", f, n, o)
               c == IF resolved_breakpoints /\ f \in compiled THEN Resolve(b) ELSE b
    <3>1. n \in Nat /\ n \in ClientLines /\ f \in Places /\ "line" \in Types
      BY ClientAssumption, NoneAssumption DEF ClientLines, Places, Types
    <3>2. b \in Info /\ b.brk_type = "line" /\ b.where = f /\ b.original_lineno = n
      BY <3>1, NewInfoType
    <3>3. /\ AdminAdd("line", f, n) /\ info' = With(info, breakpoint_count', c)
          /\ \A d \in DOMAIN breakpoint_list :
               breakpoint_list[d] # [type |-> "line", where |-> f, line |-> n]
          /\ exception_breakpoints' = exception_breakpoints
      BY <2>5 DEF SetLine
    <3> HIDE DEF b
    <3>4. c.brk_type = "line" /\ c.where = f /\ c.original_lineno = n
      BY <3>1, <3>2, ResolveType DEF Same
    <3> HIDE DEF c
    <3>5. /\ DOMAIN info' = DOMAIN info \cup {breakpoint_count'}
          /\ \A d \in DOMAIN info \cup {breakpoint_count'} :
               info'[d] = IF d = breakpoint_count' THEN c ELSE info[d]
      BY <3>3 DEF With
    <3> QED BY <2>4, <3>3, <3>4, <3>5
  <2>6. ASSUME NEW o, NEW type \in FunctionTypes, NEW f, SetFunction(type, f, o)
        PROVE  OwnEntries'
    <3> DEFINE b == NewInfo(type, f, 0, o)
    <3>1. b.brk_type = type /\ b.where = f /\ type # "line" /\ type # "exception"
      BY DEF NewInfo, FunctionTypes
    <3>2. /\ AdminAdd(type, f, 0) /\ info' = With(info, breakpoint_count', b)
          /\ exception_breakpoints' = exception_breakpoints
      BY <2>6 DEF SetFunction
    <3> HIDE DEF b
    <3>3. /\ DOMAIN info' = DOMAIN info \cup {breakpoint_count'}
          /\ \A d \in DOMAIN info \cup {breakpoint_count'} :
               info'[d] = IF d = breakpoint_count' THEN b ELSE info[d]
      BY <3>2 DEF With
    <3> QED BY <2>4, <3>1, <3>2, <3>3
  <2>7. ASSUME NEW o, NEW x, SetException(x, o) PROVE OwnEntries'
    <3> DEFINE b == NewInfo("exception", x, 0, o)
               held == {exception_breakpoints[y] : y \in DOMAIN exception_breakpoints \cap {x}}
    <3>1. b.brk_type = "exception" /\ b.where = x
      BY DEF NewInfo
    <3>2. /\ AdminAdd("exception", x, 0) /\ held = {}
          /\ info' = With(Without(info, held), breakpoint_count', b)
          /\ exception_breakpoints' = With(exception_breakpoints, x, breakpoint_count')
      BY <2>7 DEF SetException, TameClient
    <3>3. x \notin DOMAIN exception_breakpoints
      BY <3>2
    <3> HIDE DEF b, held
    <3>4. /\ DOMAIN info' = DOMAIN info \cup {breakpoint_count'}
          /\ \A d \in DOMAIN info \cup {breakpoint_count'} :
               info'[d] = IF d = breakpoint_count' THEN b ELSE info[d]
      BY <3>2 DEF With, Without
    <3> QED BY <2>4, <3>1, <3>2, <3>3, <3>4
  <2>8. ASSUME NEW d \in DOMAIN breakpoint_list, NEW u \in Updates, BreakpointUpdate(d, u)
        PROVE  OwnEntries'
    <3>1. Fetch(breakpoint_list[d]) = d /\ d # None
      BY <1>2, <2>1, FetchIsOwn, NoneAssumption DEF IdsOK
    <3>2. /\ info' = [info EXCEPT ![d] = Updated(@, u)]
          /\ UNCHANGED <<breakpoint_list, exception_breakpoints>>
      BY <2>8, <3>1 DEF BreakpointUpdate
    <3>3. /\ Same(Updated(info[d], u), info[d])
          /\ Updated(info[d], u).original_lineno = info[d].original_lineno
      <4>1. info[d] \in Info /\ u.n = None
        BY <2>1 DEF TameClient
      <4>2. Same(Updated(info[d], u), info[d])
        BY <4>1, UpdatedType
      <4>3. Updated(info[d], u).original_lineno = info[d].original_lineno
        BY <4>1 DEF Updated, Info
      <4> QED BY <4>2, <4>3
    <3>4. \A e \in DOMAIN info :
            Same(info'[e], info[e]) /\ info'[e].original_lineno = info[e].original_lineno
      BY <3>2, <3>3 DEF Same
    <3>5. DOMAIN info' = DOMAIN info
      BY <3>2
    <3> QED BY <1>2, <3>2, <3>4, <3>5, OwnEntriesKept
  <2>9. ASSUME NEW d \in DOMAIN breakpoint_list, BreakpointRemove(d)
        PROVE  OwnEntries'
    <3> DEFINE a == breakpoint_list[d]
               X == IF a.type = "exception" THEN {a.where} ELSE {}
    <3>1. /\ Fetch(a) = d /\ d # None
          /\ a.type = "line" => AtKey(a) = {d}
      BY <1>2, <2>1, FetchIsOwn, NoneAssumption DEF IdsOK
    <3>2. Before({d}) = d
      BY <2>1, BeforeIsOne DEF IdsOK
    <3>3. /\ breakpoint_list' = Without(breakpoint_list, {d})
          /\ info' = Without(info, {d})
          /\ exception_breakpoints' = Without(exception_breakpoints, X)
      BY <2>9, <3>1, <3>2 DEF BreakpointRemove
    <3>4. /\ DOMAIN breakpoint_list' = DOMAIN breakpoint_list \ {d}
          /\ DOMAIN info' = DOMAIN info \ {d}
          /\ \A e \in DOMAIN breakpoint_list \ {d} :
               breakpoint_list'[e] = breakpoint_list[e] /\ info'[e] = info[e]
      BY <2>1, <3>3 DEF Without
    <3>5. ASSUME NEW e \in DOMAIN breakpoint_list \ {d} PROVE EntryIsTrue(e)'
      <4>1. EntryIsTrue(e)
        BY <2>1
      <4>2. breakpoint_list[e].type = "exception" => breakpoint_list[e].where \notin X
        BY <2>1, <2>9, <4>1 DEF EntryIsTrue
      <4> HIDE DEF X
      <4>3. \A x \in DOMAIN exception_breakpoints \ X :
              x \in DOMAIN exception_breakpoints' /\ exception_breakpoints'[x] = exception_breakpoints[x]
        BY <3>3 DEF Without
      <4> QED BY <3>4, <4>1, <4>2, <4>3 DEF EntryIsTrue
    <3>6. NoTwins'
      BY <1>2, <3>4 DEF OwnEntries, NoTwins
    <3> QED BY <2>1, <3>4, <3>5, <3>6 DEF OwnEntries
  <2>10. CASE ClientNext
    <3>1. ASSUME NEW d, NEW step, BreakpointGet(d) \/ Continue(step)
          PROVE  OwnEntries'
      BY <2>2, <3>1 DEF BreakpointGet, Continue, Crash, registry
    <3> QED BY <2>5, <2>6, <2>7, <2>8, <2>9, <2>10, <3>1 DEF ClientNext
  <2>11. CASE ProgramNext
    <3>1. UNCHANGED <<breakpoint_list, exception_breakpoints>>
      BY <2>11, ProgramKeepsKeys
    <3>2. ASSUME NEW f, Compile(f) PROVE OwnEntries'
      <4>1. CASE UNCHANGED info
        BY <2>2, <3>1, <4>1
      <4>2. CASE info' = [d \in DOMAIN info |-> info'[d]]
                 /\ \A d \in DOMAIN info :
                      \/ info'[d] = info[d]
                      \/ info[d].brk_type = "line" /\ info'[d] = Resolve(info[d])
        <5>1. ASSUME NEW d \in DOMAIN info
              PROVE  Same(info'[d], info[d]) /\ info'[d].original_lineno = info[d].original_lineno
          <6>1. info[d].brk_type = "line" =>
                  info[d].where \in Files /\ info[d].original_lineno \in ClientLines
            BY <2>1 DEF TablesOK
          <6> QED BY <2>1, <4>2, <6>1, ResolveType DEF Same
        <5>2. DOMAIN info' = DOMAIN info
          BY <4>2
        <5> QED BY <1>2, <3>1, <5>1, <5>2, OwnEntriesKept
      <4> QED BY <3>2, <4>1, <4>2 DEF Compile, Crash, registry
    <3>3. ASSUME NEW type, NEW f, FunctionBreak(type, f) PROVE OwnEntries'
      BY <2>2, <2>3, <3>1, <3>3 DEF FunctionBreak
    <3>4. UNCHANGED info \/ (\E S : Hit(S)) \/ (\E f : Compile(f))
          \/ (\E type, f : FunctionBreak(type, f))
      BY <2>11 DEF ProgramNext, StatementBreak, StatementStep, StatementLine, Call, Return,
                   Throw, XdebugBreak, Pause, SwitchFiber, registry
    <3> QED BY <2>2, <2>3, <3>1, <3>2, <3>3, <3>4
  <2>12. CASE UNCHANGED vars
    BY <2>2, <2>12 DEF vars, registry
  <2> QED BY <1>2, <2>10, <2>11, <2>12 DEF Next
<1> QED BY <1>1, <1>2, TypeCorrect, KeysCorrect, PTL DEF Spec

\* An id that a client got for a breakpoint leads to that breakpoint for as
\* long as it exists, for every type of breakpoint.
THEOREM IdsCorrect ==
  ASSUME TameClient
  PROVE  Spec => []EveryIdFindsItsOwn
<1>1. TypeOK /\ KeysHold /\ OwnEntries => EveryIdFindsItsOwn
  BY FetchIsOwn DEF EveryIdFindsItsOwn
<1> QED BY <1>1, TypeCorrect, KeysCorrect, EntriesCorrect, PTL

\* And no breakpoint outlives its id.
THEOREM NoOrphansCorrect ==
  ASSUME TameClient
  PROVE  Spec => []EveryBreakpointHasAnId
<1>1. OwnEntries => EveryBreakpointHasAnId
  BY DEF OwnEntries, EveryBreakpointHasAnId
<1> QED BY <1>1, EntriesCorrect, PTL

\* No command and no compiled file follows a NULL xdebug_brk_info.  Describing
\* the breakpoint in a break response is another matter: the breakpoint that is
\* pending may have been removed, so it is assumed not to be asked for.
THEOREM NoCrashCorrect ==
  ASSUME TameClient, ~breakpoint_details
  PROVE  Spec => []NoCrash
<1>1. Init => NoCrash
  BY DEF Init, NoCrash
<1>2. ASSUME TypeOK, KeysHold, OwnEntries, NoCrash, [Next]_vars
      PROVE  NoCrash'
  <2>1. ASSUME NEW d \in DOMAIN breakpoint_list PROVE Fetch(breakpoint_list[d]) # None
    BY <1>2, FetchIsOwn, NoneAssumption DEF TypeOK, IdsOK
  <2>2. CASE UNCHANGED status
    BY <1>2, <2>2 DEF NoCrash
  <2>3. CASE ClientNext
    <3>1. UNCHANGED status \/ status' = "running"
      BY <2>1, <2>3 DEF ClientNext, SetLine, SetFunction, SetException, BreakpointUpdate,
                        BreakpointRemove, BreakpointGet, Continue, Session
    <3> QED BY <2>2, <3>1 DEF NoCrash
  <2>4. CASE ProgramNext
    <3>1. ASSUME NEW n, NEW truths,
                 StatementBreak(n) \/ StatementStep(n) \/ StatementLine(n, truths)
          PROVE  NoCrash'
      <4>1. status' \in {"running", "break"}
        BY <3>1 DEF StatementBreak, StatementStep, StatementLine
      <4> QED BY <4>1 DEF NoCrash
    <3>2. ASSUME NEW type, NEW f, FunctionBreak(type, f) PROVE NoCrash'
      BY <1>2, <3>2 DEF FunctionBreak, NoCrash
    <3>3. ASSUME NEW f, Call(f) PROVE NoCrash'
      BY <3>2, <3>3 DEF Call
    <3>4. CASE Return
      BY <3>2, <3>4 DEF Return
    <3>5. ASSUME NEW x, Throw(x) PROVE NoCrash'
      BY <1>2, <3>5 DEF Throw, NoCrash
    <3>6. ASSUME NEW f, Compile(f) PROVE NoCrash'
      BY <2>1, <2>2, <3>6 DEF Compile
    <3>7. ASSUME NEW f, XdebugBreak \/ Pause \/ SwitchFiber(f) PROVE NoCrash'
      BY <2>2, <3>7 DEF XdebugBreak, Pause, SwitchFiber
    <3> QED BY <2>4, <3>1, <3>3, <3>4, <3>5, <3>6, <3>7 DEF ProgramNext
  <2>5. CASE UNCHANGED vars
    BY <2>2, <2>5 DEF vars
  <2> QED BY <1>2, <2>3, <2>4, <2>5 DEF Next
<1> QED BY <1>1, <1>2, TypeCorrect, KeysCorrect, EntriesCorrect, PTL DEF Spec

\* breakpoint_update and breakpoint_remove change the breakpoint they name and
\* no other, because the search by key ends at it.
THEOREM CommandsCorrect ==
  ASSUME TameClient
  PROVE  Spec => CommandsTouchTheirOwn
<1>1. ASSUME TypeOK, KeysHold, OwnEntries, NEW d \in DOMAIN breakpoint_list,
             BreakpointRemove(d) \/ (\E u \in Updates : BreakpointUpdate(d, u))
      PROVE  \A e \in DOMAIN info \ {d} : e \in DOMAIN info' /\ info'[e] = info[e]
  <2>1. /\ Fetch(breakpoint_list[d]) = d /\ d # None /\ Before({d}) = d
        /\ breakpoint_list[d].type = "line" => AtKey(breakpoint_list[d]) = {d}
    BY <1>1, FetchIsOwn, BeforeIsOne, NoneAssumption DEF TypeOK, IdsOK
  <2>2. CASE BreakpointRemove(d)
    <3>1. info' = Without(info, {d})
      BY <2>1, <2>2 DEF BreakpointRemove
    <3> QED BY <3>1 DEF Without
  <2>3. ASSUME NEW u, BreakpointUpdate(d, u)
        PROVE  \A e \in DOMAIN info \ {d} : e \in DOMAIN info' /\ info'[e] = info[e]
    BY <2>1, <2>3 DEF BreakpointUpdate
  <2> QED BY <1>1, <2>2, <2>3
<1>2. ASSUME TypeOK, KeysHold, OwnEntries
      PROVE  [\A d \in DOMAIN breakpoint_list :
                BreakpointRemove(d) \/ (\E u \in Updates : BreakpointUpdate(d, u)) =>
                  \A e \in DOMAIN info \ {d} : e \in DOMAIN info' /\ info'[e] = info[e]]_vars
  BY <1>1, <1>2
<1> QED BY <1>2, TypeCorrect, KeysCorrect, EntriesCorrect, PTL DEF CommandsTouchTheirOwn
-----------------------------------------------------------------------------
(* FramesMarked, for a program without fibers and a client that moves no     *)
(* line: the two conditions under which marking the stack of the running     *)
(* fiber in breakpoint_set, and each function at its call, is enough.        *)

OneFiber  == Fibers = {MainFiber}
LinesStay == \A u \in Updates : u.n = None

\* Only code that is compiled has frames: this is why the resolver, which moves
\* breakpoints when a file is compiled, moves none into a frame that is there.
FramesCompiled ==
  \A f \in Fibers : \A i \in DOMAIN stack[f] :
    UserDefined(stack[f][i].function) => Code[stack[f][i].function].file \in compiled

FramesInv == TypeOK /\ FramesCompiled /\ FramesMarked

\* The place of a breakpoint, as far as marking frames looks at it.
SamePlace(b, c) == b.where = c.where /\ b.resolved_lineno = c.resolved_lineno

\* Steps that leave the frames alone and take no breakpoint elsewhere.
LEMMA MarksStay ==
  ASSUME FramesInv, UNCHANGED <<stack, compiled>>, line_breakpoints' \subseteq line_breakpoints,
         \A d \in line_breakpoints' : SamePlace(info'[d], info[d])
  PROVE  FramesCompiled' /\ FramesMarked'
<1>1. FramesCompiled'
  BY DEF FramesInv, FramesCompiled
<1>2. FramesMarked'
  BY DEF FramesInv, FramesMarked, SamePlace
<1> QED BY <1>1, <1>2

\* A hit counts; the breakpoint stays where it is.
LEMMA HitStays ==
  ASSUME FramesInv, NEW S, Hit(S)
  PROVE  \A d \in line_breakpoints : SamePlace(info'[d], info[d])
<1>1. ASSUME NEW b \in Info PROVE SamePlace(AfterHit(b), b)
  BY DEF AfterHit, SamePlace, Info
<1>2. ASSUME NEW d \in line_breakpoints PROVE SamePlace(info'[d], info[d])
  <2>1. d \in DOMAIN info /\ info[d] \in Info
    BY DEF FramesInv, TypeOK, TablesOK, InfoOK
  <2> QED BY <1>1, <2>1 DEF Hit, SamePlace
<1> QED BY <1>2

LEMMA FunctionBreakStays ==
  ASSUME FramesInv, NEW type, NEW f, FunctionBreak(type, f)
  PROVE  \A d \in line_breakpoints : SamePlace(info'[d], info[d])
<1>1. CASE info' = info
  BY <1>1 DEF SamePlace
<1>2. CASE \E d : Hit({d})
  BY <1>2, HitStays
<1> QED BY <1>1, <1>2 DEF FunctionBreak
-----------------------------------------------------------------------------
(* The client's commands. *)

\* breakpoint_set marks every frame of the only fiber.
LEMMA SetLineMarks ==
  ASSUME FramesInv, OneFiber, NEW f, NEW n, NEW o, SetLine(f, n, o)
  PROVE  FramesCompiled' /\ FramesMarked'
<1>1. /\ stack' = [stack EXCEPT ![fiber] = MarkAll(@)] /\ compiled' = compiled
  BY DEF SetLine, Session
<1>2. /\ fiber = MainFiber /\ stack \in [Fibers -> Seq(Frame)]
      /\ \A g \in Fibers : g = MainFiber
  BY DEF FramesInv, TypeOK, ProgramOK, OneFiber
<1>3. stack'[MainFiber] = MarkAll(stack[MainFiber])
  BY <1>1, <1>2 DEF OneFiber
<1>4. /\ DOMAIN stack'[MainFiber] = DOMAIN stack[MainFiber]
      /\ \A i \in DOMAIN stack[MainFiber] :
           /\ stack'[MainFiber][i].has_line_breakpoints = TRUE
           /\ stack'[MainFiber][i].function = stack[MainFiber][i].function
  <2>1. \A i \in DOMAIN stack[MainFiber] : stack[MainFiber][i] \in Frame
    BY <1>2, LenProperties, ElementOfSeq DEF OneFiber
  <2>2. \A b \in Frame : /\ [b EXCEPT !.has_line_breakpoints = TRUE].has_line_breakpoints = TRUE
                         /\ [b EXCEPT !.has_line_breakpoints = TRUE].function = b.function
    BY DEF Frame
  <2> QED BY <1>3, <2>1, <2>2 DEF MarkAll
<1>5. FramesCompiled'
  BY <1>1, <1>2, <1>4 DEF FramesInv, FramesCompiled
<1>6. FramesMarked'
  BY <1>2, <1>4 DEF FramesMarked
<1> QED BY <1>5, <1>6

LEMMA OtherSetsStay ==
  ASSUME FramesInv, NEW o,
         \/ \E type \in FunctionTypes, f \in Functions : SetFunction(type, f, o)
         \/ \E x \in Exceptions \cup {Wildcard} : SetException(x, o)
  PROVE  FramesCompiled' /\ FramesMarked'
<1>1. breakpoint_count + 1 \notin DOMAIN info
  BY DEF FramesInv, TypeOK, IdsOK, InfoOK
<1>2. UNCHANGED <<stack, compiled, line_breakpoints>>
  BY DEF SetFunction, SetException, Session
<1>3. ASSUME NEW d \in line_breakpoints PROVE info'[d] = info[d]
  <2>1. d \in DOMAIN info /\ info[d].brk_type = "line" /\ d # breakpoint_count + 1
    BY <1>1 DEF FramesInv, TypeOK, TablesOK
  <2>2. CASE \E type \in FunctionTypes, f \in Functions : SetFunction(type, f, o)
    BY <2>1, <2>2 DEF SetFunction, AdminAdd, With
  <2>3. CASE \E x \in Exceptions \cup {Wildcard} : SetException(x, o)
    <3>1. PICK x \in Exceptions \cup {Wildcard} : SetException(x, o)
      BY <2>3
    <3>2. d \notin {exception_breakpoints[y] : y \in DOMAIN exception_breakpoints \cap {x}}
      BY <2>1 DEF FramesInv, TypeOK, TablesOK
    <3> QED BY <2>1, <3>1, <3>2 DEF SetException, AdminAdd, With, Without
  <2> QED BY <2>2, <2>3
<1> QED BY <1>2, <1>3, MarksStay DEF SamePlace

\* An update that moves no line leaves the breakpoint where it is.
LEMMA UpdateStays ==
  ASSUME FramesInv, LinesStay, NEW d, NEW u \in Updates, BreakpointUpdate(d, u)
  PROVE  FramesCompiled' /\ FramesMarked'
<1>1. ASSUME NEW b \in Info PROVE SamePlace(Updated(b, u), b)
  BY <1>1 DEF LinesStay, Updated, SamePlace, Info
<1>2. CASE Crash
  BY <1>2, MarksStay DEF Crash, registry, program, SamePlace
<1>3. CASE ~Crash
  <2>1. /\ info' = [info EXCEPT ![Fetch(breakpoint_list[d])] = Updated(@, u)]
        /\ UNCHANGED <<stack, compiled, line_breakpoints>>
    BY <1>3 DEF BreakpointUpdate, Session
  <2>2. \A e \in line_breakpoints : e \in DOMAIN info /\ info[e] \in Info
    BY DEF FramesInv, TypeOK, TablesOK, InfoOK
  <2>3. \A e \in line_breakpoints : SamePlace(info'[e], info[e])
    BY <1>1, <2>1, <2>2 DEF SamePlace
  <2> QED BY <2>1, <2>3, MarksStay
<1> QED BY <1>2, <1>3

LEMMA RemoveStays ==
  ASSUME FramesInv, NEW d, BreakpointRemove(d) \/ BreakpointGet(d)
  PROVE  FramesCompiled' /\ FramesMarked'
<1>1. CASE Crash
  BY <1>1, MarksStay DEF Crash, registry, program, SamePlace
<1>2. CASE ~Crash
  <2>1. PICK freed : /\ info' = Without(info, freed)
                     /\ line_breakpoints' = line_breakpoints \ freed
                     /\ UNCHANGED <<stack, compiled>>
    BY <1>2 DEF BreakpointRemove, BreakpointGet, Session
  <2>2. \A e \in line_breakpoints' : e \in DOMAIN info \ freed
    BY <2>1 DEF FramesInv, TypeOK, TablesOK
  <2>3. \A e \in line_breakpoints' : SamePlace(info'[e], info[e])
    BY <2>1, <2>2 DEF Without, SamePlace
  <2> QED BY <2>1, <2>3, MarksStay
<1> QED BY <1>1, <1>2
-----------------------------------------------------------------------------
(* The program. *)

\* A function is called: its own frame is marked for the breakpoints that are
\* there, and their places do not change by a hit.
LEMMA CallMarks ==
  ASSUME FramesInv, NEW f \in Functions, Call(f)
  PROVE  FramesCompiled' /\ FramesMarked'
<1> DEFINE marked == /\ UserDefined(f)
                     /\ \E d \in line_breakpoints :
                          /\ info[d].where = Code[f].file
                          /\ info[d].resolved_lineno \in Code[f].lines
           frame == [function |-> f, has_line_breakpoints |-> marked]
           n == Len(stack[fiber])
<1>1. /\ stack' = [stack EXCEPT ![fiber] = Append(@, frame)]
      /\ UserDefined(f) => Code[f].file \in compiled
      /\ UNCHANGED <<compiled, line_breakpoints>>
  BY DEF Call
<1>2. \A d \in line_breakpoints : SamePlace(info'[d], info[d])
  BY FunctionBreakStays DEF Call
<1>3. fiber \in Fibers /\ stack[fiber] \in Seq(Frame) /\ n \in Nat
  BY LenProperties DEF FramesInv, TypeOK, ProgramOK
<1>4. \A g \in Fibers : g # fiber => stack'[g] = stack[g]
  BY <1>1 DEF FramesInv, TypeOK, ProgramOK
<1>5. stack'[fiber] = Append(stack[fiber], frame)
  BY <1>1, <1>3 DEF FramesInv, TypeOK, ProgramOK
<1>6. /\ frame.function = f
      /\ \A d \in line_breakpoints :
           UserDefined(f) /\ info[d].where = Code[f].file /\ info[d].resolved_lineno \in Code[f].lines
             => frame.has_line_breakpoints
  OBVIOUS
<1> HIDE DEF frame, marked
<1>7. \A i \in DOMAIN stack'[fiber] :
        \/ i \in DOMAIN stack[fiber] /\ stack'[fiber][i] = stack[fiber][i]
        \/ stack'[fiber][i] = frame
  <2>1. /\ DOMAIN stack[fiber] = 1..n /\ DOMAIN stack'[fiber] = 1..(n + 1)
        /\ stack'[fiber][n + 1] = frame
        /\ \A i \in 1..n : stack'[fiber][i] = stack[fiber][i]
    BY <1>3, <1>5
  <2> QED BY <1>3, <2>1
<1>8. FramesCompiled'
  BY <1>1, <1>4, <1>6, <1>7 DEF FramesInv, FramesCompiled
<1>9. FramesMarked'
  <2>1. ASSUME NEW g \in Fibers, NEW i \in DOMAIN stack'[g], NEW d \in line_breakpoints',
               UserDefined(stack'[g][i].function),
               info'[d].where = Code[stack'[g][i].function].file,
               info'[d].resolved_lineno \in Code[stack'[g][i].function].lines
        PROVE  stack'[g][i].has_line_breakpoints
    <3>1. /\ d \in line_breakpoints
          /\ info[d].where = Code[stack'[g][i].function].file
          /\ info[d].resolved_lineno \in Code[stack'[g][i].function].lines
      BY <1>1, <1>2, <2>1 DEF SamePlace
    <3>2. CASE g # fiber
      BY <1>4, <2>1, <3>1, <3>2 DEF FramesInv, FramesMarked
    <3>3. CASE g = fiber
      BY <1>6, <1>7, <2>1, <3>1, <3>3 DEF FramesInv, FramesMarked
    <3> QED BY <3>2, <3>3
  <2> QED BY <2>1 DEF FramesMarked
<1> QED BY <1>8, <1>9

LEMMA ReturnMarks ==
  ASSUME FramesInv, Return
  PROVE  FramesCompiled' /\ FramesMarked'
<1> DEFINE n == Len(stack[fiber])
<1>1. /\ stack' = [stack EXCEPT ![fiber] = SubSeq(@, 1, Len(@) - 1)] /\ stack[fiber] # <<>>
      /\ UNCHANGED <<compiled, line_breakpoints>>
  BY DEF Return
<1>2. \A d \in line_breakpoints : SamePlace(info'[d], info[d])
  BY FunctionBreakStays DEF Return
<1>3. fiber \in Fibers /\ stack[fiber] \in Seq(Frame) /\ n \in Nat
  BY LenProperties DEF FramesInv, TypeOK, ProgramOK
<1>4. \A g \in Fibers : g # fiber => stack'[g] = stack[g]
  BY <1>1 DEF FramesInv, TypeOK, ProgramOK
<1>5. stack'[fiber] = SubSeq(stack[fiber], 1, n - 1)
  BY <1>1, <1>3 DEF FramesInv, TypeOK, ProgramOK
<1>6. \A i \in DOMAIN stack'[fiber] : i \in DOMAIN stack[fiber] /\ stack'[fiber][i] = stack[fiber][i]
  BY <1>1, <1>3, <1>5, SubSeqProperties, LenProperties
<1>7. \A g \in Fibers : \A i \in DOMAIN stack'[g] : i \in DOMAIN stack[g] /\ stack'[g][i] = stack[g][i]
  BY <1>4, <1>6
<1>8. FramesCompiled'
  BY <1>1, <1>7 DEF FramesInv, FramesCompiled
<1>9. FramesMarked'
  BY <1>1, <1>2, <1>7 DEF FramesInv, FramesMarked, SamePlace
<1> QED BY <1>8, <1>9

\* Resolving moves breakpoints of the file that is compiled, which has no frames.
LEMMA CompileStays ==
  ASSUME FramesInv, NEW f \in Files, Compile(f)
  PROVE  FramesCompiled' /\ FramesMarked'
<1>1. CASE Crash
  BY <1>1, MarksStay DEF Crash, registry, program, SamePlace
<1>2. CASE ~Crash
  <2> DEFINE fetched == {Fetch(breakpoint_list[d]) : d \in DOMAIN breakpoint_list}
  <2>1. /\ f \notin compiled /\ compiled' = compiled \cup {f}
        /\ info' = [d \in DOMAIN info |->
              IF /\ resolved_breakpoints /\ d \in fetched
                 /\ info[d].brk_type = "line" /\ info[d].where = f
              THEN Resolve(info[d]) ELSE info[d]]
        /\ UNCHANGED <<stack, line_breakpoints>>
    BY <1>2 DEF Compile
  <2> HIDE DEF fetched
  <2>2. ASSUME NEW b \in Info PROVE Resolve(b).where = b.where
    BY DEF Resolve, Info
  <2>3. \A d \in line_breakpoints : /\ d \in DOMAIN info /\ info[d] \in Info
                                    /\ info'[d].where = info[d].where
                                    /\ info[d].where # f => info'[d] = info[d]
    BY <2>1, <2>2 DEF FramesInv, TypeOK, TablesOK, InfoOK
  <2>4. FramesCompiled'
    BY <2>1 DEF FramesInv, FramesCompiled
  <2>5. FramesMarked'
    <3>1. ASSUME NEW g \in Fibers, NEW i \in DOMAIN stack[g], NEW d \in line_breakpoints,
                 UserDefined(stack[g][i].function),
                 info'[d].where = Code[stack[g][i].function].file,
                 info'[d].resolved_lineno \in Code[stack[g][i].function].lines
          PROVE  stack[g][i].has_line_breakpoints
      <4>0. info'[d].where = info[d].where /\ (info[d].where # f => info'[d] = info[d])
        BY <2>3, Zenon
      <4>1. info[d].where \in compiled
        BY <3>1, <4>0 DEF FramesInv, FramesCompiled
      <4>2. info'[d] = info[d]
        BY <2>1, <4>0, <4>1
      <4> QED BY <3>1, <4>2 DEF FramesInv, FramesMarked
    <3> QED BY <2>1, <3>1 DEF FramesMarked
  <2> QED BY <2>4, <2>5
<1> QED BY <1>1, <1>2
-----------------------------------------------------------------------------
\* Without fibers and without moved lines the flag of a frame never hides a line
\* breakpoint from xdebug_debugger_statement_call: not one that was there at the
\* call, not one set later, and not one the resolver moves.
THEOREM FramesMarkedCorrect ==
  ASSUME OneFiber, LinesStay
  PROVE  Spec => []FramesMarked
<1>1. Init => FramesCompiled /\ FramesMarked
  BY DEF Init, FramesCompiled, FramesMarked
<1>2. TypeOK /\ FramesCompiled /\ FramesMarked /\ [Next]_vars => FramesCompiled' /\ FramesMarked'
  <2> SUFFICES ASSUME TypeOK, FramesCompiled, FramesMarked, [Next]_vars
               PROVE  FramesCompiled' /\ FramesMarked'
    OBVIOUS
  <2>0. FramesInv
    BY DEF FramesInv
  <2>1. CASE ClientNext
    <3>1. ASSUME NEW o \in SetOptions, NEW f \in Files, NEW n \in SetLines, SetLine(f, n, o)
          PROVE  FramesCompiled' /\ FramesMarked'
      BY <2>0, <3>1, SetLineMarks
    <3>2. ASSUME NEW o \in SetOptions,
                 \/ \E type \in FunctionTypes, f \in Functions : SetFunction(type, f, o)
                 \/ \E x \in Exceptions \cup {Wildcard} : SetException(x, o)
          PROVE  FramesCompiled' /\ FramesMarked'
      BY <2>0, <3>2, OtherSetsStay
    <3>3. ASSUME NEW d, NEW u \in Updates, BreakpointUpdate(d, u)
          PROVE  FramesCompiled' /\ FramesMarked'
      BY <2>0, <3>3, UpdateStays
    <3>4. ASSUME NEW d, BreakpointRemove(d) \/ BreakpointGet(d)
          PROVE  FramesCompiled' /\ FramesMarked'
      BY <2>0, <3>4, RemoveStays
    <3>5. ASSUME NEW step, Continue(step)
          PROVE  FramesCompiled' /\ FramesMarked'
      BY <2>0, <3>5, MarksStay DEF Continue, registry, program, SamePlace
    <3> QED BY <2>1, <3>1, <3>2, <3>3, <3>4, <3>5 DEF ClientNext
  <2>2. CASE ProgramNext
    <3>1. ASSUME NEW n, StatementBreak(n) \/ StatementStep(n)
          PROVE  FramesCompiled' /\ FramesMarked'
      BY <2>0, <3>1, MarksStay DEF StatementBreak, StatementStep, registry, program, SamePlace
    <3>2. ASSUME NEW n, NEW truths, StatementLine(n, truths)
          PROVE  FramesCompiled' /\ FramesMarked'
      <4>1. PICK S : Hit(S) /\ UNCHANGED <<line_breakpoints, program>>
        BY <3>2 DEF StatementLine
      <4> QED BY <2>0, <4>1, HitStays, MarksStay DEF program
    <3>3. ASSUME NEW f \in Functions, Call(f) PROVE FramesCompiled' /\ FramesMarked'
      BY <2>0, <3>3, CallMarks
    <3>4. CASE Return
      BY <2>0, <3>4, ReturnMarks
    <3>5. ASSUME NEW x, Throw(x) PROVE FramesCompiled' /\ FramesMarked'
      <4>1. PICK S : Hit(S) /\ UNCHANGED <<line_breakpoints, program>>
        BY <3>5 DEF Throw
      <4> QED BY <2>0, <4>1, HitStays, MarksStay DEF program
    <3>6. ASSUME NEW f \in Files, Compile(f) PROVE FramesCompiled' /\ FramesMarked'
      BY <2>0, <3>6, CompileStays
    <3>7. CASE XdebugBreak \/ Pause \/ \E f \in Fibers : SwitchFiber(f)
      <4>1. UNCHANGED <<registry, compiled, stack>>
        BY <3>7 DEF XdebugBreak, Pause, SwitchFiber, program
      <4> QED BY <2>0, <4>1, MarksStay DEF registry, SamePlace
    <3> QED BY <2>2, <3>1, <3>2, <3>3, <3>4, <3>5, <3>6, <3>7 DEF ProgramNext
  <2>3. CASE UNCHANGED vars
    BY <2>0, <2>3, MarksStay DEF vars, registry, program, SamePlace
  <2> QED BY <2>1, <2>2, <2>3 DEF Next
<1> QED BY <1>1, <1>2, TypeCorrect, PTL DEF Spec
=============================================================================
