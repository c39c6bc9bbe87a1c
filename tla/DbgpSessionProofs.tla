------------------------- MODULE DbgpSessionProofs -------------------------
(***************************************************************************)
(* Theorems about DbgpSession, for every number of processes, connections, *)
(* commands and requests.  First what holds of one process's record        *)
(* whatever happens to it, then what holds between processes, then what    *)
(* holds between a process and its connection.                             *)
(***************************************************************************)
EXTENDS DbgpSession, SequenceTheorems, WellFoundedInduction, TLAPS

\* What the record of process p always is.
RecordOK(p, e) ==
  /\ e \in Engine
  /\ e.enabled => e.pid = p /\ e.tables = "allocated"
  /\ ~e.enabled => e.pid = None
  /\ e.enabled <=> e.open
  /\ e.open => e.socket # None
  /\ e.at # "crashed"
  /\ e.at = "unborn" => ~e.open

\* f is a later record of the same process on the same connection, or on none.
Follows(f, e) == f.open => e.open /\ f.socket = e.socket

\* Closing the connection.
LEMMA NotActiveOK ==
  ASSUME NEW p, NEW e, RecordOK(p, e)
  PROVE  /\ RecordOK(p, NotActive(e)) /\ ~NotActive(e).open
         /\ NotActive(e).at = e.at /\ NotActive(e).lasttransid = e.lasttransid
BY DEF RecordOK, NotActive, Engine, None

\* A write leaves the connection as it is, or closes it.
LEMMA AfterSendOK ==
  ASSUME NEW p, NEW e, RecordOK(p, e), NEW f \in AfterSend(e)
  PROVE  /\ RecordOK(p, f) /\ Follows(f, e)
         /\ f.at = e.at /\ f.lasttransid = e.lasttransid
BY NotActiveOK DEF AfterSend, Follows

\* xdebug_dbgp_deinit frees tables that are there.
LEMMA FreeOK ==
  ASSUME NEW p, NEW e, RecordOK(p, e)
  PROVE  RecordOK(p, Free(e)) /\ ~Free(e).open /\ Free(e).at = e.at
BY DEF RecordOK, Free, NotActive, Engine, None

\* Leaving the command loop.
LEMMA LeaveOK ==
  ASSUME NEW p, NEW e, RecordOK(p, e)
  PROVE  /\ RecordOK(p, Leave(e)) /\ Follows(Leave(e), e) /\ Leave(e).at \notin Loops
         /\ Leave(e).open => e.at # "stopping" /\ Leave(e).lasttransid = e.lasttransid
<1>1. CASE e.at = "stopping"
  <2>1. RecordOK(p, Free(e)) /\ ~Free(e).open /\ Free(e).at = "stopping"
    BY <1>1, FreeOK
  <2>2. Leave(e) = [Free(e) EXCEPT !.at = "ended"]
    BY <1>1, <2>1 DEF Leave, RecordOK, Engine, Loops
  <2> HIDE DEF Free
  <2>3. Free(e) \in Engine
    BY <2>1 DEF RecordOK
  <2> QED BY <2>1, <2>2, <2>3 DEF RecordOK, Engine, Follows, Places, Loops
<1>2. CASE e.at # "stopping"
  <2>1. Leave(e) = [e EXCEPT !.at = IF @ \in Loops THEN "running" ELSE @]
    BY <1>2 DEF Leave
  <2> QED BY <1>2, <2>1 DEF RecordOK, Engine, Follows, Places, Loops
<1> QED BY <1>1, <1>2
-----------------------------------------------------------------------------
(* The processes and what connects them. *)

EngineOK == engine \in [Procs -> Engine] /\ \A p \in Procs : RecordOK(p, engine[p])
PeersOK  == \A p \in Procs : engine[p].open => peer[engine[p].socket] # "unused"
WireOK ==
  /\ peer \in [Conns -> {"unused", "open", "closed"}]
  /\ inbox \in [Conns -> Seq(Names)] /\ read \in [Conns -> 0..MaxCommands]
  /\ \A c \in Conns : read[c] + Len(inbox[c]) <= MaxCommands /\ resumed[c] \subseteq 1..read[c]
  /\ resumed \in [Conns -> SUBSET Ids]
  /\ answered \in [Conns -> [Ids -> Nat]]

\* The inductive invariant: a connection that was not made yet has no holder, so
\* the one a process makes is its own.
IInv == EngineOK /\ PeersOK /\ WireOK /\ OneProcessPerConnection

\* One process changes; it keeps its connection, loses it or makes a new one.
LEMMA ChangeOK ==
  ASSUME IInv, NEW p \in Procs, NEW f, RecordOK(p, f),
         engine' = [engine EXCEPT ![p] = f],
         Follows(f, engine[p]) \/ peer[f.socket] = "unused",
         f.open => peer'[f.socket] # "unused",
         \A c \in Conns : peer[c] # "unused" => peer'[c] # "unused"
  PROVE  EngineOK' /\ PeersOK' /\ OneProcessPerConnection'
<1>1. /\ engine'[p] = f
      /\ \A q \in Procs \ {p} : engine'[q] = engine[q]
  BY DEF IInv, EngineOK
<1>2. EngineOK'
  BY <1>1 DEF IInv, EngineOK, RecordOK
<1>3. \A q \in Procs : engine[q].open => engine[q].socket \in Conns
  BY DEF IInv, EngineOK, RecordOK, Engine
<1>4. PeersOK'
  BY <1>1, <1>3 DEF IInv, PeersOK
<1>5. \A q \in Procs \ {p} : ~(f.open /\ engine[q].open /\ engine[q].socket = f.socket)
  BY DEF IInv, PeersOK, OneProcessPerConnection, Follows
<1>6. OneProcessPerConnection'
  BY <1>1, <1>5 DEF IInv, OneProcessPerConnection
<1> QED BY <1>2, <1>4, <1>6

\* The step of a process that keeps its connection or loses it.
LEMMA StepOK ==
  ASSUME IInv, NEW p \in Procs, NEW f, RecordOK(p, f), Follows(f, engine[p]),
         engine' = [engine EXCEPT ![p] = f], peer' = peer, WireOK'
  PROVE  IInv'
<1>1. f.open => peer'[f.socket] # "unused"
  BY DEF IInv, PeersOK, Follows
<1> QED BY <1>1, ChangeOK DEF IInv

\* Nothing but a process changes.
LEMMA QuietOK ==
  ASSUME IInv, UNCHANGED wire
  PROVE  WireOK' /\ peer' = peer
BY DEF IInv, WireOK, wire

\* The first of the connections that are unused is one of them.
LEMMA FirstUnused ==
  ASSUME Unused # {}
  PROVE  (CHOOSE c \in Unused : \A d \in Unused : c <= d) \in Unused
<1>1. Unused \subseteq Nat
  BY DEF Unused, Conns
<1>2. PICK c \in Unused : \A d \in Unused : ~(<<d, c>> \in OpToRel(<, Nat))
  BY <1>1, NatLessThanWellFounded, WFMin
<1>3. ASSUME NEW d \in Unused PROVE c <= d
  <2>1. ~(<<d, c>> \in {r \in Nat \X Nat : r[1] < r[2]})
    BY <1>2, Zenon DEF OpToRel
  <2> QED BY <1>1, <2>1
<1> QED BY <1>3, Zenon

\* Connecting: it fails, or makes the first connection that is unused.
LEMMA InitDebuggerOK ==
  ASSUME IInv, NEW p \in Procs, NEW e, RecordOK(p, e), ~e.enabled, InitDebugger(p, e)
  PROVE  IInv'
<1>1. CASE Become(p, {[e EXCEPT !.socket = None]}) /\ UNCHANGED wire
  <2>1. RecordOK(p, [e EXCEPT !.socket = None]) /\ ~[e EXCEPT !.socket = None].open
    BY DEF RecordOK, Engine
  <2> QED BY <1>1, <2>1, StepOK, QuietOK DEF Become, Follows
<1>2. CASE \E c \in Unused : /\ Become(p, {Connected(e, p, c)})
                             /\ peer' = [peer EXCEPT ![c] = "open"]
                             /\ UNCHANGED <<inbox, read, resumed, answered>>
  <2>1. PICK c \in Unused : /\ Become(p, {Connected(e, p, c)})
                            /\ peer' = [peer EXCEPT ![c] = "open"]
                            /\ UNCHANGED <<inbox, read, resumed, answered>>
    BY <1>2
  <2>2. c \in Conns /\ c # None /\ peer[c] = "unused"
    BY DEF Unused, Conns, None
  <2>3. RecordOK(p, Connected(e, p, c)) /\ Connected(e, p, c).socket = c
    <3>1. p # None
      BY SessionAssumption
    <3> QED BY <2>2, <3>1 DEF RecordOK, Engine, Connected, Places, Loops, Statuses, None
  <2>4. /\ WireOK' /\ peer'[c] = "open"
        /\ \A d \in Conns : peer[d] # "unused" => peer'[d] # "unused"
    BY <2>1, <2>2 DEF IInv, WireOK
  <2>5. engine' = [engine EXCEPT ![p] = Connected(e, p, c)]
    BY <2>1 DEF Become
  <2> HIDE DEF Connected
  <2> QED BY <2>2, <2>3, <2>4, <2>5, ChangeOK DEF IInv
<1> QED BY <1>1, <1>2, FirstUnused DEF InitDebugger
-----------------------------------------------------------------------------
(* The actions. *)

\* The initial states satisfy the inductive invariant.
LEMMA InitInv == Init => IInv
<1> SUFFICES ASSUME Init PROVE IInv
  OBVIOUS
<1>1. /\ Unborn \in Engine /\ [Unborn EXCEPT !.at = "fresh"] \in Engine
      /\ ~Unborn.enabled /\ Unborn.pid = None /\ ~Unborn.open /\ Unborn.at = "unborn"
  <2>1. 1 \in 0..MaxRequests
    BY SessionAssumption
  <2> QED BY <2>1 DEF Unborn, Engine, Places, Loops, Statuses
<1>2. EngineOK /\ \A p \in Procs : ~engine[p].open
  BY <1>1 DEF Init, EngineOK, RecordOK, Engine
<1>3. WireOK
  BY SessionAssumption DEF Init, WireOK, Ids
<1> QED BY <1>2, <1>3 DEF IInv, PeersOK, OneProcessPerConnection

\* A process reads the next command of its connection.
LEMMA TakeOK ==
  ASSUME IInv, NEW p \in Procs, NEW id \in Ids, NEW name, Take(p, id, name),
         answered' = answered,
         \/ resumed' = resumed
         \/ resumed' = [resumed EXCEPT ![engine[p].socket] = @ \cup {id}]
  PROVE  /\ WireOK' /\ peer' = peer
         /\ engine[p].socket \in Conns /\ id \notin resumed[engine[p].socket]
<1> DEFINE c == engine[p].socket
<1>1. c \in Conns
  BY DEF IInv, EngineOK, RecordOK, Engine, Take
<1>2. /\ inbox[c] \in Seq(Names) /\ inbox[c] # <<>> /\ id = read[c] + 1 /\ read[c] \in Nat
      /\ resumed[c] \subseteq 1..read[c] /\ read[c] + Len(inbox[c]) <= MaxCommands
  BY <1>1 DEF IInv, WireOK, Take
<1>3. Tail(inbox[c]) \in Seq(Names) /\ Len(Tail(inbox[c])) = Len(inbox[c]) - 1
  BY <1>2, HeadTailProperties
<1>4. Len(inbox[c]) \in Nat /\ Len(inbox[c]) # 0
  BY <1>2, LenProperties, EmptySeq
<1>5. id \in 0..MaxCommands /\ id + Len(Tail(inbox[c])) <= MaxCommands
  BY <1>2, <1>3, <1>4, SessionAssumption DEF Ids
<1>6. /\ peer' = peer
      /\ inbox' = [inbox EXCEPT ![c] = Tail(inbox[c])] /\ read' = [read EXCEPT ![c] = id]
  BY DEF Take
<1>7. /\ inbox' \in [Conns -> Seq(Names)] /\ read' \in [Conns -> 0..MaxCommands]
      /\ resumed' \in [Conns -> SUBSET Ids]
  <2>1. inbox' \in [Conns -> Seq(Names)]
    BY <1>1, <1>3, <1>6 DEF IInv, WireOK
  <2>2. read' \in [Conns -> 0..MaxCommands]
    BY <1>1, <1>5, <1>6 DEF IInv, WireOK
  <2>3. resumed' \in [Conns -> SUBSET Ids]
    <3>1. resumed[c] \cup {id} \in SUBSET Ids
      BY <1>1 DEF IInv, WireOK
    <3> QED BY <1>1, <3>1 DEF IInv, WireOK
  <2> QED BY <2>1, <2>2, <2>3
<1>8. ASSUME NEW d \in Conns
      PROVE  read'[d] + Len(inbox'[d]) <= MaxCommands /\ resumed'[d] \subseteq 1..read'[d]
  <2>1. CASE d = c
    <3>1. read'[d] = id /\ inbox'[d] = Tail(inbox[c])
      BY <1>1, <1>6, <2>1 DEF IInv, WireOK
    <3>2. resumed'[d] \subseteq resumed[c] \cup {id}
      BY <1>1, <2>1 DEF IInv, WireOK
    <3> QED BY <1>2, <1>5, <3>1, <3>2 DEF Ids
  <2>2. CASE d # c
    <3>1. read'[d] = read[d] /\ inbox'[d] = inbox[d] /\ resumed'[d] = resumed[d]
      BY <1>1, <1>6, <2>2 DEF IInv, WireOK
    <3> QED BY <3>1 DEF IInv, WireOK
  <2> QED BY <2>1, <2>2
<1> QED BY <1>1, <1>2, <1>6, <1>7, <1>8 DEF IInv, WireOK

\* A response is sent for a continuation, or not.
LEMMA AnswerOK ==
  ASSUME IInv, NEW e, e.open => e.socket \in Conns, NEW id, Answer(e, id),
         UNCHANGED <<peer, inbox, read, resumed>>
  PROVE  WireOK'
<1>1. CASE Delivered(e) /\ id \in resumed[e.socket]
  <2>1. e.socket \in Conns /\ id \in Ids
    BY <1>1 DEF Delivered, MaySend, IInv, WireOK
  <2>2. answered' = [answered EXCEPT ![e.socket] = [answered[e.socket] EXCEPT ![id] = @ + 1]]
    BY <1>1 DEF Answer
  <2>3. [answered[e.socket] EXCEPT ![id] = @ + 1] \in [Ids -> Nat]
    BY <2>1 DEF IInv, WireOK
  <2>4. answered' \in [Conns -> [Ids -> Nat]]
    BY <2>1, <2>2, <2>3 DEF IInv, WireOK
  <2> QED BY <2>4 DEF IInv, WireOK
<1>2. CASE ~(Delivered(e) /\ id \in resumed[e.socket])
  BY <1>2 DEF Answer, IInv, WireOK
<1> QED BY <1>1, <1>2

\* What a command makes of the record of the process before it sends.
Base(e, s, id, d) == [e EXCEPT !.status = s, !.lasttransid = id, !.detached = d]

\* It is a record of the process, on the same connection.
LEMMA BaseOK ==
  ASSUME NEW p, NEW e, RecordOK(p, e), NEW s \in Statuses, NEW id \in Ids, NEW d \in BOOLEAN
  PROVE  /\ RecordOK(p, Base(e, s, id, d)) /\ Follows(Base(e, s, id, d), e)
         /\ Base(e, s, id, d).at = e.at /\ Base(e, s, id, d).lasttransid = id
BY DEF Base, RecordOK, Engine, Follows

\* What Reply makes of the process: it sends, and may leave the loop.
LEMMA ReplyBecomes ==
  ASSUME NEW p \in Procs, engine[p] \in Engine, NEW id, NEW name, Reply(p, id, name)
  PROVE  LET e == engine[p]
             r == Base(e, e.status, id, e.detached)
         IN  \E f \in {e, r} : \E g \in AfterSend(f) : \/ engine' = [engine EXCEPT ![p] = g]
                                                      \/ engine' = [engine EXCEPT ![p] = Leave(g)]
<1> DEFINE e == engine[p]
           r == Base(e, e.status, id, e.detached)
           f == IF name \in {"query", "inspect"} THEN [e EXCEPT !.lasttransid = id] ELSE e
           refused == name = "unknown" \/ (name = "inspect" /\ e.status = "stopping")
<1>1. f = e \/ f = r
  BY DEF Engine, Base
<1>2. Become(p, IF refused THEN {Leave(g) : g \in AfterSend(f)} ELSE AfterSend(f))
  BY Zenon DEF Reply
<1> HIDE DEF f, refused
<1>3. \E g \in AfterSend(f) : \/ engine' = [engine EXCEPT ![p] = g]
                              \/ engine' = [engine EXCEPT ![p] = Leave(g)]
  <2>1. CASE refused
    BY <1>2, <2>1, Zenon DEF Become
  <2>2. CASE ~refused
    BY <1>2, <2>2, Zenon DEF Become
  <2> QED BY <2>1, <2>2
<1> QED BY <1>1, <1>3, Zenon

\* Every command keeps the invariant: it sends, changes fields, leaves the loop.
LEMMA CommandInv ==
  ASSUME IInv, NEW p \in Procs, NEW id \in Ids
  PROVE  /\ \A name \in Names : Reply(p, id, name) => IInv'
         /\ Run(p, id) \/ Stop(p, id) \/ Detach(p, id) => IInv'
<1> DEFINE e == engine[p]
           With(s, d) == Base(e, s, id, d)
<1>1. RecordOK(p, e) /\ e.status \in Statuses /\ e.detached \in BOOLEAN /\ e \in Engine
  BY DEF IInv, EngineOK, RecordOK, Engine
<1>2. \A s \in Statuses, d \in BOOLEAN : RecordOK(p, With(s, d)) /\ Follows(With(s, d), e)
  BY <1>1, BaseOK
<1>3. ASSUME NEW f, RecordOK(p, f), Follows(f, e), NEW g \in AfterSend(f)
      PROVE  /\ RecordOK(p, g) /\ Follows(g, e)
             /\ RecordOK(p, Leave(g)) /\ Follows(Leave(g), e)
  <2>1. RecordOK(p, g) /\ Follows(g, f)
    BY <1>3, AfterSendOK
  <2>2. RecordOK(p, Leave(g)) /\ Follows(Leave(g), g)
    BY <2>1, LeaveOK
  <2> QED BY <1>3, <2>1, <2>2 DEF Follows
<1>4. ASSUME NEW name \in Names, Reply(p, id, name) PROVE IInv'
  <2>1. WireOK' /\ peer' = peer
    BY <1>4, TakeOK DEF Reply
  <2>2. PICK f \in {e, With(e.status, e.detached)} :
          \E g \in AfterSend(f) : engine' = [engine EXCEPT ![p] = g]
                                  \/ engine' = [engine EXCEPT ![p] = Leave(g)]
    BY <1>1, <1>4, ReplyBecomes
  <2>3. RecordOK(p, f) /\ Follows(f, e)
    BY <1>1, <1>2, <2>2 DEF Follows
  <2> QED BY <1>3, <2>1, <2>2, <2>3, StepOK
<1>5. ASSUME Run(p, id) PROVE IInv'
  <2>1. WireOK' /\ peer' = peer
    BY <1>5, TakeOK DEF Run
  <2>2. engine' = [engine EXCEPT ![p] = Leave(With("running", e.detached))]
    <3>1. [e EXCEPT !.status = "running", !.lasttransid = id] = With("running", e.detached)
      BY <1>1 DEF Engine, Base
    <3> QED BY <1>5, <3>1, Zenon DEF Run, Become
  <2>3. RecordOK(p, With("running", e.detached)) /\ Follows(With("running", e.detached), e)
    BY <1>1, <1>2 DEF Statuses
  <2>4. /\ RecordOK(p, Leave(With("running", e.detached)))
        /\ Follows(Leave(With("running", e.detached)), e)
    BY <2>3, LeaveOK DEF Follows
  <2> HIDE DEF With
  <2> QED BY <2>1, <2>2, <2>4, StepOK
<1>6. ASSUME Stop(p, id) PROVE IInv'
  <2>1. WireOK' /\ peer' = peer
    BY <1>6, TakeOK DEF Stop
  <2>2. \E g \in AfterSend(With("stopped", e.detached)) : engine' = [engine EXCEPT ![p] = Leave(g)]
    <3>1. [e EXCEPT !.status = "stopped", !.lasttransid = id] = With("stopped", e.detached)
      BY <1>1 DEF Engine, Base
    <3> QED BY <1>6, <3>1, Zenon DEF Stop, Become
  <2>3. RecordOK(p, With("stopped", e.detached)) /\ Follows(With("stopped", e.detached), e)
    BY <1>1, <1>2 DEF Statuses
  <2> HIDE DEF With
  <2> QED BY <1>3, <2>1, <2>2, <2>3, StepOK
<1>7. ASSUME Detach(p, id) PROVE IInv'
  <2>1. WireOK' /\ peer' = peer
    BY <1>7, TakeOK DEF Detach
  <2>2. PICK g \in AfterSend(With("stopping", TRUE)) :
          engine' = [engine EXCEPT ![p] = Leave(Free(g))]
    BY <1>7, Zenon DEF Detach, Become, Base
  <2>3. RecordOK(p, With("stopping", TRUE)) /\ Follows(With("stopping", TRUE), e)
    BY <1>2 DEF Statuses
  <2> HIDE DEF With
  <2>4. RecordOK(p, Free(g)) /\ ~Free(g).open
    BY <1>3, <2>2, <2>3, FreeOK
  <2>5. RecordOK(p, Leave(Free(g))) /\ Follows(Leave(Free(g)), e)
    BY <2>4, LeaveOK DEF Follows
  <2> QED BY <2>1, <2>2, <2>5, StepOK
<1> QED BY <1>4, <1>5, <1>6, <1>7

\* What a process does between two reads.
LEMMA ProgramInv ==
  ASSUME IInv, NEW p \in Procs,
         \/ ReadNothing(p) \/ Startup(p) \/ JustInTime(p) \/ ConnectSignal(p)
         \/ StatementConnects(p) \/ Break(p) \/ Notify(p) \/ End(p) \/ NextRequest(p)
  PROVE  IInv'
<1> DEFINE e == engine[p]
<1>1. /\ RecordOK(p, e) /\ e.status \in Statuses /\ e.lasttransid \in Ids \cup {None}
      /\ e.detached \in BOOLEAN /\ e \in Engine
  BY DEF IInv, EngineOK, RecordOK, Engine
<1>2. ASSUME NEW f, RecordOK(p, f), Follows(f, e), engine' = [engine EXCEPT ![p] = f],
             UNCHANGED wire
      PROVE  IInv'
  BY <1>2, QuietOK, StepOK
<1>3. CASE ReadNothing(p)
  <2>1. RecordOK(p, NotActive(e)) /\ ~NotActive(e).open
    BY <1>1, NotActiveOK
  <2>2. RecordOK(p, Leave(NotActive(e))) /\ Follows(Leave(NotActive(e)), e)
    BY <2>1, LeaveOK DEF Follows
  <2> QED BY <1>2, <1>3, <2>2 DEF ReadNothing, Become
<1>4. CASE Startup(p)
  <2>1. LET f == [e EXCEPT !.at = "running"]
        IN  RecordOK(p, f) /\ Follows(f, e) /\ f.enabled = e.enabled /\ f.detached = e.detached
    BY <1>1 DEF RecordOK, Engine, Follows, Places
  <2> QED BY <1>2, <1>4, <2>1, InitDebuggerOK DEF Startup, Become
<1>5. CASE JustInTime(p)
  BY <1>1, <1>5, InitDebuggerOK DEF JustInTime
<1>6. CASE ConnectSignal(p)
  <2>1. LET f == [e EXCEPT !.do_connect = TRUE] IN RecordOK(p, f) /\ Follows(f, e)
    BY <1>1 DEF RecordOK, Engine, Follows
  <2> QED BY <1>2, <1>6, <2>1 DEF ConnectSignal, Become
<1>7. CASE StatementConnects(p)
  <2>1. LET f == [e EXCEPT !.do_connect = FALSE]
        IN  RecordOK(p, f) /\ Follows(f, e) /\ f.enabled = e.enabled
    BY <1>1 DEF RecordOK, Engine, Follows
  <2> QED BY <1>2, <1>7, <2>1, InitDebuggerOK DEF StatementConnects, Become
<1>8. CASE Break(p)
  <2> DEFINE b == [e EXCEPT !.status = "break"]
  <2>1. RecordOK(p, b) /\ Follows(b, e)
    BY <1>1 DEF RecordOK, Engine, Follows, Statuses
  <2> HIDE DEF b
  <2>2. WireOK' /\ peer' = peer
    BY <1>8, <2>1, AnswerOK DEF Break, RecordOK, Engine, b
  <2>3. PICK f \in AfterSend(b) :
          engine' = [engine EXCEPT ![p] = [f EXCEPT !.lasttransid = None, !.at = "break"]]
    BY <1>8, Zenon DEF Break, Become, b
  <2>4. RecordOK(p, f) /\ Follows(f, e)
    BY <2>1, <2>3, AfterSendOK DEF Follows
  <2>5. LET g == [f EXCEPT !.lasttransid = None, !.at = "break"]
        IN  RecordOK(p, g) /\ Follows(g, e)
    BY <2>4 DEF RecordOK, Engine, Follows, Places, Loops
  <2> QED BY <2>2, <2>3, <2>5, StepOK
<1>9. CASE Notify(p)
  <2>1. PICK f \in AfterSend(e) : engine' = [engine EXCEPT ![p] = f]
    BY <1>9, Zenon DEF Notify, Become
  <2> QED BY <1>1, <1>2, <1>9, <2>1, AfterSendOK DEF Notify
<1>10. CASE End(p)
  <2> DEFINE b == [e EXCEPT !.status = "stopping"]
  <2>1. RecordOK(p, b) /\ Follows(b, e)
    BY <1>1 DEF RecordOK, Engine, Follows, Statuses
  <2> HIDE DEF b
  <2>2. CASE e.enabled
    <3>1. WireOK' /\ peer' = peer
      BY <1>10, <2>1, <2>2, AnswerOK DEF End, RecordOK, Engine, b
    <3>2. PICK f \in AfterSend(b) : engine' = [engine EXCEPT ![p] = [f EXCEPT !.at = "stopping"]]
      BY <1>10, <2>2, Zenon DEF End, Become, b
    <3>3. RecordOK(p, f) /\ Follows(f, e)
      BY <2>1, <3>2, AfterSendOK DEF Follows
    <3>4. LET g == [f EXCEPT !.at = "stopping"] IN RecordOK(p, g) /\ Follows(g, e)
      BY <3>3 DEF RecordOK, Engine, Follows, Places, Loops
    <3> QED BY <3>1, <3>2, <3>4, StepOK
  <2>3. CASE ~e.enabled
    <3>1. LET f == [e EXCEPT !.at = "ended"] IN RecordOK(p, f) /\ Follows(f, e)
      BY <1>1 DEF RecordOK, Engine, Follows, Places
    <3> QED BY <1>2, <1>10, <2>3, <3>1 DEF End, Become, wire
  <2> QED BY <2>2, <2>3
<1>11. CASE NextRequest(p)
  <2>1. /\ RecordOK(p, NotActive(e)) /\ ~NotActive(e).open
        /\ NotActive(e).requests = e.requests /\ e.requests + 1 \in 0..MaxRequests
    <3>1. e.requests \in 0..MaxRequests /\ e.requests < MaxRequests
      BY <1>1, <1>11 DEF NextRequest, Engine
    <3>2. NotActive(e).requests = e.requests
      BY <1>1 DEF NotActive, Engine
    <3> QED BY <1>1, <3>1, <3>2, NotActiveOK, SessionAssumption
  <2> HIDE DEF NotActive
  <2>2. LET f == [NotActive(e) EXCEPT !.at = "fresh", !.detached = FALSE,
                                      !.do_connect = FALSE, !.requests = @ + 1]
        IN  RecordOK(p, f) /\ Follows(f, e)
    BY <2>1 DEF RecordOK, Engine, Follows, Places
  <2> QED BY <1>2, <1>11, <2>2 DEF NextRequest, Become
<1> QED BY <1>3, <1>4, <1>5, <1>6, <1>7, <1>8, <1>9, <1>10, <1>11

\* The child of a fork drops the connection of its parent.
LEMMA ForkInv ==
  ASSUME IInv, NEW p \in Procs, NEW q \in Procs, Fork(p, q)
  PROVE  IInv'
<1>1. RecordOK(p, engine[p])
  BY DEF IInv, EngineOK
<1>2. CASE engine[p].enabled
  <2>1. RecordOK(p, NotActive(engine[p])) /\ ~NotActive(engine[p]).enabled
    BY <1>1, NotActiveOK DEF RecordOK
  <2>2. RecordOK(q, NotActive(engine[p]))
    BY <2>1 DEF RecordOK
  <2> QED BY <1>2, <2>1, <2>2, InitDebuggerOK DEF Fork
<1>3. CASE ~engine[p].enabled
  <2>1. RecordOK(q, engine[p]) /\ Follows(engine[p], engine[q])
    BY <1>1, <1>3 DEF RecordOK, Follows
  <2> QED BY <1>3, <2>1, QuietOK, StepOK DEF Fork, Become
<1> QED BY <1>2, <1>3

\* What the client does.
LEMMA ClientInv ==
  ASSUME IInv, NEW c \in Conns, Client(c)
  PROVE  IInv'
<1>1. CASE CloseConnection(c)
  <2>1. WireOK'
    BY <1>1 DEF CloseConnection, IInv, WireOK
  <2>2. PeersOK'
    BY <1>1 DEF CloseConnection, IInv, PeersOK, WireOK, EngineOK, RecordOK, Engine
  <2> QED BY <1>1, <2>1, <2>2 DEF CloseConnection, IInv, EngineOK, OneProcessPerConnection
<1>2. ASSUME NEW name \in Names, Send(c, name) PROVE IInv'
  <2>1. /\ inbox[c] \in Seq(Names) /\ read[c] \in Nat
        /\ inbox' = [inbox EXCEPT ![c] = Append(inbox[c], name)]
        /\ read[c] + Len(inbox[c]) < MaxCommands
    BY <1>2 DEF Send, IInv, WireOK
  <2>2. /\ Append(inbox[c], name) \in Seq(Names) /\ Len(inbox[c]) \in Nat
        /\ Len(Append(inbox[c], name)) = Len(inbox[c]) + 1
    BY <2>1, AppendProperties, LenProperties
  <2>3. read[c] + Len(Append(inbox[c], name)) <= MaxCommands
    BY <2>1, <2>2, SessionAssumption
  <2>4. /\ inbox' \in [Conns -> Seq(Names)]
        /\ \A d \in Conns : read[d] + Len(inbox'[d]) <= MaxCommands
    BY <2>1, <2>2, <2>3 DEF IInv, WireOK
  <2> QED BY <1>2, <2>4 DEF Send, IInv, WireOK, EngineOK, PeersOK, OneProcessPerConnection
<1> QED BY <1>1, <1>2 DEF Client

\* The invariant is inductive.
LEMMA NextInv == IInv /\ [Next]_vars => IInv'
<1> SUFFICES ASSUME IInv, [Next]_vars PROVE IInv'
  OBVIOUS
<1>1. ASSUME NEW p \in Procs, Process(p) PROVE IInv'
  BY <1>1, CommandInv, ProgramInv, ForkInv DEF Process, Command
<1>2. ASSUME NEW c \in Conns, Client(c) PROVE IInv'
  BY <1>2, ClientInv
<1>3. CASE UNCHANGED vars
  BY <1>3 DEF vars, IInv, EngineOK, PeersOK, WireOK, OneProcessPerConnection
<1> QED BY <1>1, <1>2, <1>3 DEF Next
-----------------------------------------------------------------------------
(* The theorems. *)

\* The invariant holds in every reachable state.
LEMMA AlwaysInv == Spec => []IInv
BY InitInv, NextInv, PTL DEF Spec

\* Every record and every counter keeps its type, and the debugger knows the pid
\* of its process exactly while the connection is active.
THEOREM TypeCorrect == Spec => []TypeOK
<1>1. IInv => TypeOK
  <2> SUFFICES ASSUME IInv PROVE TypeOK
    OBVIOUS
  <2>1. ASSUME NEW p \in Procs
        PROVE  (engine[p].enabled <=> engine[p].pid # None)
               /\ (engine[p].open => engine[p].socket # None)
    BY SessionAssumption DEF IInv, EngineOK, RecordOK
  <2> QED BY <2>1 DEF IInv, EngineOK, WireOK, TypeOK
<1> QED BY <1>1, AlwaysInv, PTL

\* A connection taken for active has an open socket and tables (see ActiveIsConnected).
THEOREM ActiveIsConnectedCorrect == Spec => []ActiveIsConnected
<1>1. IInv => ActiveIsConnected
  BY DEF IInv, EngineOK, RecordOK, ActiveIsConnected
<1> QED BY <1>1, AlwaysInv, PTL

\* The tables of breakpoints are not freed twice, however the loops nest.
THEOREM FreedOnceCorrect == Spec => []FreedOnce
<1>1. IInv => FreedOnce
  BY DEF IInv, EngineOK, RecordOK, FreedOnce
<1> QED BY <1>1, AlwaysInv, PTL

\* No two processes share a connection, however they fork and connect.
THEOREM OneProcessCorrect == Spec => []OneProcessPerConnection
<1>1. IInv => OneProcessPerConnection
  BY DEF IInv
<1> QED BY <1>1, AlwaysInv, PTL
-----------------------------------------------------------------------------
(* A continuation is answered at most once.  The process that has read it is  *)
(* the only one on the connection; until it stops it remembers the id of a    *)
(* continuation that was not answered, or none.                               *)

\* What the process remembers was not answered.  While it is stopping it may
\* remember what End answered, but then it never runs again on this connection.
Remembers(e, res, ans) ==
  e.open /\ e.at # "stopping" /\ e.lasttransid \in res[e.socket]
    => ans[e.socket][e.lasttransid] = 0

Unanswered == \A p \in Procs : Remembers(engine[p], resumed, answered)
AnswersOK  == \A c \in Conns, id \in Ids :
  answered[c][id] <= 1 /\ (id \notin resumed[c] => answered[c][id] = 0)

OnceInv == IInv /\ Unanswered /\ AnswersOK

\* A step that neither reads nor answers a continuation.
LEMMA OnceStep ==
  ASSUME OnceInv, IInv', NEW p \in Procs, NEW f, Remembers(f, resumed, answered),
         engine' = [engine EXCEPT ![p] = f], resumed' = resumed, answered' = answered
  PROVE  OnceInv'
<1>1. /\ engine'[p] = f
      /\ \A q \in Procs \ {p} : engine'[q] = engine[q]
  BY DEF OnceInv, IInv, EngineOK
<1> QED BY <1>1 DEF OnceInv, Unanswered, AnswersOK, Remembers

\* A record that follows the one of the process, with the id it remembers or one
\* that is no continuation's.
LEMMA OnceFollows ==
  ASSUME OnceInv, NEW p \in Procs, NEW f, Follows(f, engine[p]),
         f.open => \/ f.at = "stopping"
                   \/ f.lasttransid \notin resumed[f.socket]
                   \/ f.lasttransid = engine[p].lasttransid /\ engine[p].at # "stopping"
  PROVE  Remembers(f, resumed, answered)
BY DEF OnceInv, Unanswered, Remembers, Follows

\* Connecting: the process remembers nothing.
LEMMA OnceInitDebugger ==
  ASSUME OnceInv, IInv', NEW p \in Procs, NEW e, RecordOK(p, e), ~e.enabled, InitDebugger(p, e)
  PROVE  OnceInv'
<1>1. PICK f : /\ engine' = [engine EXCEPT ![p] = f]
               /\ ~f.open \/ f.lasttransid = None
  <2>1. CASE Become(p, {[e EXCEPT !.socket = None]})
    <3>1. ~[e EXCEPT !.socket = None].open
      BY DEF RecordOK, Engine
    <3> QED BY <2>1, <3>1, Zenon DEF Become
  <2>2. CASE \E c \in Conns : Become(p, {Connected(e, p, c)})
    <3>1. \A c : Connected(e, p, c).lasttransid = None
      BY DEF Connected, RecordOK, Engine
    <3> QED BY <2>2, <3>1, Zenon DEF Become
  <2>3. ASSUME Unused # {} PROVE (CHOOSE c \in Unused : \A d \in Unused : c <= d) \in Conns
    BY <2>3, FirstUnused DEF Unused
  <2> QED BY <2>1, <2>2, <2>3, Zenon DEF InitDebugger
<1>2. resumed' = resumed /\ answered' = answered
  BY DEF InitDebugger, wire
<1>3. None \notin Ids
  BY DEF None, Ids
<1>4. EngineOK'
  BY DEF IInv
<1>5. engine'[p] = f /\ (f.open => f.socket \in Conns)
  BY <1>1, <1>4 DEF OnceInv, IInv, EngineOK, RecordOK, Engine
<1>6. Remembers(f, resumed, answered)
  BY <1>1, <1>3, <1>5 DEF Remembers, OnceInv, IInv, WireOK
<1> QED BY <1>1, <1>2, <1>6, OnceStep

\* The program stops or ends, which answers what the process remembers.
LEMMA OnceAnswer ==
  ASSUME OnceInv, IInv', NEW p \in Procs, NEW b, NEW f, Answer(b, b.lasttransid),
         b.open => engine[p].open, b.socket = engine[p].socket,
         b.lasttransid = engine[p].lasttransid, engine[p].at # "stopping",
         engine' = [engine EXCEPT ![p] = f], resumed' = resumed, Follows(f, engine[p]),
         f.open => f.lasttransid = None \/ f.at = "stopping"
  PROVE  OnceInv'
<1> DEFINE id == engine[p].lasttransid
           c  == engine[p].socket
<1>1. /\ engine'[p] = f
      /\ \A q \in Procs \ {p} : engine'[q] = engine[q]
  BY DEF OnceInv, IInv, EngineOK
<1>2. CASE Delivered(b) /\ id \in resumed[c]
  <2>1. engine[p].open
    BY <1>2 DEF Delivered, MaySend
  <2>2. c \in Conns /\ id \in Ids
    BY <1>2, <2>1 DEF OnceInv, IInv, EngineOK, RecordOK, Engine, WireOK
  <2>3. answered[c][id] = 0
    BY <1>2, <2>1 DEF OnceInv, Unanswered, Remembers
  <2>4. answered' = [answered EXCEPT ![c] = [answered[c] EXCEPT ![id] = answered[c][id] + 1]]
    BY <1>2 DEF Answer
  <2>5. /\ answered'[c][id] = 1
        /\ \A d \in Conns, i \in Ids : d # c \/ i # id => answered'[d][i] = answered[d][i]
        /\ \A d \in Conns : d # c => answered'[d] = answered[d]
    <3> DEFINE row == [answered[c] EXCEPT ![id] = answered[c][id] + 1]
    <3>1. answered \in [Conns -> [Ids -> Nat]]
      BY DEF OnceInv, IInv, WireOK
    <3>2. row[id] = 1 /\ \A i \in Ids : i # id => row[i] = answered[c][i]
      BY <2>2, <2>3, <3>1
    <3>3. answered' = [answered EXCEPT ![c] = row]
      BY <2>4
    <3> HIDE DEF row
    <3>4. answered'[c] = row /\ \A d \in Conns : d # c => answered'[d] = answered[d]
      BY <2>2, <3>1, <3>3
    <3> QED BY <2>2, <3>2, <3>4
  <2>6. AnswersOK'
    BY <1>2, <2>2, <2>5 DEF OnceInv, AnswersOK
  <2>7. ASSUME NEW q \in Procs PROVE Remembers(engine[q], resumed, answered)'
    <3>1. CASE q = p
      <4>1. None \notin Ids /\ (f.open => f.socket = c)
        BY DEF None, Ids, Follows
      <4> QED BY <1>1, <2>2, <3>1, <4>1 DEF Remembers, OnceInv, IInv, WireOK
    <3>2. CASE q # p
      <4>1. engine[q].open => engine[q].socket # c /\ engine[q].socket \in Conns
        BY <2>1, <3>2 DEF OnceInv, IInv, OneProcessPerConnection, EngineOK, RecordOK, Engine
      <4> QED BY <1>1, <2>5, <3>2, <4>1 DEF Remembers, OnceInv, Unanswered
    <3> QED BY <3>1, <3>2
  <2> QED BY <2>6, <2>7 DEF OnceInv, Unanswered
<1>3. CASE ~(Delivered(b) /\ id \in resumed[c])
  <2>1. answered' = answered
    BY <1>3 DEF Answer
  <2>2. None \notin Ids /\ (f.open => f.socket = c /\ c \in Conns)
    BY DEF None, Ids, Follows, OnceInv, IInv, EngineOK, RecordOK, Engine
  <2>3. Remembers(f, resumed, answered)
    BY <2>2 DEF Remembers, OnceInv, IInv, WireOK
  <2> QED BY <2>1, <2>3, OnceStep
<1> QED BY <1>2, <1>3

\* Commands: the id just read was no continuation's before, so none has its answer.
LEMMA OnceCommand ==
  ASSUME OnceInv, IInv', NEW p \in Procs, NEW id \in Ids
  PROVE  /\ \A name \in Names : Reply(p, id, name) => OnceInv'
         /\ Run(p, id) \/ Stop(p, id) \/ Detach(p, id) => OnceInv'
<1> DEFINE e == engine[p]
           With(s, d) == Base(e, s, id, d)
<1>1. RecordOK(p, e) /\ e.status \in Statuses /\ e.detached \in BOOLEAN /\ e \in Engine /\ IInv
  BY DEF OnceInv, IInv, EngineOK, RecordOK, Engine
<1>2. \A s \in Statuses, d \in BOOLEAN :
        /\ RecordOK(p, With(s, d)) /\ Follows(With(s, d), e)
        /\ With(s, d).at = e.at /\ With(s, d).lasttransid = id
  BY <1>1, BaseOK
<1>3. ASSUME NEW f, RecordOK(p, f), Follows(f, e), f.at = e.at, NEW g \in AfterSend(f)
      PROVE  /\ RecordOK(p, g) /\ Follows(g, e) /\ g.at = e.at /\ g.lasttransid = f.lasttransid
             /\ Follows(Leave(g), e)
             /\ Leave(g).open => e.at # "stopping" /\ Leave(g).lasttransid = f.lasttransid
  <2>1. /\ RecordOK(p, g) /\ Follows(g, f) /\ g.at = f.at /\ g.lasttransid = f.lasttransid
    BY <1>3, AfterSendOK
  <2>2. /\ Follows(Leave(g), g)
        /\ Leave(g).open => g.at # "stopping" /\ Leave(g).lasttransid = g.lasttransid
    BY <2>1, LeaveOK
  <2> QED BY <1>3, <2>1, <2>2 DEF Follows
<1>4. ASSUME NEW name \in Names, Reply(p, id, name) PROVE OnceInv'
  <2>1. id \notin resumed[e.socket] /\ resumed' = resumed /\ answered' = answered
    BY <1>1, <1>4, TakeOK DEF Reply
  <2>2. PICK f \in {e, With(e.status, e.detached)} :
          \E g \in AfterSend(f) : engine' = [engine EXCEPT ![p] = g]
                                  \/ engine' = [engine EXCEPT ![p] = Leave(g)]
    BY <1>1, <1>4, ReplyBecomes
  <2>3. /\ RecordOK(p, f) /\ Follows(f, e) /\ f.at = e.at
        /\ f.lasttransid = id \/ f.lasttransid = e.lasttransid
    BY <1>1, <1>2, <2>2 DEF Follows
  <2>4. PICK g \in AfterSend(f) : engine' = [engine EXCEPT ![p] = g]
                                  \/ engine' = [engine EXCEPT ![p] = Leave(g)]
    BY <2>2
  <2>5. Remembers(g, resumed, answered)
    BY <1>3, <2>1, <2>3, OnceFollows DEF Follows
  <2>6. Remembers(Leave(g), resumed, answered)
    BY <1>3, <2>1, <2>3, OnceFollows DEF Follows
  <2> QED BY <2>1, <2>4, <2>5, <2>6, OnceStep
<1>5. ASSUME Run(p, id) PROVE OnceInv'
  <2> DEFINE c == e.socket
             f == Leave(With("running", e.detached))
  <2>1. /\ c \in Conns /\ id \notin resumed[c] /\ e.open /\ answered' = answered
        /\ resumed' = [resumed EXCEPT ![c] = @ \cup {id}]
    BY <1>1, <1>5, TakeOK DEF Run, Take
  <2>2. engine' = [engine EXCEPT ![p] = f]
    <3>1. [e EXCEPT !.status = "running", !.lasttransid = id] = With("running", e.detached)
      BY <1>1 DEF Engine, Base
    <3> QED BY <1>5, <3>1, Zenon DEF Run, Become
  <2>3. f.open => f.lasttransid = id /\ f.socket = c
    <3>1. LET g == With("running", e.detached) IN
            RecordOK(p, g) /\ g.lasttransid = id /\ Follows(g, e)
      BY <1>2, <1>1 DEF Statuses
    <3> HIDE DEF With
    <3> QED BY <3>1, LeaveOK DEF Follows
  <2> HIDE DEF f
  <2>4. AnswersOK'
    BY <2>1 DEF OnceInv, AnswersOK, IInv, WireOK
  <2>5. ASSUME NEW q \in Procs PROVE Remembers(engine[q], resumed, answered)'
    <3>1. CASE q = p
      <4>1. engine'[q] = f /\ answered[c][id] = 0
        BY <2>1, <2>2, <3>1 DEF OnceInv, AnswersOK, IInv, EngineOK
      <4> QED BY <2>1, <2>3, <4>1 DEF Remembers
    <3>2. CASE q # p
      <4>1. engine[q].open => engine[q].socket # c /\ engine[q].socket \in Conns
        BY <2>1, <3>2 DEF OnceInv, IInv, OneProcessPerConnection, EngineOK, RecordOK, Engine
      <4>2. engine'[q] = engine[q]
        BY <2>2, <3>2 DEF OnceInv, IInv, EngineOK
      <4>3. \A d \in Conns : d # c => resumed'[d] = resumed[d]
        BY <2>1 DEF OnceInv, IInv, WireOK
      <4> QED BY <2>1, <4>1, <4>2, <4>3 DEF Remembers, OnceInv, Unanswered
    <3> QED BY <3>1, <3>2
  <2> QED BY <2>4, <2>5 DEF OnceInv, Unanswered
<1>6. ASSUME Stop(p, id) PROVE OnceInv'
  <2>1. id \notin resumed[e.socket] /\ resumed' = resumed /\ answered' = answered
    BY <1>1, <1>6, TakeOK DEF Stop
  <2>2. PICK g \in AfterSend(With("stopped", e.detached)) :
          engine' = [engine EXCEPT ![p] = Leave(g)]
    <3>1. [e EXCEPT !.status = "stopped", !.lasttransid = id] = With("stopped", e.detached)
      BY <1>1 DEF Engine, Base
    <3> QED BY <1>6, <3>1, Zenon DEF Stop, Become
  <2>3. LET f == With("stopped", e.detached) IN
          RecordOK(p, f) /\ Follows(f, e) /\ f.at = e.at /\ f.lasttransid = id
    BY <1>1, <1>2 DEF Statuses
  <2> HIDE DEF With
  <2>4. Remembers(Leave(g), resumed, answered)
    BY <1>3, <2>1, <2>2, <2>3, OnceFollows DEF Follows
  <2> QED BY <2>1, <2>2, <2>4, OnceStep
<1>7. ASSUME Detach(p, id) PROVE OnceInv'
  <2>1. resumed' = resumed /\ answered' = answered
    BY <1>7 DEF Detach
  <2>2. PICK g \in AfterSend(With("stopping", TRUE)) :
          engine' = [engine EXCEPT ![p] = Leave(Free(g))]
    BY <1>7, Zenon DEF Detach, Become, Base
  <2>3. LET f == With("stopping", TRUE) IN RecordOK(p, f) /\ Follows(f, e) /\ f.at = e.at
    BY <1>2 DEF Statuses
  <2> HIDE DEF With
  <2>4. RecordOK(p, Free(g)) /\ ~Free(g).open
    BY <1>3, <2>2, <2>3, FreeOK
  <2>5. Remembers(Leave(Free(g)), resumed, answered)
    BY <2>4, LeaveOK DEF Follows, Remembers
  <2> QED BY <2>1, <2>2, <2>5, OnceStep
<1> QED BY <1>4, <1>5, <1>6, <1>7

\* Between two reads only a break and the end of the request answer.
LEMMA OnceProgram ==
  ASSUME OnceInv, IInv', NEW p \in Procs,
         \/ ReadNothing(p) \/ Startup(p) \/ JustInTime(p) \/ ConnectSignal(p)
         \/ StatementConnects(p) \/ Break(p) \/ Notify(p) \/ End(p) \/ NextRequest(p)
  PROVE  OnceInv'
<1> DEFINE e == engine[p]
<1>1. RecordOK(p, e) /\ e \in Engine
  BY DEF OnceInv, IInv, EngineOK, RecordOK
\* What goes on from where the process was, or is not connected any more.
<1>2. ASSUME NEW f, engine' = [engine EXCEPT ![p] = f], UNCHANGED wire,
             \/ ~f.open
             \/ Follows(f, e) /\ f.lasttransid = e.lasttransid /\ e.at # "stopping"
      PROVE  OnceInv'
  <2>1. Remembers(f, resumed, answered)
    BY <1>2, OnceFollows DEF Remembers
  <2> QED BY <1>2, <2>1, OnceStep DEF wire
<1>3. CASE ReadNothing(p)
  <2>1. RecordOK(p, NotActive(e)) /\ ~NotActive(e).open
    BY <1>1, NotActiveOK
  <2>2. ~Leave(NotActive(e)).open
    BY <2>1, LeaveOK DEF Follows
  <2> QED BY <1>2, <1>3, <2>2 DEF ReadNothing, Become
<1>4. CASE Startup(p)
  <2> DEFINE f == [e EXCEPT !.at = "running"]
  <2>1. /\ RecordOK(p, f) /\ f.enabled = e.enabled /\ f.detached = e.detached
        /\ Follows(f, e) /\ f.lasttransid = e.lasttransid
    BY <1>1 DEF RecordOK, Engine, Places, Follows
  <2>2. \/ Become(p, {f}) /\ UNCHANGED wire
        \/ ~f.enabled /\ InitDebugger(p, f)
    BY <1>4 DEF Startup
  <2>3. e.at # "stopping"
    BY <1>4 DEF Startup
  <2> HIDE DEF f
  <2> QED BY <1>2, <2>1, <2>2, <2>3, OnceInitDebugger DEF Become
<1>5. CASE JustInTime(p)
  BY <1>1, <1>5, OnceInitDebugger DEF JustInTime
<1>6. CASE ConnectSignal(p)
  <2>1. LET f == [e EXCEPT !.do_connect = TRUE]
        IN  Follows(f, e) /\ f.lasttransid = e.lasttransid
    BY <1>1 DEF Engine, Follows
  <2> QED BY <1>2, <1>6, <2>1 DEF ConnectSignal, Become
<1>7. CASE StatementConnects(p)
  <2> DEFINE f == [e EXCEPT !.do_connect = FALSE]
  <2>1. /\ RecordOK(p, f) /\ f.enabled = e.enabled
        /\ Follows(f, e) /\ f.lasttransid = e.lasttransid
    BY <1>1 DEF RecordOK, Engine, Follows
  <2>2. /\ e.at # "stopping"
        /\ \/ Become(p, {f}) /\ UNCHANGED wire
           \/ ~f.enabled /\ InitDebugger(p, f)
    BY <1>7, <2>1 DEF StatementConnects
  <2> HIDE DEF f
  <2> QED BY <1>2, <2>1, <2>2, OnceInitDebugger DEF Become
<1>8. CASE Break(p)
  <2> DEFINE b == [e EXCEPT !.status = "break"]
  <2>1. RecordOK(p, b) /\ Follows(b, e) /\ b.open = e.open /\ b.socket = e.socket
        /\ b.lasttransid = e.lasttransid
    BY <1>1 DEF RecordOK, Engine, Follows, Statuses
  <2> HIDE DEF b
  <2>2. /\ Answer(b, b.lasttransid) /\ e.at # "stopping" /\ resumed' = resumed
        /\ \E f \in AfterSend(b) :
             engine' = [engine EXCEPT ![p] = [f EXCEPT !.lasttransid = None, !.at = "break"]]
    <3>1. Answer(b, b.lasttransid) /\ e.at # "stopping" /\ resumed' = resumed
      BY <1>8, <2>1 DEF Break, b
    <3> QED BY <1>8, <3>1, Zenon DEF Break, Become, b
  <2>3. PICK f \in AfterSend(b) :
          engine' = [engine EXCEPT ![p] = [f EXCEPT !.lasttransid = None, !.at = "break"]]
    BY <2>2
  <2>4. LET g == [f EXCEPT !.lasttransid = None, !.at = "break"]
        IN  g.lasttransid = None /\ Follows(g, e)
    <3>1. f \in Engine /\ Follows(f, e)
      BY <2>1, AfterSendOK DEF Follows, RecordOK
    <3> QED BY <3>1 DEF Engine, Follows
  <2> QED BY <2>1, <2>2, <2>3, <2>4, OnceAnswer
<1>9. CASE Notify(p)
  <2>1. PICK f \in AfterSend(e) : engine' = [engine EXCEPT ![p] = f]
    BY <1>9, Zenon DEF Notify, Become
  <2>2. Follows(f, e) /\ f.lasttransid = e.lasttransid
    BY <1>1, AfterSendOK
  <2> QED BY <1>2, <1>9, <2>1, <2>2 DEF Notify
<1>10. CASE End(p)
  <2> DEFINE b == [e EXCEPT !.status = "stopping"]
  <2>1. RecordOK(p, b) /\ Follows(b, e) /\ b.open = e.open /\ b.socket = e.socket
        /\ b.lasttransid = e.lasttransid
    BY <1>1 DEF RecordOK, Engine, Follows, Statuses
  <2> HIDE DEF b
  <2>2. CASE e.enabled
    <3>1. Answer(b, b.lasttransid) /\ e.at # "stopping" /\ resumed' = resumed
      BY <1>10, <2>1, <2>2 DEF End, b
    <3>2. PICK f \in AfterSend(b) : engine' = [engine EXCEPT ![p] = [f EXCEPT !.at = "stopping"]]
      BY <1>10, <2>2, Zenon DEF End, Become, b
    <3>3. LET g == [f EXCEPT !.at = "stopping"] IN g.at = "stopping" /\ Follows(g, e)
      <4>1. f \in Engine /\ Follows(f, e)
        BY <2>1, AfterSendOK DEF Follows, RecordOK
      <4> QED BY <4>1 DEF Engine, Follows
    <3> QED BY <2>1, <3>1, <3>2, <3>3, OnceAnswer
  <2>3. CASE ~e.enabled
    <3>1. ~[e EXCEPT !.at = "ended"].open
      BY <1>1, <2>3 DEF RecordOK, Engine
    <3> QED BY <1>2, <1>10, <2>3, <3>1 DEF End, Become, wire
  <2> QED BY <2>2, <2>3
<1>11. CASE NextRequest(p)
  <2>1. RecordOK(p, NotActive(e)) /\ ~NotActive(e).open
    BY <1>1, NotActiveOK
  <2>2. ~[NotActive(e) EXCEPT !.at = "fresh", !.detached = FALSE,
                              !.do_connect = FALSE, !.requests = @ + 1].open
    BY <2>1 DEF RecordOK, Engine
  <2> QED BY <1>2, <1>11, <2>2 DEF NextRequest, Become
<1> QED BY <1>3, <1>4, <1>5, <1>6, <1>7, <1>8, <1>9, <1>10, <1>11

\* The child of a fork remembers an id, but has no connection to answer on.
LEMMA OnceFork ==
  ASSUME OnceInv, IInv', NEW p \in Procs, NEW q \in Procs, Fork(p, q)
  PROVE  OnceInv'
<1>1. RecordOK(p, engine[p])
  BY DEF OnceInv, IInv, EngineOK
<1>2. CASE engine[p].enabled
  <2>1. RecordOK(p, NotActive(engine[p])) /\ ~NotActive(engine[p]).enabled
    BY <1>1, NotActiveOK DEF RecordOK
  <2>2. RecordOK(q, NotActive(engine[p]))
    BY <2>1 DEF RecordOK
  <2> QED BY <1>2, <2>1, <2>2, OnceInitDebugger DEF Fork
<1>3. CASE ~engine[p].enabled
  <2>1. Remembers(engine[p], resumed, answered)
    BY <1>1, <1>3 DEF RecordOK, Remembers
  <2> QED BY <1>3, <2>1, OnceStep DEF Fork, Become, wire
<1> QED BY <1>2, <1>3

\* OnceInv is inductive.
LEMMA OnceNext == OnceInv /\ [Next]_vars => OnceInv'
<1> SUFFICES ASSUME OnceInv, [Next]_vars PROVE OnceInv'
  OBVIOUS
<1>1. IInv'
  BY NextInv DEF OnceInv
<1>2. ASSUME NEW p \in Procs, Process(p) PROVE OnceInv'
  BY <1>1, <1>2, OnceCommand, OnceProgram, OnceFork DEF Process, Command
<1>3. ASSUME NEW c \in Conns, Client(c) PROVE OnceInv'
  <2>1. UNCHANGED <<engine, resumed, answered>>
    BY <1>3 DEF Client, CloseConnection, Send
  <2> QED BY <1>1, <2>1 DEF OnceInv, Unanswered, AnswersOK, Remembers
<1>4. CASE UNCHANGED vars
  BY <1>1, <1>4 DEF vars, OnceInv, Unanswered, AnswersOK, Remembers
<1> QED BY <1>2, <1>3, <1>4 DEF Next

\* A client never gets a second response to a run or a step command.
THEOREM AnsweredOnceCorrect == Spec => []ContinuationAnsweredOnce
<1>1. Init => OnceInv
  <2> SUFFICES ASSUME Init PROVE OnceInv
    OBVIOUS
  <2>1. IInv
    BY InitInv
  <2>2. AnswersOK /\ \A c \in Conns : resumed[c] = {}
    BY DEF Init, AnswersOK
  <2> QED BY <2>1, <2>2
       DEF OnceInv, Unanswered, Remembers, IInv, EngineOK, RecordOK, Engine
<1>2. OnceInv => ContinuationAnsweredOnce
  BY DEF OnceInv, AnswersOK, ContinuationAnsweredOnce
<1> QED BY <1>1, <1>2, OnceNext, PTL DEF Spec
-----------------------------------------------------------------------------
(* Every behaviour of DbgpSession is one that module DebugConnection         *)
(* promises to a client, for every number of processes, connections,         *)
(* commands and requests.                                                    *)

(* What a process owes the client of a connection that is alive. *)

\* While the client has the turn nothing is owed to it; while the program runs,
\* at most the continuation whose id the process remembers.
Owes(e, pr, res, ans) ==
  e.open /\ pr[e.socket] = "open" =>
    \A i \in res[e.socket] :
      ans[e.socket][i] = 0 => e.at \notin Loops /\ i = e.lasttransid

Settled     == \A p \in Procs : Owes(engine[p], peer, resumed, answered)
UnusedIsNew == \A c \in Conns : peer[c] = "unused" => resumed[c] = {}

RefInv == IInv /\ Settled /\ UnusedIsNew

\* A step of one process that touches no other connection than its own.
Local(p, f) ==
  /\ engine' = [engine EXCEPT ![p] = f]
  /\ \A c \in Conns : c # engine[p].socket \/ ~engine[p].open =>
       /\ peer'[c] = peer[c] \/ peer[c] = "unused"
       /\ resumed'[c] = resumed[c] /\ answered'[c] = answered[c]
  /\ \A c \in Conns : peer[c] = "unused" => resumed'[c] = resumed[c]

\* Such a step keeps the invariant, if it does so for the process itself.
LEMMA LocalOK ==
  ASSUME RefInv, IInv', NEW p \in Procs, NEW f, Local(p, f), Owes(f, peer', resumed', answered'),
         \A c \in Conns : peer'[c] = "unused" => peer[c] = "unused"
  PROVE  RefInv'
<1>1. /\ engine'[p] = f
      /\ \A q \in Procs \ {p} : engine'[q] = engine[q]
  BY DEF RefInv, IInv, EngineOK, Local
<1>2. UnusedIsNew'
  BY DEF RefInv, UnusedIsNew, Local
<1>3. ASSUME NEW q \in Procs PROVE Owes(engine[q], peer, resumed, answered)'
  <2>1. CASE q = p
    BY <1>1, <2>1 DEF Owes
  <2>2. CASE q # p
    <3>1. engine[q].open =>
            /\ engine[q].socket \in Conns /\ peer[engine[q].socket] # "unused"
            /\ engine[q].socket # engine[p].socket \/ ~engine[p].open
      BY <2>2 DEF RefInv, IInv, EngineOK, PeersOK, OneProcessPerConnection, RecordOK, Engine
    <3>2. Owes(engine[q], peer, resumed, answered) /\ engine'[q] = engine[q]
      BY <1>1, <2>2 DEF RefInv, Settled
    <3> QED BY <3>1, <3>2 DEF Owes, Local
  <2> QED BY <2>1, <2>2
<1> QED BY <1>2, <1>3 DEF RefInv, Settled

\* From the command loop nothing is owed, wherever the process goes.
LEMMA OwesFromLoop ==
  ASSUME RefInv, NEW p \in Procs, NEW f, Follows(f, engine[p]), engine[p].at \in Loops
  PROVE  Owes(f, peer, resumed, answered)
BY DEF RefInv, Settled, Owes, Follows

\* From the program, what is owed is what the process still remembers.
LEMMA OwesFromProgram ==
  ASSUME RefInv, NEW p \in Procs, NEW f, Follows(f, engine[p]),
         f.open => f.at \notin Loops /\ f.lasttransid = engine[p].lasttransid
  PROVE  Owes(f, peer, resumed, answered)
BY DEF RefInv, Settled, Owes, Follows

\* The program stops: its response has paid what was owed.
LEMMA OwesAnswered ==
  ASSUME RefInv, NEW p \in Procs, NEW b, NEW f, Answer(b, b.lasttransid),
         b.open = engine[p].open, b.socket = engine[p].socket, b.enabled,
         b.lasttransid = engine[p].lasttransid, Follows(f, b)
  PROVE  /\ Owes(f, peer, resumed, answered')
         /\ \A c \in Conns : c # engine[p].socket => answered'[c] = answered[c]
<1> DEFINE id == b.lasttransid
           c  == b.socket
<1>1. CASE Delivered(b) /\ id \in resumed[c]
  <2>1. c \in Conns /\ id \in Ids /\ engine[p].open
    BY <1>1 DEF Delivered, MaySend, RefInv, IInv, EngineOK, RecordOK, Engine, WireOK
  <2> DEFINE row == [answered[c] EXCEPT ![id] = answered[c][id] + 1]
  <2>2. answered \in [Conns -> [Ids -> Nat]]
    BY DEF RefInv, IInv, WireOK
  <2>3. row[id] # 0 /\ \A i \in Ids : i # id => row[i] = answered[c][i]
    BY <2>1, <2>2
  <2>4. answered' = [answered EXCEPT ![c] = row]
    BY <1>1 DEF Answer
  <2> HIDE DEF row
  <2>5. answered'[c] = row /\ \A d \in Conns : d # c => answered'[d] = answered[d]
    BY <2>1, <2>2, <2>4
  <2>6. resumed[c] \subseteq Ids
    BY <2>1 DEF RefInv, IInv, WireOK
  <2>7. \A i \in resumed[c] : answered'[c][i] = 0 => FALSE
    BY <1>1, <2>1, <2>3, <2>5, <2>6 DEF RefInv, Settled, Owes, Delivered
  <2> QED BY <2>5, <2>7 DEF Owes, Follows
<1>2. CASE ~(Delivered(b) /\ id \in resumed[c])
  <2>1. answered' = answered
    BY <1>2 DEF Answer
  <2>2. b.open => ~(peer[c] = "open" /\ id \in resumed[c])
    BY <1>2 DEF Delivered, MaySend
  <2> QED BY <2>1, <2>2 DEF RefInv, Settled, Owes, Follows
<1> QED BY <1>1, <1>2
-----------------------------------------------------------------------------
(* What the client of DebugConnection sees. *)

HeldBy(q, c) == engine[q].open /\ engine[q].socket = c

TurnOf(e, pr) ==
  IF pr # "open" THEN "closed" ELSE IF e.at \in Loops THEN "client" ELSE "engine"

\* The turn and what is owed, without the choice of a holder.
Seen ==
  \A c \in Conns :
    /\ \A q \in Procs : HeldBy(q, c) =>
         /\ Turn(c) = TurnOf(engine[q], peer[c])
         /\ Owed(c) = {i \in resumed[c] : peer[c] = "open" /\ answered[c][i] = 0}
    /\ (\A q \in Procs : ~HeldBy(q, c)) =>
         /\ Turn(c) = IF peer[c] = "unused" THEN "none" ELSE "closed"
         /\ Owed(c) = {}

\* Only one process holds a connection, so the holder chosen is that one.
LEMMA SeenOK == RefInv => Seen
<1> SUFFICES ASSUME RefInv, NEW c \in Conns
             PROVE  /\ \A q \in Procs : HeldBy(q, c) =>
                         /\ Turn(c) = TurnOf(engine[q], peer[c])
                         /\ Owed(c) = {i \in resumed[c] : peer[c] = "open" /\ answered[c][i] = 0}
                    /\ (\A q \in Procs : ~HeldBy(q, c)) =>
                         /\ Turn(c) = IF peer[c] = "unused" THEN "none" ELSE "closed"
                         /\ Owed(c) = {}
  BY DEF Seen
<1>1. ASSUME NEW q \in Procs, HeldBy(q, c)
      PROVE  /\ Turn(c) = TurnOf(engine[q], peer[c])
             /\ Owed(c) = {i \in resumed[c] : peer[c] = "open" /\ answered[c][i] = 0}
  <2>1. Holder(c) = q
    <3>1. \A r \in Procs : HeldBy(r, c) => r = q
      BY <1>1 DEF RefInv, IInv, OneProcessPerConnection, HeldBy
    <3>2. Holder(c) \in Procs /\ HeldBy(Holder(c), c)
      BY <1>1, Zenon DEF Holder, HeldBy
    <3> QED BY <3>1, <3>2
  <2>2. Held(c) /\ peer[c] # "unused"
    BY <1>1 DEF Held, HeldBy, RefInv, IInv, PeersOK
  <2>3. Alive(c) <=> peer[c] = "open"
    BY <2>2 DEF Alive
  <2> QED BY <2>1, <2>2, <2>3 DEF Turn, TurnOf, Owed
<1>2. ASSUME \A q \in Procs : ~HeldBy(q, c)
      PROVE  Turn(c) = (IF peer[c] = "unused" THEN "none" ELSE "closed") /\ Owed(c) = {}
  <2>1. ~Alive(c)
    BY <1>2 DEF Alive, Held, HeldBy
  <2> QED BY <2>1 DEF Turn, Owed
<1> QED BY <1>1, <1>2

\* The same after a step.
LEMMA SeenNext == RefInv' => Seen'
BY SeenOK, PTL

Unseen(c) == Turn(c)' = Turn(c) /\ Owed(c)' = Owed(c)

\* The turns allowed by DebugConnection, one connection at a time.
LEMMA OneConnection ==
  ASSUME NEW c \in Conns, \A d \in Conns : d # c => Unseen(d),
         \/ Unseen(c)
         \/ Turn(c) = "none" /\ Turn(c)' = "client" /\ Owed(c)' = Owed(c)
         \/ Turn(c) = "client" /\ Turn(c)' = "engine"
            /\ \E i \in Ids : Owed(c)' \in {{}, {i}}
         \/ Turn(c) = "engine" /\ Turn(c)' = "client" /\ Owed(c)' = {}
         \/ Turn(c) \in {"client", "engine"} /\ Turn(c)' = "closed" /\ Owed(c)' = {}
  PROVE  [Connection!Next]_(Connection!vars)
<1> DEFINE t == [d \in Conns |-> Turn(d)]
           o == [d \in Conns |-> Owed(d)]
<1>1. /\ t' = [t EXCEPT ![c] = Turn(c)']
      /\ o' = [o EXCEPT ![c] = Owed(c)']
  BY DEF Unseen
<1>2. Unseen(c) => t' = t /\ o' = o
  BY DEF Unseen
<1>3. Owed(c)' = Owed(c) => o' = o
  BY DEF Unseen
<1>4. t[c] = Turn(c)
  OBVIOUS
<1> HIDE DEF t, o
<1>5. CASE Unseen(c)
  BY <1>2, <1>5 DEF Connection!vars, t, o
<1>6. CASE Turn(c) = "none" /\ Turn(c)' = "client" /\ Owed(c)' = Owed(c)
  <2>1. Connection!Open(c)
    BY <1>1, <1>3, <1>4, <1>6 DEF Connection!Open, t, o
  <2> QED BY <2>1 DEF Connection!Next
<1>7. CASE Turn(c) = "client" /\ Turn(c)' = "engine" /\ \E i \in Ids : Owed(c)' \in {{}, {i}}
  <2>1. PICK i \in Ids : Owed(c)' \in {{}, {i}}
    BY <1>7
  <2>2. Connection!Resume(c, Owed(c)')
    BY <1>1, <1>4, <1>7, <2>1 DEF Connection!Resume, t, o
  <2>3. Owed(c)' \in {{}} \cup {{j} : j \in Ids}
    BY <2>1
  <2> QED BY <2>2, <2>3 DEF Connection!Next
<1>8. CASE Turn(c) = "engine" /\ Turn(c)' = "client" /\ Owed(c)' = {}
  <2>1. Connection!Answer(c)
    BY <1>1, <1>4, <1>8 DEF Connection!Answer, t, o
  <2> QED BY <2>1 DEF Connection!Next
<1>9. CASE Turn(c) \in {"client", "engine"} /\ Turn(c)' = "closed" /\ Owed(c)' = {}
  <2>1. Connection!Close(c)
    BY <1>1, <1>4, <1>9 DEF Connection!Close, t, o
  <2> QED BY <2>1 DEF Connection!Next
<1> QED BY <1>5, <1>6, <1>7, <1>8, <1>9

Refined == RefInv' /\ [Connection!Next]_(Connection!vars)

\* A connection that does not change is seen unchanged.
LEMMA UnseenOK ==
  ASSUME RefInv, RefInv', NEW c \in Conns,
         peer'[c] = peer[c], resumed'[c] = resumed[c], answered'[c] = answered[c],
         \A q \in Procs : /\ HeldBy(q, c)' <=> HeldBy(q, c)
                          /\ HeldBy(q, c) => engine'[q] = engine[q]
  PROVE  Unseen(c)
BY SeenOK, SeenNext DEF Seen, Unseen, TurnOf

\* A step of one process that makes no connection.
LEMMA StepRefines ==
  ASSUME RefInv, IInv', NEW p \in Procs, NEW f, engine' = [engine EXCEPT ![p] = f],
         Follows(f, engine[p]), peer' = peer, Owes(f, peer', resumed', answered'),
         \A d \in Conns : d # engine[p].socket \/ ~engine[p].open =>
           resumed'[d] = resumed[d] /\ answered'[d] = answered[d],
         f.open => \/ resumed' = resumed /\ answered' = answered
                   \/ engine[p].at \in Loops \/ f.at \in Loops,
         f.open => Ids # {} \/ engine[p].at \notin Loops
  PROVE  Refined
<1> PICK c : c = engine[p].socket
  OBVIOUS
<1>1. /\ engine'[p] = f
      /\ \A q \in Procs \ {p} : engine'[q] = engine[q]
  BY DEF RefInv, IInv, EngineOK
<1>2. engine[p].open => c \in Conns /\ peer[c] # "unused"
  BY DEF RefInv, IInv, EngineOK, PeersOK, RecordOK, Engine
<1>3. Local(p, f)
  BY <1>2 DEF Local
<1>4. RefInv'
  BY <1>3, LocalOK
<1>5. ASSUME NEW d \in Conns, d # c \/ ~engine[p].open PROVE Unseen(d)
  <2>1. \A q \in Procs : /\ HeldBy(q, d)' <=> HeldBy(q, d)
                         /\ HeldBy(q, d) => engine'[q] = engine[q]
    BY <1>1, <1>5 DEF HeldBy, Follows
  <2> QED BY <1>4, <1>5, <2>1, UnseenOK
<1>6. CASE ~engine[p].open
  BY <1>4, <1>5, <1>6, Zenon DEF Refined, Connection!vars, Unseen
<1>7. CASE engine[p].open
  <2>1. /\ c \in Conns /\ HeldBy(p, c)
        /\ Turn(c) = TurnOf(engine[p], peer[c])
        /\ Owed(c) = {i \in resumed[c] : peer[c] = "open" /\ answered[c][i] = 0}
    BY <1>2, <1>7, SeenOK DEF HeldBy, Seen
  <2>2. engine[p].at \in Loops => Owed(c) = {}
    BY <1>7, <2>1 DEF RefInv, Settled, Owes
  <2>3. CASE f.open
    <3>1. /\ HeldBy(p, c)' /\ f.socket = c
          /\ Turn(c)' = TurnOf(f, peer[c])
          /\ Owed(c)' = {i \in resumed'[c] : peer[c] = "open" /\ answered'[c][i] = 0}
      BY <1>1, <1>4, <1>7, <2>1, <2>3, SeenNext DEF HeldBy, Seen, Follows
    <3>2. f.at \in Loops => Owed(c)' = {}
      BY <2>3, <3>1 DEF Owes
    <3>3. Owed(c)' \subseteq {f.lasttransid} /\ Owed(c)' \subseteq Ids
      BY <1>4, <2>1, <2>3, <3>1 DEF Owes, RefInv, IInv, WireOK
    <3>4. CASE peer[c] # "open"
      BY <1>5, <2>1, <3>1, <3>4, <1>4, OneConnection DEF TurnOf, Unseen, Refined
    <3>5. CASE peer[c] = "open" /\ f.at \in Loops
      BY <1>4, <1>5, <2>1, <2>2, <3>1, <3>2, <3>5, OneConnection DEF TurnOf, Unseen, Refined
    <3>6. CASE peer[c] = "open" /\ f.at \notin Loops /\ engine[p].at \notin Loops
      BY <1>4, <1>5, <2>1, <2>3, <3>1, <3>6, OneConnection DEF TurnOf, Unseen, Refined
    <3>7. CASE peer[c] = "open" /\ f.at \notin Loops /\ engine[p].at \in Loops
      <4>1. Ids # {}
        BY <2>3, <3>7
      <4>2. \E i \in Ids : Owed(c)' \in {{}, {i}}
        BY <3>3, <4>1
      <4> QED BY <1>4, <1>5, <2>1, <3>1, <3>7, <4>2, OneConnection DEF TurnOf, Refined
    <3> QED BY <3>4, <3>5, <3>6, <3>7
  <2>4. CASE ~f.open
    <3>1. \A q \in Procs : ~HeldBy(q, c)'
      BY <1>1, <1>7, <2>4 DEF HeldBy, RefInv, IInv, OneProcessPerConnection
    <3>2. Turn(c)' = "closed" /\ Owed(c)' = {}
      BY <1>2, <1>4, <1>7, <2>1, <3>1, SeenNext DEF Seen
    <3>3. Turn(c) \in {"client", "engine"} \/ (Turn(c) = "closed" /\ Owed(c) = {})
      BY <2>1 DEF TurnOf
    <3> QED BY <1>4, <1>5, <2>1, <3>2, <3>3, OneConnection DEF Unseen, Refined
  <2> QED BY <2>3, <2>4
<1> QED BY <1>6, <1>7

\* A process without a connection connects, or fails to.
LEMMA ConnectRefines ==
  ASSUME RefInv, IInv', NEW p \in Procs, ~engine[p].open,
         NEW e, RecordOK(p, e), ~e.enabled, InitDebugger(p, e)
  PROVE  Refined
<1>1. CASE Become(p, {[e EXCEPT !.socket = None]}) /\ UNCHANGED wire
  <2> DEFINE f == [e EXCEPT !.socket = None]
  <2>1. ~f.open
    BY DEF RecordOK, Engine
  <2>2. engine' = [engine EXCEPT ![p] = f]
    BY <1>1 DEF Become
  <2> HIDE DEF f
  <2> QED BY <1>1, <2>1, <2>2, StepRefines DEF wire, Follows, Owes
<1>2. ASSUME NEW c \in Unused, Become(p, {Connected(e, p, c)}),
             peer' = [peer EXCEPT ![c] = "open"], UNCHANGED <<inbox, read, resumed, answered>>
      PROVE  Refined
  <2> DEFINE f == Connected(e, p, c)
  <2>1. c \in Conns /\ peer[c] = "unused"
    BY DEF Unused
  <2>2. f.open /\ f.socket = c /\ f.at = "init"
    BY DEF Connected, RecordOK, Engine
  <2>3. engine' = [engine EXCEPT ![p] = f]
    BY <1>2 DEF Become
  <2> HIDE DEF f
  <2>4. /\ engine'[p] = f
        /\ \A q \in Procs \ {p} : engine'[q] = engine[q]
    BY <2>3 DEF RefInv, IInv, EngineOK
  <2>5. peer'[c] = "open" /\ \A d \in Conns : d # c => peer'[d] = peer[d]
    BY <1>2, <2>1 DEF RefInv, IInv, WireOK
  <2>6. resumed[c] = {}
    BY <2>1 DEF RefInv, UnusedIsNew
  <2>7. RefInv'
    <3>1. Owes(f, peer', resumed', answered')
      BY <1>2, <2>2, <2>6 DEF Owes
    <3>2. Local(p, f)
      BY <1>2, <2>1, <2>2, <2>3, <2>5 DEF Local
    <3>3. \A d \in Conns : peer'[d] = "unused" => peer[d] = "unused"
      BY <2>5
    <3> QED BY <3>1, <3>2, <3>3, LocalOK
  <2>8. ASSUME NEW d \in Conns, d # c PROVE Unseen(d)
    <3>1. \A q \in Procs : /\ HeldBy(q, d)' <=> HeldBy(q, d)
                           /\ HeldBy(q, d) => engine'[q] = engine[q]
      BY <2>2, <2>4, <2>8 DEF HeldBy
    <3> QED BY <1>2, <2>5, <2>7, <2>8, <3>1, UnseenOK
  <2>9. Turn(c) = "none" /\ Owed(c) = {}
    <3>1. \A q \in Procs : ~HeldBy(q, c)
      BY <2>1 DEF HeldBy, RefInv, IInv, PeersOK
    <3> QED BY <2>1, <3>1, SeenOK DEF Seen
  <2>10. Turn(c)' = "client" /\ Owed(c)' = {}
    <3>1. HeldBy(p, c)'
      BY <2>2, <2>4 DEF HeldBy
    <3> QED BY <1>2, <2>1, <2>2, <2>4, <2>5, <2>6, <2>7, <3>1, SeenNext DEF Seen, TurnOf, Loops
  <2> QED BY <2>1, <2>7, <2>8, <2>9, <2>10, OneConnection DEF Refined
<1> QED BY <1>1, <1>2, FirstUnused DEF InitDebugger
-----------------------------------------------------------------------------
(* The actions. *)

\* A command leaves the turn with the client, resumes the program or ends the connection.
LEMMA CommandRefines ==
  ASSUME RefInv, IInv', NEW p \in Procs, NEW id \in Ids
  PROVE  /\ \A name \in Names : Reply(p, id, name) => Refined
         /\ Run(p, id) \/ Stop(p, id) \/ Detach(p, id) => Refined
<1> DEFINE e == engine[p]
           With(s, d) == Base(e, s, id, d)
<1>1. /\ RecordOK(p, e) /\ e.status \in Statuses /\ e.detached \in BOOLEAN /\ e \in Engine /\ IInv
      /\ Ids # {}
  BY DEF RefInv, IInv, EngineOK, RecordOK, Engine
<1>2. \A s \in Statuses, d \in BOOLEAN :
        /\ RecordOK(p, With(s, d)) /\ Follows(With(s, d), e)
        /\ With(s, d).at = e.at /\ With(s, d).lasttransid = id
  BY <1>1, BaseOK
\* Whatever goes on after a command that is answered at once.
<1>3. ASSUME NEW f, Follows(f, e), e.at \in Loops,
             engine' = [engine EXCEPT ![p] = f], peer' = peer, resumed' = resumed,
             answered' = answered
      PROVE  Refined
  <2>1. Owes(f, peer, resumed, answered)
    BY <1>3, OwesFromLoop
  <2> QED BY <1>1, <1>3, <2>1, StepRefines
<1>4. ASSUME NEW f, RecordOK(p, f), Follows(f, e), NEW g \in AfterSend(f)
      PROVE  /\ RecordOK(p, g) /\ Follows(g, e) /\ g.at = f.at
             /\ Follows(Leave(g), e)
  <2>1. RecordOK(p, g) /\ Follows(g, f) /\ g.at = f.at
    BY <1>4, AfterSendOK
  <2>2. Follows(Leave(g), g)
    BY <2>1, LeaveOK
  <2> QED BY <1>4, <2>1, <2>2 DEF Follows
<1>5. ASSUME NEW name \in Names, Reply(p, id, name) PROVE Refined
  <2>1. e.at \in Loops /\ peer' = peer /\ resumed' = resumed /\ answered' = answered
    BY <1>5 DEF Reply, Take
  <2>2. PICK f \in {e, With(e.status, e.detached)} :
          \E g \in AfterSend(f) : engine' = [engine EXCEPT ![p] = g]
                                  \/ engine' = [engine EXCEPT ![p] = Leave(g)]
    BY <1>1, <1>5, ReplyBecomes
  <2>3. RecordOK(p, f) /\ Follows(f, e)
    BY <1>1, <1>2, <2>2 DEF Follows
  <2>4. PICK g \in AfterSend(f) : engine' = [engine EXCEPT ![p] = g]
                                  \/ engine' = [engine EXCEPT ![p] = Leave(g)]
    BY <2>2
  <2> QED BY <1>3, <1>4, <2>1, <2>3, <2>4
<1>6. ASSUME Run(p, id) PROVE Refined
  <2> PICK c : c = e.socket
    OBVIOUS
  <2> DEFINE f == Leave(With("running", e.detached))
  <2>1. /\ c \in Conns /\ e.open /\ e.at \in Loops /\ answered' = answered
        /\ resumed' = [resumed EXCEPT ![c] = @ \cup {id}] /\ peer' = peer
    BY <1>1, <1>6, TakeOK DEF Run, Take
  <2>2. engine' = [engine EXCEPT ![p] = f]
    <3>1. [e EXCEPT !.status = "running", !.lasttransid = id] = With("running", e.detached)
      BY <1>1 DEF Engine, Base
    <3> QED BY <1>6, <3>1, Zenon DEF Run, Become
  <2>3. /\ Follows(f, e)
        /\ f.open => f.lasttransid = id /\ f.socket = c /\ f.at \notin Loops
    <3>1. LET g == With("running", e.detached) IN
            RecordOK(p, g) /\ g.lasttransid = id /\ Follows(g, e)
      BY <1>1, <1>2 DEF Statuses
    <3> HIDE DEF With
    <3> QED BY <3>1, LeaveOK DEF Follows
  <2> HIDE DEF f
  <2>4. /\ resumed'[c] = resumed[c] \cup {id}
        /\ \A d \in Conns : d # c => resumed'[d] = resumed[d]
    BY <2>1 DEF RefInv, IInv, WireOK
  <2>5. Owes(f, peer', resumed', answered')
    BY <2>1, <2>3, <2>4 DEF Owes, RefInv, Settled
  <2> QED BY <1>1, <2>1, <2>2, <2>3, <2>4, <2>5, StepRefines
<1>7. ASSUME Stop(p, id) PROVE Refined
  <2>1. e.at \in Loops /\ peer' = peer /\ resumed' = resumed /\ answered' = answered
    BY <1>7 DEF Stop, Take
  <2>2. PICK g \in AfterSend(With("stopped", e.detached)) :
          engine' = [engine EXCEPT ![p] = Leave(g)]
    <3>1. [e EXCEPT !.status = "stopped", !.lasttransid = id] = With("stopped", e.detached)
      BY <1>1 DEF Engine, Base
    <3> QED BY <1>7, <3>1, Zenon DEF Stop, Become
  <2>3. RecordOK(p, With("stopped", e.detached)) /\ Follows(With("stopped", e.detached), e)
    BY <1>1, <1>2 DEF Statuses
  <2> HIDE DEF With
  <2> QED BY <1>3, <1>4, <2>1, <2>2, <2>3
<1>8. ASSUME Detach(p, id) PROVE Refined
  <2>1. e.at \in Loops /\ peer' = peer /\ resumed' = resumed /\ answered' = answered
    BY <1>8 DEF Detach, Take
  <2>2. PICK g \in AfterSend(With("stopping", TRUE)) :
          engine' = [engine EXCEPT ![p] = Leave(Free(g))]
    BY <1>8, Zenon DEF Detach, Become, Base
  <2>3. RecordOK(p, With("stopping", TRUE)) /\ Follows(With("stopping", TRUE), e)
    BY <1>2 DEF Statuses
  <2> HIDE DEF With
  <2>4. RecordOK(p, Free(g)) /\ ~Free(g).open
    BY <1>4, <2>2, <2>3, FreeOK
  <2>5. Follows(Leave(Free(g)), e)
    BY <2>4, LeaveOK DEF Follows
  <2> QED BY <1>3, <2>1, <2>2, <2>5
<1> QED BY <1>5, <1>6, <1>7, <1>8

\* Between two reads the program connects, stops, ends or loses its connection.
LEMMA ProgramRefines ==
  ASSUME RefInv, IInv', NEW p \in Procs,
         \/ ReadNothing(p) \/ Startup(p) \/ JustInTime(p) \/ ConnectSignal(p)
         \/ StatementConnects(p) \/ Break(p) \/ Notify(p) \/ End(p) \/ NextRequest(p)
  PROVE  Refined
<1> DEFINE e == engine[p]
<1>1. RecordOK(p, e) /\ e \in Engine
  BY DEF RefInv, IInv, EngineOK, RecordOK
\* What goes on in the program, or loses the connection.
<1>2. ASSUME NEW f, engine' = [engine EXCEPT ![p] = f], UNCHANGED wire,
             \/ ~f.open
             \/ Follows(f, e) /\ f.lasttransid = e.lasttransid /\ f.at \notin Loops
                /\ e.at \notin Loops
      PROVE  Refined
  <2>1. Follows(f, e) /\ (f.open => e.at \notin Loops)
    BY <1>2 DEF Follows
  <2>2. Owes(f, peer, resumed, answered)
    BY <1>2, OwesFromProgram DEF Owes
  <2> QED BY <1>2, <2>1, <2>2, StepRefines DEF wire
<1>3. CASE ReadNothing(p)
  <2>1. RecordOK(p, NotActive(e)) /\ ~NotActive(e).open
    BY <1>1, NotActiveOK
  <2>2. ~Leave(NotActive(e)).open
    BY <2>1, LeaveOK DEF Follows
  <2> QED BY <1>2, <1>3, <2>2 DEF ReadNothing, Become
<1>4. CASE Startup(p)
  <2> DEFINE f == [e EXCEPT !.at = "running"]
  <2>1. /\ RecordOK(p, f) /\ f.enabled = e.enabled /\ f.detached = e.detached
        /\ Follows(f, e) /\ f.lasttransid = e.lasttransid /\ f.at \notin Loops
    BY <1>1 DEF RecordOK, Engine, Places, Loops, Follows
  <2>2. \/ Become(p, {f}) /\ UNCHANGED wire
        \/ ~f.enabled /\ InitDebugger(p, f)
    BY <1>4 DEF Startup
  <2>3. e.at \notin Loops
    BY <1>4 DEF Startup, Loops
  <2> HIDE DEF f
  <2>4. ~f.enabled => ~e.open
    BY <1>1, <2>1 DEF RecordOK
  <2> QED BY <1>2, <2>1, <2>2, <2>3, <2>4, ConnectRefines DEF Become
<1>5. CASE JustInTime(p)
  BY <1>1, <1>5, ConnectRefines DEF JustInTime, RecordOK
<1>6. CASE ConnectSignal(p)
  <2>1. LET f == [e EXCEPT !.do_connect = TRUE]
        IN  Follows(f, e) /\ f.lasttransid = e.lasttransid /\ f.at = e.at
    BY <1>1 DEF Engine, Follows
  <2> QED BY <1>2, <1>6, <2>1 DEF ConnectSignal, Become, Loops
<1>7. CASE StatementConnects(p)
  <2> DEFINE f == [e EXCEPT !.do_connect = FALSE]
  <2>1. /\ RecordOK(p, f) /\ f.enabled = e.enabled /\ f.at = e.at
        /\ Follows(f, e) /\ f.lasttransid = e.lasttransid
    BY <1>1 DEF RecordOK, Engine, Follows
  <2>2. /\ e.at \notin Loops
        /\ \/ Become(p, {f}) /\ UNCHANGED wire
           \/ ~f.enabled /\ InitDebugger(p, f)
    BY <1>7, <2>1 DEF StatementConnects, Loops
  <2> HIDE DEF f
  <2>3. ~f.enabled => ~e.open
    BY <1>1, <2>1 DEF RecordOK
  <2> QED BY <1>2, <2>1, <2>2, <2>3, ConnectRefines DEF Become
\* The program stops or ends: the client has the turn and is paid.
<1>8. ASSUME NEW b, NEW f, Answer(b, b.lasttransid), RecordOK(p, b), b.enabled,
             b.open = e.open, b.socket = e.socket, b.lasttransid = e.lasttransid,
             UNCHANGED <<peer, inbox, read, resumed>>, Follows(f, b), f.at \in Loops,
             e.at \notin Loops, engine' = [engine EXCEPT ![p] = f]
      PROVE  Refined
  <2>1. /\ Owes(f, peer, resumed, answered')
        /\ \A c \in Conns : c # e.socket => answered'[c] = answered[c]
    BY <1>8, OwesAnswered
  <2>2. Follows(f, e) /\ e.open
    BY <1>8 DEF Follows, RecordOK
  <2> QED BY <1>8, <2>1, <2>2, StepRefines
<1>9. CASE Break(p)
  <2> DEFINE b == [e EXCEPT !.status = "break"]
  <2>1. /\ RecordOK(p, b) /\ b.open = e.open /\ b.socket = e.socket
        /\ b.lasttransid = e.lasttransid /\ b.enabled = e.enabled
    BY <1>1 DEF RecordOK, Engine, Statuses
  <2> HIDE DEF b
  <2>2. /\ Answer(b, b.lasttransid) /\ e.at \notin Loops /\ b.enabled
        /\ UNCHANGED <<peer, inbox, read, resumed>>
    BY <1>9, <2>1 DEF Break, b, Loops
  <2>3. PICK f \in AfterSend(b) :
          engine' = [engine EXCEPT ![p] = [f EXCEPT !.lasttransid = None, !.at = "break"]]
    BY <1>9, Zenon DEF Break, Become, b
  <2>4. LET g == [f EXCEPT !.lasttransid = None, !.at = "break"]
        IN  g.at \in Loops /\ Follows(g, b)
    <3>1. f \in Engine /\ Follows(f, b)
      BY <2>1, AfterSendOK DEF RecordOK
    <3> QED BY <3>1 DEF Engine, Follows, Loops
  <2> QED BY <1>8, <2>1, <2>2, <2>3, <2>4
<1>10. CASE Notify(p)
  <2>1. PICK f \in AfterSend(e) : engine' = [engine EXCEPT ![p] = f]
    BY <1>10, Zenon DEF Notify, Become
  <2>2. Follows(f, e) /\ f.lasttransid = e.lasttransid /\ f.at = e.at
    BY <1>1, AfterSendOK
  <2> QED BY <1>2, <1>10, <2>1, <2>2 DEF Notify, Loops
<1>11. CASE End(p)
  <2> DEFINE b == [e EXCEPT !.status = "stopping"]
  <2>1. /\ RecordOK(p, b) /\ b.open = e.open /\ b.socket = e.socket
        /\ b.lasttransid = e.lasttransid /\ b.enabled = e.enabled
    BY <1>1 DEF RecordOK, Engine, Statuses
  <2> HIDE DEF b
  <2>2. CASE e.enabled
    <3>1. /\ Answer(b, b.lasttransid) /\ e.at \notin Loops /\ b.enabled
          /\ UNCHANGED <<peer, inbox, read, resumed>>
      BY <1>11, <2>1, <2>2 DEF End, b, Loops
    <3>2. PICK f \in AfterSend(b) : engine' = [engine EXCEPT ![p] = [f EXCEPT !.at = "stopping"]]
      BY <1>11, <2>2, Zenon DEF End, Become, b
    <3>3. LET g == [f EXCEPT !.at = "stopping"] IN g.at \in Loops /\ Follows(g, b)
      <4>1. f \in Engine /\ Follows(f, b)
        BY <2>1, AfterSendOK DEF RecordOK
      <4> QED BY <4>1 DEF Engine, Follows, Loops
    <3> QED BY <1>8, <2>1, <3>1, <3>2, <3>3
  <2>3. CASE ~e.enabled
    <3>1. ~[e EXCEPT !.at = "ended"].open
      BY <1>1, <2>3 DEF RecordOK, Engine
    <3> QED BY <1>2, <1>11, <2>3, <3>1 DEF End, Become, wire
  <2> QED BY <2>2, <2>3
<1>12. CASE NextRequest(p)
  <2>1. RecordOK(p, NotActive(e)) /\ ~NotActive(e).open
    BY <1>1, NotActiveOK
  <2>2. ~[NotActive(e) EXCEPT !.at = "fresh", !.detached = FALSE,
                              !.do_connect = FALSE, !.requests = @ + 1].open
    BY <2>1 DEF RecordOK, Engine
  <2> QED BY <1>2, <1>12, <2>2 DEF NextRequest, Become
<1> QED BY <1>3, <1>4, <1>5, <1>6, <1>7, <1>9, <1>10, <1>11, <1>12

\* The child of a fork has no connection but the one it makes.
LEMMA ForkRefines ==
  ASSUME RefInv, IInv', NEW p \in Procs, NEW q \in Procs, Fork(p, q)
  PROVE  Refined
<1>1. RecordOK(p, engine[p]) /\ ~engine[q].open
  BY DEF RefInv, IInv, EngineOK, RecordOK, Fork
<1>2. CASE engine[p].enabled
  <2>1. RecordOK(p, NotActive(engine[p])) /\ ~NotActive(engine[p]).enabled
    BY <1>1, NotActiveOK DEF RecordOK
  <2>2. RecordOK(q, NotActive(engine[p]))
    BY <2>1 DEF RecordOK
  <2> QED BY <1>1, <1>2, <2>1, <2>2, ConnectRefines DEF Fork
<1>3. CASE ~engine[p].enabled
  <2>1. ~engine[p].open
    BY <1>1, <1>3 DEF RecordOK
  <2> QED BY <1>3, <2>1, StepRefines DEF Fork, Become, wire, Follows, Owes
<1> QED BY <1>2, <1>3

\* Sending is not seen; closing is, when a process has the connection.
LEMMA ClientRefines ==
  ASSUME RefInv, IInv', NEW c \in Conns, Client(c)
  PROVE  Refined
<1>1. UNCHANGED <<engine, resumed, answered>>
  BY DEF Client, CloseConnection, Send
<1>2. \A d \in Conns : peer'[d] = peer[d] \/ (peer[d] = "open" /\ peer'[d] = "closed")
  BY DEF Client, CloseConnection, Send, RefInv, IInv, WireOK
<1>3. \A d \in Conns : d # c => peer'[d] = peer[d]
  BY DEF Client, CloseConnection, Send, RefInv, IInv, WireOK
<1>4. \A q \in Procs : engine[q].open => engine[q].socket \in Conns
  BY DEF RefInv, IInv, EngineOK, RecordOK, Engine
<1>5. RefInv'
  BY <1>1, <1>2, <1>4 DEF RefInv, Settled, Owes, UnusedIsNew
<1>6. \A d \in Conns : peer'[d] = peer[d] => Unseen(d)
  BY <1>1, <1>5, UnseenOK DEF HeldBy
<1>7. CASE peer[c] = "open" /\ peer'[c] = "closed"
  <2>1. CASE \E q \in Procs : HeldBy(q, c)
    <3>1. PICK q \in Procs : HeldBy(q, c)
      BY <2>1
    <3>2. Turn(c) \in {"client", "engine"}
      BY <1>7, <3>1, SeenOK DEF Seen, TurnOf
    <3>3. Turn(c)' = "closed" /\ Owed(c)' = {}
      BY <1>1, <1>5, <1>7, <3>1, SeenNext DEF Seen, TurnOf, HeldBy
    <3> QED BY <1>3, <1>5, <1>6, <3>2, <3>3, OneConnection DEF Refined
  <2>2. CASE \A q \in Procs : ~HeldBy(q, c)
    <3>1. Unseen(c)
      BY <1>1, <1>5, <1>7, <2>2, SeenOK, SeenNext DEF Seen, HeldBy, Unseen
    <3> QED BY <1>3, <1>5, <1>6, <3>1, OneConnection DEF Refined
  <2> QED BY <2>1, <2>2
<1>8. CASE peer'[c] = peer[c]
  BY <1>3, <1>5, <1>6, <1>8, OneConnection DEF Refined
<1> QED BY <1>2, <1>7, <1>8

\* Every step of DbgpSession is one of DebugConnection, or is not seen.
LEMMA NextRefines == RefInv /\ [Next]_vars => Refined
<1> SUFFICES ASSUME RefInv, [Next]_vars PROVE Refined
  OBVIOUS
<1>1. IInv'
  BY NextInv DEF RefInv
<1>2. ASSUME NEW p \in Procs, Process(p) PROVE Refined
  BY <1>1, <1>2, CommandRefines, ProgramRefines, ForkRefines DEF Process, Command
<1>3. ASSUME NEW c \in Conns, Client(c) PROVE Refined
  BY <1>1, <1>3, ClientRefines
<1>4. CASE UNCHANGED vars
  <2>1. RefInv'
    BY <1>1, <1>4 DEF vars, RefInv, Settled, Owes, UnusedIsNew
  <2>2. \A c \in Conns : Unseen(c)
    BY <1>4, <2>1, UnseenOK DEF vars, HeldBy
  <2> QED BY <2>1, <2>2 DEF Refined, Connection!vars, Unseen
<1> QED BY <1>2, <1>3, <1>4 DEF Next

\* Everything the debugger does to a connection is what DebugConnection allows:
\* above all, the client is never given the turn while a continuation is owed.
THEOREM ImplementsCorrect == Spec => ImplementsDebugConnection
<1>1. Init => RefInv /\ Connection!Init
  <2> SUFFICES ASSUME Init PROVE RefInv /\ Connection!Init
    OBVIOUS
  <2>1. \A p \in Procs : ~engine[p].open
    BY DEF Init, Unborn
  <2>2. RefInv
    BY <2>1, InitInv DEF Init, RefInv, Settled, Owes, UnusedIsNew
  <2>3. \A c \in Conns : Turn(c) = "none" /\ Owed(c) = {}
    BY DEF Init, Turn, Owed
  <2> QED BY <2>2, <2>3 DEF Connection!Init
<1>2. RefInv /\ [Next]_vars => RefInv' /\ [Connection!Next]_(Connection!vars)
  BY NextRefines DEF Refined
<1> QED BY <1>1, <1>2, PTL DEF Spec, ImplementsDebugConnection, Connection!Spec
=============================================================================
