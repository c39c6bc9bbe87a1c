---------------------------- MODULE DbgpSession ----------------------------
(***************************************************************************)
(* The life of debugging connections: when PHP processes connect to a      *)
(* client (debugger/com.c), the command loop and the states of the DBGp    *)
(* engine (debugger/handler_dbgp.c), the end of a request and fork         *)
(* (debugger/debugger.c).  The client and the network are external: the    *)
(* client may send any command at any time, also several ahead, and may    *)
(* close the connection at any time.                                       *)
(*                                                                         *)
(* A process is the record of the globals XG_DBG that matter here, and of  *)
(* where it is: in PHP code, or in one of the three places that read       *)
(* commands.  Between two reads a process is one step; what happens to the *)
(* connection meanwhile shows in the outcome of its writes.  Breakpoints   *)
(* are module Breakpoints' subject: here a program may stop anywhere.      *)
(***************************************************************************)
EXTENDS Integers, Sequences, FiniteSets

CONSTANTS
  Procs, Root,      \* processes; Root runs first, fork makes the others
  MaxConns,         \* bound: connections made
  MaxCommands,      \* bound: commands a client sends on a connection
  MaxAhead,         \* bound: commands sent and not read yet
  MaxRequests,      \* bound: requests a process serves
  Names,            \* the commands the client sends
  start_upon_error, \* xdebug.start_upon_error=yes
  mode_is_trigger   \* xdebug.start_with_request=trigger (or default), else yes

VARIABLES
  engine,    \* process -> its record
  peer,      \* connection -> the client's end: unused, open or closed
  inbox,     \* connection -> the commands sent that are not read yet
  read,      \* connection -> how many commands were read: the last transaction id
  resumed,   \* connection -> ids of the continuations that were read
  answered   \* connection -> continuation -> responses the client got for it

vars == <<engine, peer, inbox, read, resumed, answered>>
wire == <<peer, inbox, read, resumed, answered>>

Conns == 1..MaxConns
Ids   == 1..MaxCommands
None  == 0           \* no connection, no transaction id

\* "query" stands for the commands marked POST_MORTEM, "inspect" for the other
\* ones that do not continue the program, "run" for run and the step commands;
\* "unknown" is in no table, "malformed" does not parse or has no -i.
AllNames == {"query", "inspect", "run", "stop", "detach", "unknown", "malformed"}
Loops    == {"init", "break", "stopping"}
Places   == Loops \cup {"unborn", "fresh", "running", "ended", "crashed"}
Statuses == {"none", "starting", "stopping", "stopped", "running", "break", "detached"}

Engine == [at: Places, enabled: BOOLEAN, pid: Procs \cup {None},
           socket: Conns \cup {None}, open: BOOLEAN, status: Statuses,
           lasttransid: Ids \cup {None}, tables: {"none", "allocated", "freed"},
           detached: BOOLEAN, do_connect: BOOLEAN, requests: 0..MaxRequests]

ASSUME SessionAssumption ==
  /\ MaxConns \in Nat /\ MaxCommands \in Nat /\ MaxAhead \in Nat
  /\ MaxRequests \in Nat \ {0}
  /\ Names \subseteq AllNames /\ Root \in Procs /\ None \notin Procs
  /\ start_upon_error \in BOOLEAN /\ mode_is_trigger \in BOOLEAN
-----------------------------------------------------------------------------
(* What the functions of com.c do to a process. *)

\* Faulty: leaves the pid of the process that had the connection.
NotActiveKeepsPid(e) == [e EXCEPT !.enabled = FALSE, !.open = @ /\ ~e.enabled]

\* Faulty: forgets to close the socket.
NotActiveKeepsSocket(e) == [e EXCEPT !.enabled = FALSE, !.pid = None]

\* xdebug_mark_debug_connection_not_active, and xdebug_abort_debugger
NotActive(e) == [e EXCEPT !.enabled = FALSE, !.pid = None, !.open = @ /\ ~e.enabled]

\* send_message_ex: nothing is sent without a connection; to a client that has
\* gone away, a write is lost or it fails and the connection is given up.
MaySend(e)   == (e.status = "starting" \/ e.enabled) /\ e.open
Delivered(e) == MaySend(e) /\ peer[e.socket] = "open"
AfterSend(e) == {e} \cup (IF MaySend(e) /\ ~Delivered(e) THEN {NotActive(e)} ELSE {})
Answer(e, id) ==
  answered' = IF Delivered(e) /\ id \in resumed[e.socket]
              THEN [answered EXCEPT ![e.socket][id] = @ + 1] ELSE answered

Become(p, es) == \E e \in es : engine' = [engine EXCEPT ![p] = e]

\* xdebug_init_debugger and xdebug_dbgp_init: connect, send the init packet and
\* enter the command loop.  Tables an earlier connection left are not freed.
Connected(e, p, c) ==
  [e EXCEPT !.at = "init", !.enabled = TRUE, !.pid = p, !.socket = c, !.open = TRUE,
            !.status = "starting", !.lasttransid = None, !.tables = "allocated"]
Unused == {c \in Conns : peer[c] = "unused"}

\* The outcomes of trying to connect: there may be no client.
InitDebugger(p, e) ==
  \/ /\ Become(p, {[e EXCEPT !.socket = None]}) /\ UNCHANGED wire
  \/ /\ Unused # {}
     /\ LET c == CHOOSE c \in Unused : \A d \in Unused : c <= d
        IN  /\ Become(p, {Connected(e, p, c)})
            /\ peer' = [peer EXCEPT ![c] = "open"]
            /\ UNCHANGED <<inbox, read, resumed, answered>>

\* Faulty: does not ask whether there still is a connection.
FreeAlways(e) ==
  [NotActive(e) EXCEPT !.at = IF e.tables # "allocated" THEN "crashed" ELSE @,
                       !.tables = "freed", !.lasttransid = None]

\* The second half of xdebug_dbgp_deinit: free what the connection used, if it
\* still is a connection.  Freeing twice ends the process.
Free(e) ==
  [NotActive(e) EXCEPT !.at = IF e.enabled /\ e.tables # "allocated" THEN "crashed" ELSE @,
                       !.tables = IF e.enabled THEN "freed" ELSE @, !.lasttransid = None]

\* The command loop returns to where it was called: to the rest of
\* xdebug_dbgp_deinit, or to the program.  Stop abandons the program
\* (zend_bailout); its shutdown functions and destructors still run.
Leave(e) ==
  IF e.at = "stopping"
  THEN [Free(e) EXCEPT !.at = IF @ = "crashed" THEN @ ELSE "ended"]
  ELSE [e EXCEPT !.at = IF @ \in Loops THEN "running" ELSE @]
-----------------------------------------------------------------------------
(* The command loop. *)

Take(p, id, name) ==
  LET c == engine[p].socket
  IN  /\ engine[p].at \in Loops /\ engine[p].open
      /\ inbox[c] # <<>>
      /\ id = read[c] + 1 /\ name = Head(inbox[c])
      /\ inbox' = [inbox EXCEPT ![c] = Tail(@)]
      /\ read' = [read EXCEPT ![c] = id]
      /\ UNCHANGED peer

\* A command that is answered at once: after it the loop goes on, unless the
\* command is not known, or not available because the engine is stopping.
Reply(p, id, name) ==
  LET e == engine[p]
      f == IF name \in {"query", "inspect"} THEN [e EXCEPT !.lasttransid = id] ELSE e
      refused == name = "unknown" \/ (name = "inspect" /\ e.status = "stopping")
  IN  /\ name \in {"query", "inspect", "unknown", "malformed"}
      /\ Take(p, id, name)
      /\ UNCHANGED <<resumed, answered>>
      /\ Become(p, IF refused THEN {Leave(g) : g \in AfterSend(f)} ELSE AfterSend(f))

\* A continuation: no answer yet, the program goes on.
Run(p, id) ==
  /\ Take(p, id, "run")
  /\ Become(p, {Leave([engine[p] EXCEPT !.status = "running", !.lasttransid = id])})
  /\ resumed' = [resumed EXCEPT ![engine[p].socket] = @ \cup {id}]
  /\ UNCHANGED answered

Stop(p, id) ==
  LET e == [engine[p] EXCEPT !.status = "stopped", !.lasttransid = id]
  IN  /\ Take(p, id, "stop")
      /\ Become(p, {Leave(f) : f \in AfterSend(e)})
      /\ UNCHANGED <<resumed, answered>>

\* detach ends the connection from inside the loop with xdebug_dbgp_deinit, whose
\* message is the answer; the response of the loop itself finds no connection.
Detach(p, id) ==
  LET e == [engine[p] EXCEPT !.status = "stopping", !.lasttransid = id, !.detached = TRUE]
  IN  /\ Take(p, id, "detach")
      /\ Become(p, {Leave(Free(f)) : f \in AfterSend(e)})
      /\ UNCHANGED <<resumed, answered>>

\* Faulty: takes the end of the stream for an interrupted call and reads on.
ReadAgain(p) ==
  /\ engine[p].at \in Loops /\ (engine[p].open => peer[engine[p].socket] = "closed")
  /\ UNCHANGED vars

\* xdebug_fd_read_line_delim gives NULL: the client went away, perhaps before
\* all it sent was read, or a write that failed has closed the socket.
ReadNothing(p) ==
  /\ engine[p].at \in Loops
  /\ engine[p].open => peer[engine[p].socket] = "closed"
  /\ Become(p, {Leave(NotActive(engine[p]))})
  /\ UNCHANGED wire
-----------------------------------------------------------------------------
(* The program. *)

\* xdebug_debug_init_if_requested_at_startup, at the first user code of a request.
Startup(p) ==
  LET e == [engine[p] EXCEPT !.at = "running"]
  IN  /\ engine[p].at = "fresh"
      /\ IF e.detached \/ e.enabled THEN Become(p, {e}) /\ UNCHANGED wire
         ELSE InitDebugger(p, e)

\* An error or an exception connects when start_upon_error says so, an error in
\* the script itself even before it runs; xdebug_break() does when the mode is
\* trigger.
JustInTime(p) ==
  /\ engine[p].at \in {"fresh", "running"} /\ ~engine[p].enabled
  /\ start_upon_error \/ mode_is_trigger
  /\ InitDebugger(p, engine[p])

\* The control socket's pause, or xdebug_connect_to_client(): the next statement connects.
ConnectSignal(p) ==
  /\ engine[p].at = "running" /\ ~engine[p].do_connect
  /\ Become(p, {[engine[p] EXCEPT !.do_connect = TRUE]})
  /\ UNCHANGED wire
StatementConnects(p) ==
  LET e == [engine[p] EXCEPT !.do_connect = FALSE]
  IN  /\ engine[p].at = "running" /\ engine[p].do_connect
      /\ IF e.enabled THEN Become(p, {e}) /\ UNCHANGED wire ELSE InitDebugger(p, e)

\* Faulty: remembers a transaction id that was answered.
BreakKeepsTransaction(p) ==
  LET e == [engine[p] EXCEPT !.status = "break"]
  IN  /\ engine[p].at = "running" /\ engine[p].enabled
      /\ Answer(e, e.lasttransid)
      /\ Become(p, {[f EXCEPT !.at = "break"] : f \in AfterSend(e)})
      /\ UNCHANGED <<peer, inbox, read, resumed>>

\* Faulty: enters the command loop without a word.
BreakSilently(p) ==
  /\ engine[p].at = "running" /\ engine[p].enabled
  /\ Become(p, {[engine[p] EXCEPT !.status = "break", !.lasttransid = None, !.at = "break"]})
  /\ UNCHANGED wire

\* xdebug_dbgp_breakpoint: the program stops at a breakpoint or for a step, which
\* answers the last command, and the client has the turn.
Break(p) ==
  LET e == [engine[p] EXCEPT !.status = "break"]
  IN  /\ engine[p].at = "running" /\ engine[p].enabled
      /\ Answer(e, e.lasttransid)
      /\ Become(p, {[f EXCEPT !.lasttransid = None, !.at = "break"] : f \in AfterSend(e)})
      /\ UNCHANGED <<peer, inbox, read, resumed>>

\* Output, notifications and resolved breakpoints are sent while PHP runs.
Notify(p) ==
  /\ engine[p].at = "running" /\ engine[p].enabled
  /\ Become(p, AfterSend(engine[p]))
  /\ UNCHANGED wire

\* Faulty: ends without a word to the client.
EndSilently(p) ==
  /\ engine[p].at \in {"fresh", "running"}
  /\ Become(p, {[engine[p] EXCEPT !.at = "ended"]})
  /\ UNCHANGED wire

\* The request ends (xdebug_debugger_post_deactivate): the client is told with
\* the first half of xdebug_dbgp_deinit and may look around until it lets go.
End(p) ==
  LET e == [engine[p] EXCEPT !.status = "stopping"]
  IN  /\ engine[p].at \in {"fresh", "running"}
      /\ UNCHANGED <<peer, inbox, read, resumed>>
      /\ IF engine[p].enabled
         THEN Answer(e, e.lasttransid) /\ Become(p, {[f EXCEPT !.at = "stopping"] : f \in AfterSend(e)})
         ELSE Become(p, {[engine[p] EXCEPT !.at = "ended"]}) /\ UNCHANGED answered

\* The process serves another request (xdebug_debugger_rinit).
NextRequest(p) ==
  /\ engine[p].at = "ended" /\ engine[p].requests < MaxRequests
  /\ Become(p, {[NotActive(engine[p]) EXCEPT !.at = "fresh", !.detached = FALSE,
                   !.do_connect = FALSE, !.requests = @ + 1]})
  /\ UNCHANGED wire

\* Faulty: the child goes on with the connection of its parent.
ForkSharing(p, q) ==
  /\ engine[p].at = "running" /\ engine[q].at = "unborn"
  /\ Become(q, {engine[p]}) /\ UNCHANGED wire

\* pcntl_fork, and xdebug_debugger_restart_if_pid_changed in the child q: it
\* closes its copy of the socket and makes a connection of its own.
Fork(p, q) ==
  /\ engine[p].at = "running" /\ engine[q].at = "unborn"
  /\ IF engine[p].enabled THEN InitDebugger(q, NotActive(engine[p]))
     ELSE Become(q, {engine[p]}) /\ UNCHANGED wire
-----------------------------------------------------------------------------
(* The client. *)

Send(c, name) ==
  /\ peer[c] = "open"
  /\ read[c] + Len(inbox[c]) < MaxCommands /\ Len(inbox[c]) < MaxAhead
  /\ inbox' = [inbox EXCEPT ![c] = Append(@, name)]
  /\ UNCHANGED <<engine, peer, read, resumed, answered>>

CloseConnection(c) ==
  /\ peer[c] = "open"
  /\ peer' = [peer EXCEPT ![c] = "closed"]
  /\ UNCHANGED <<engine, inbox, read, resumed, answered>>
-----------------------------------------------------------------------------
Unborn == [at |-> "unborn", enabled |-> FALSE, pid |-> None, socket |-> None, open |-> FALSE,
           status |-> "none", lasttransid |-> None, tables |-> "none", detached |-> FALSE,
           do_connect |-> FALSE, requests |-> 1]

Init ==
  /\ engine = [p \in Procs |-> IF p = Root THEN [Unborn EXCEPT !.at = "fresh"] ELSE Unborn]
  /\ peer = [c \in Conns |-> "unused"]
  /\ inbox = [c \in Conns |-> <<>>] /\ read = [c \in Conns |-> 0]
  /\ resumed = [c \in Conns |-> {}]
  /\ answered = [c \in Conns |-> [i \in Ids |-> 0]]

Command(p) == \E id \in Ids :
  \/ \E name \in Names : Reply(p, id, name)
  \/ Run(p, id) \/ Stop(p, id) \/ Detach(p, id)

Process(p) ==
  \/ Command(p) \/ ReadNothing(p)
  \/ Startup(p) \/ JustInTime(p) \/ ConnectSignal(p) \/ StatementConnects(p)
  \/ Break(p) \/ Notify(p) \/ End(p) \/ NextRequest(p)
  \/ \E q \in Procs : Fork(p, q)
Client(c) == CloseConnection(c) \/ \E name \in Names : Send(c, name)

Next == (\E p \in Procs : Process(p)) \/ (\E c \in Conns : Client(c))
Spec == Init /\ [][Next]_vars

\* A process that can read does, and the requests of a program end.  Nothing is
\* asked of the client: it may be silent forever, but what it sent is there.
FairSpec == Spec /\ \A p \in Procs : WF_vars(Command(p)) /\ WF_vars(ReadNothing(p))
                                    /\ WF_vars(Startup(p)) /\ WF_vars(End(p))
-----------------------------------------------------------------------------
(* Properties. *)

\* Type invariant, with what the functions of com.c always set together: the
\* connection is active exactly while the pid of its process is known.
TypeOK ==
  /\ engine \in [Procs -> Engine]
  /\ \A p \in Procs : /\ engine[p].enabled <=> engine[p].pid # None
                      /\ engine[p].open => engine[p].socket # None
  /\ peer \in [Conns -> {"unused", "open", "closed"}]
  /\ inbox \in [Conns -> Seq(Names)] /\ read \in [Conns -> 0..MaxCommands]
  /\ \A c \in Conns : read[c] + Len(inbox[c]) <= MaxCommands /\ resumed[c] \subseteq 1..read[c]
  /\ answered \in [Conns -> [Ids -> Nat]]

\* While the debugger takes its connection for active, it has an open socket that
\* it made itself and tables that are not freed; and it keeps no socket open
\* that it does not take for active (xdebug_is_debug_connection_active guards
\* every use of both).
ActiveIsConnected ==
  \A p \in Procs : LET e == engine[p] IN
    /\ e.enabled => e.pid = p /\ e.tables = "allocated"
    /\ e.enabled <=> e.open

\* "set a new connection when forking a process" (xdebug_pcntl_fork): no two
\* processes ever talk to the client on one connection.
OneProcessPerConnection ==
  \A p, q \in Procs :
    engine[p].open /\ engine[q].open /\ engine[p].socket = engine[q].socket => p = q

\* The tables of breakpoints are freed once, also when detach runs
\* xdebug_dbgp_deinit inside the command loop of xdebug_dbgp_deinit.
FreedOnce == \A p \in Procs : engine[p].at # "crashed"

\* A continuation is answered at most once: the break response clears
\* lasttransid, so the next one cannot carry it again.
ContinuationAnsweredOnce ==
  \A c \in Conns, id \in Ids : answered[c][id] <= 1

\* And it is answered or the connection is gone: the program stops, ends or dies.
Held(c) == \E p \in Procs : engine[p].open /\ engine[p].socket = c
ContinuationSettled ==
  \A c \in Conns, id \in Ids :
    id \in resumed[c] ~> (answered[c][id] = 1 \/ ~Held(c))

\* A client that goes away is noticed, at the latest at the end of the request.
LostIsNoticed == \A c \in Conns : (peer[c] = "closed") ~> ~Held(c)

\* What a client may rely on: see module DebugConnection.  A connection ends
\* when either end is closed.
Holder(c)  == CHOOSE p \in Procs : engine[p].open /\ engine[p].socket = c
Alive(c)   == peer[c] = "open" /\ Held(c)
Turn(c) ==
  IF peer[c] = "unused" THEN "none" ELSE IF ~Alive(c) THEN "closed"
  ELSE IF engine[Holder(c)].at \in Loops THEN "client" ELSE "engine"
Owed(c) == {i \in resumed[c] : Alive(c) /\ answered[c][i] = 0}
Connection == INSTANCE DebugConnection WITH
  turn <- [c \in Conns |-> Turn(c)], owed <- [c \in Conns |-> Owed(c)]
ImplementsDebugConnection == Connection!Spec
=============================================================================
