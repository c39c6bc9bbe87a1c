--------------------------- MODULE ControlSocket ---------------------------
(***************************************************************************)
(* The control socket of a process (base/ctrl_socket.c, on Linux) and what  *)
(* its command pause starts: a flag that the next statement looks at, if    *)
(* the statement handler is enabled (debugger/debugger.c, com.c, base.c).   *)
(* Clients connect, send a command whole or in parts, and leave as they     *)
(* like.  A child that the program forks has the socket of its parent.      *)
(***************************************************************************)
EXTENDS Integers, Sequences, FiniteSets, SequencesExt

CONSTANTS
  Parent, Child,     \* the processes; the child exists once it is forked
  ControlClients,
  ListenBacklog,     \* clients that may wait to be accepted
  MaxForks           \* bound: 0 or 1

Nobody == "nobody"
Programs == {Parent, Child}

ASSUME ControlSocketAssumption ==
  /\ Parent # Child /\ Nobody \notin ControlClients
  /\ ListenBacklog \in Nat \ {0} /\ MaxForks \in {0, 1}

VARIABLES
  programs,     \* [Programs -> the globals of a process and where it is]
  waiting,      \* the clients that connected and are not accepted, in order
  clients,      \* [ControlClients -> what the client sent, whether it is there, its answer]
  step_debug,   \* xdebug.mode contains debug
  forks,        \* forks so far
  deafened      \* history: processes that failed to connect upon an error while signalled

controlVars == <<programs, waiting, clients, step_debug, forks, deafened>>

\* at: idle, runs, accepting, reading; with: the client it reads from; socket:
\* control_socket_path is set; due: the threshold has passed; the flags
\* do_connect_to_client, do_break and statement_handler_enabled.
IdleProgram ==
  [at |-> "idle", with |-> Nobody, socket |-> FALSE, due |-> FALSE, active |-> FALSE,
   do_connect |-> FALSE, do_break |-> FALSE, statements |-> FALSE]
NewClient == [is |-> "away", sent |-> "nothing", answer |-> "none"]

ControlInit ==
  /\ programs = [p \in Programs |-> IdleProgram] /\ waiting = <<>>
  /\ clients = [c \in ControlClients |-> NewClient]
  /\ step_debug \in BOOLEAN /\ forks = 0 /\ deafened = {}

Runs(p) == programs[p].at = "runs"
IsOpen == \E p \in Programs : programs[p].socket
Becomes(p, record) == programs' = [programs EXCEPT ![p] = record]
-----------------------------------------------------------------------------
(* Requests.  The name has the number of the process in it: it can be bound   *)
(* unless a child still has the socket of an earlier request.  The debugger    *)
(* may start with the request, and enables the statement handler if it does.   *)
ControlSetup ==
  /\ programs[Parent].at = "idle"
  /\ \E active \in {FALSE, step_debug} :
       Becomes(Parent, [IdleProgram EXCEPT !.at = "runs", !.socket = ~IsOpen,
                                           !.active = active, !.statements = active])
  /\ deafened' = deafened \ {Parent}
  /\ UNCHANGED <<waiting, clients, step_debug, forks>>

\* The last process that closes the socket leaves nobody waiting.
ControlTeardown(p) ==
  /\ Runs(p) /\ Becomes(p, IdleProgram)
  /\ LET last == ~ \E q \in Programs \ {p} : programs[q].socket
     IN  /\ waiting' = IF last THEN <<>> ELSE waiting
         /\ clients' = [c \in ControlClients |->
                          IF last /\ c \in ToSet(waiting) THEN [clients[c] EXCEPT !.is = "gone"]
                          ELSE clients[c]]
  /\ UNCHANGED <<step_debug, forks, deafened>>

\* The child connects anew if its parent was connected.
ControlFork ==
  /\ Runs(Parent) /\ programs[Child].at = "idle" /\ forks < MaxForks
  /\ forks' = forks + 1
  /\ \E connects \in {FALSE, programs[Parent].active} :
       Becomes(Child, [programs[Parent] EXCEPT
                         !.active = connects,
                         !.statements = IF programs[Parent].active THEN connects ELSE @])
  /\ deafened' = IF /\ programs[Parent].do_connect
                    /\ Parent \in deafened \/ ~programs'[Child].statements
                 THEN deafened \cup {Child} ELSE deafened
  /\ UNCHANGED <<waiting, clients, step_debug>>
-----------------------------------------------------------------------------
(* Clients.                                                                   *)
ControlConnect(c) ==
  /\ IsOpen /\ clients[c] = NewClient /\ Len(waiting) < ListenBacklog
  /\ clients' = [clients EXCEPT ![c].is = "here"]
  /\ waiting' = Append(waiting, c)
  /\ UNCHANGED <<programs, step_debug, forks, deafened>>

Commands == {"ps", "pause", "half"}
ControlSend(c) ==
  /\ clients[c].is = "here" /\ clients[c].answer = "none" /\ clients[c].sent = "nothing"
  /\ \E command \in Commands : clients' = [clients EXCEPT ![c].sent = command]
  /\ UNCHANGED <<programs, waiting, step_debug, forks, deafened>>

ControlLeave(c) ==
  /\ clients[c].is = "here" /\ clients' = [clients EXCEPT ![c].is = "gone"]
  /\ UNCHANGED <<programs, waiting, step_debug, forks, deafened>>
-----------------------------------------------------------------------------
(* xdebug_control_socket_dispatch, at calls and statements, and               *)
(* xdebug_control_socket_handle: select, accept, and a read that waits for     *)
(* the client.  Between them other processes with the same socket run.         *)
TimePasses(p) ==
  /\ Runs(p) /\ ~programs[p].due /\ Becomes(p, [programs[p] EXCEPT !.due = TRUE])
  /\ UNCHANGED <<waiting, clients, step_debug, forks, deafened>>

Dispatch(p) ==
  /\ Runs(p) /\ programs[p].socket /\ programs[p].due
  /\ Becomes(p, [programs[p] EXCEPT !.due = FALSE, !.at = IF waiting = <<>> THEN "runs" ELSE "accepting"])
  /\ UNCHANGED <<waiting, clients, step_debug, forks, deafened>>

Accept(p) ==
  /\ programs[p].at = "accepting" /\ waiting # <<>>
  /\ Becomes(p, [programs[p] EXCEPT !.at = "reading", !.with = Head(waiting)])
  /\ waiting' = Tail(waiting)
  /\ UNCHANGED <<clients, step_debug, forks, deafened>>

\* Faulty: the statement handler stays as it is.
PausedSilently(g) ==
  IF ~step_debug THEN g
  ELSE IF g.active THEN [g EXCEPT !.do_break = TRUE] ELSE [g EXCEPT !.do_connect = TRUE]

\* The command pause.
Paused(g) ==
  IF ~step_debug THEN g
  ELSE IF g.active THEN [g EXCEPT !.do_break = TRUE]
  ELSE [g EXCEPT !.do_connect = TRUE, !.statements = TRUE]

\* handle_command, on whatever was read, and close.
ReadCommand(p) ==
  LET c == programs[p].with
      g == [programs[p] EXCEPT !.at = "runs", !.with = Nobody]
      pauses == clients[c].sent = "pause"
  IN  /\ programs[p].at = "reading"
      /\ clients[c].sent # "nothing" \/ clients[c].is = "gone"
      /\ Becomes(p, IF pauses THEN Paused(g) ELSE g)
      /\ deafened' = IF pauses /\ ~g.active THEN deafened \ {p} ELSE deafened
      /\ clients' = [clients EXCEPT ![c] =
           [is |-> "gone", sent |-> @.sent,
            answer |-> CASE @.sent = "nothing" -> "parse error"
                         [] @.sent = "half"    -> "command unavailable"
                         [] @.sent = "ps"      -> "ps"
                         [] OTHER              -> IF step_debug THEN "signalled" ELSE "not enabled"]]
      /\ UNCHANGED <<waiting, step_debug, forks>>
-----------------------------------------------------------------------------
(* The program.                                                               *)
Connected(g, ok) == [g EXCEPT !.active = ok, !.statements = ok]

\* xdebug_debugger_statement_call, as far as the two flags go.
Statement(p) ==
  /\ Runs(p) /\ programs[p].statements
  /\ \E ok \in BOOLEAN :
       LET g == programs[p]
           h == IF g.do_connect /\ ~g.active THEN Connected(g, ok) ELSE g
       IN  Becomes(p, [h EXCEPT !.do_connect = FALSE, !.do_break = @ /\ ~h.active])
  /\ UNCHANGED <<waiting, clients, step_debug, forks, deafened>>

\* xdebug.start_upon_error, for errors and exceptions before the next statement.
StartUponError(p) ==
  /\ Runs(p) /\ step_debug /\ ~programs[p].active
  /\ \E ok \in BOOLEAN :
       /\ Becomes(p, Connected(programs[p], ok))
       /\ deafened' = IF programs[p].do_connect /\ ~ok THEN deafened \cup {p} ELSE deafened \ {p}
  /\ UNCHANGED <<waiting, clients, step_debug, forks>>

ConnectionLost(p) ==
  /\ Runs(p) /\ programs[p].active /\ Becomes(p, [programs[p] EXCEPT !.active = FALSE])
  /\ UNCHANGED <<waiting, clients, step_debug, forks, deafened>>

ControlNext ==
  \/ ControlSetup \/ ControlFork
  \/ \E p \in Programs :
       \/ ControlTeardown(p) \/ TimePasses(p) \/ Dispatch(p) \/ Accept(p) \/ ReadCommand(p)
       \/ Statement(p) \/ StartUponError(p) \/ ConnectionLost(p)
  \/ \E c \in ControlClients : ControlConnect(c) \/ ControlSend(c) \/ ControlLeave(c)

ControlSpec == ControlInit /\ [][ControlNext]_controlVars
-----------------------------------------------------------------------------
(* A signal to connect is heard: the statement handler that looks at it is      *)
(* enabled, unless connecting upon an error failed since and disabled it.       *)
(* Accepting never holds up the program, unless after a fork the other process   *)
(* took the client first.  A client is in one place until it has its one answer. *)
(* Without mode debug no flag is ever set.                                       *)
ControlIsAnswered ==
  /\ \A p \in Programs : programs[p].do_connect /\ ~programs[p].statements => p \in deafened
  /\ \A p \in Programs : programs[p].at = "accepting" /\ waiting = <<>> => forks > 0
  /\ \A c \in ControlClients :
       LET readers == {p \in Programs : programs[p].with = c}
       IN  /\ Cardinality(readers) <= 1
           /\ c \in ToSet(waiting) => readers = {}
           /\ clients[c].is = "here" /\ clients[c].answer = "none" =>
                c \in ToSet(waiting) \/ readers # {}
           /\ c \in ToSet(waiting) \/ readers # {} => clients[c].answer = "none"
  /\ ~step_debug => \A p \in Programs : ~programs[p].do_connect /\ ~programs[p].do_break
=============================================================================
