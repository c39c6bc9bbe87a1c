-------------------------- MODULE DebugConnection --------------------------
(***************************************************************************)
(* What a debugging client may rely on: at any time a connection is the    *)
(* client's to give commands on, or the program's to run; whoever resumed  *)
(* the program with a continuation command (run, step_into, ...) is        *)
(* answered when the turn comes back; and a connection that was closed     *)
(* stays closed.  Module DbgpSession is shown to implement this.           *)
(***************************************************************************)
EXTENDS Integers

CONSTANTS Conns,   \* connections
          Ids      \* transaction ids

VARIABLES turn,    \* connection -> none, client, engine or closed
          owed     \* connection -> continuations that are not answered yet

Turns == {"none", "client", "engine", "closed"}
vars  == <<turn, owed>>

Init == turn = [c \in Conns |-> "none"] /\ owed = [c \in Conns |-> {}]

\* The engine connects; the client may give commands first.
Open(c) == /\ turn[c] = "none"
           /\ turn' = [turn EXCEPT ![c] = "client"] /\ UNCHANGED owed

\* The program resumes: on a continuation, or because a command was refused.
Resume(c, ids) == /\ turn[c] = "client" /\ \E i \in Ids : ids \subseteq {i}
                  /\ turn' = [turn EXCEPT ![c] = "engine"]
                  /\ owed' = [owed EXCEPT ![c] = ids]

\* The program stops and says so.
Answer(c) == /\ turn[c] = "engine"
             /\ turn' = [turn EXCEPT ![c] = "client"]
             /\ owed' = [owed EXCEPT ![c] = {}]

Close(c) == /\ turn[c] \in {"client", "engine"}
            /\ turn' = [turn EXCEPT ![c] = "closed"]
            /\ owed' = [owed EXCEPT ![c] = {}]

Next == \E c \in Conns : \/ Open(c) \/ Answer(c) \/ Close(c)
                         \/ \E ids \in {{}} \cup {{i} : i \in Ids} : Resume(c, ids)
Spec == Init /\ [][Next]_vars
=============================================================================
