---------------------------- MODULE OutputFiles ----------------------------
(***************************************************************************)
(* Processes that open an output file of the same name (xdebug_fopen in    *)
(* lib/usefulstuff.c, xdebug_file_open and xdebug_file_close in lib/file.c),*)
(* between whose system calls the others run: traces, profiles and reports  *)
(* whose names do not tell requests apart.  A file that another process      *)
(* writes is left alone and one with a random name is made; a random name   *)
(* is assumed to be free.  Locks are those of flock(), of an open file.      *)
(***************************************************************************)
EXTENDS Integers, FiniteSets

CONSTANTS
  Writers,       \* the processes, each of which opens one file
  MaxInodes      \* bound: files made

ASSUME OutputFilesAssumption == MaxInodes \in Nat \ {0}

NoFile == 0
Link == -1       \* the name is a symbolic link

VARIABLES
  entry,         \* what the name leads to: NoFile, Link or a file
  made,          \* files made so far: 1..made
  step,          \* [Writers -> the system call a writer is about to make]
  handle,        \* [Writers -> the file a writer has open, or NoFile]
  lock,          \* [file -> the writers that hold its lock]
  early,         \* history: [Writers -> those that had opened their file when this one began]
  met,           \* history: [Writers -> those that were between their calls at the same time]
  unlocked,      \* history: writers that write a file without its lock
  wiped          \* history: pairs of a writer and another whose file it emptied

outputVars == <<entry, made, step, handle, lock, early, met, unlocked, wiped>>

Opening == {"lstat", "open w", "open r+", "open random", "flock", "close", "reopen", "relock"}

OutputInit ==
  /\ entry \in {NoFile, Link, 1} /\ made = IF entry = 1 THEN 1 ELSE 0
  /\ step = [p \in Writers |-> "begin"]
  /\ handle = [p \in Writers |-> NoFile]
  /\ lock = [f \in 1..MaxInodes |-> {}]
  /\ early = [p \in Writers |-> {}] /\ met = [p \in Writers |-> {}]
  /\ unlocked = {} /\ wiped = {}

Goto(p, s) == step' = [step EXCEPT ![p] = s]

\* History of the writers only.
Begin(p) ==
  /\ step[p] = "begin" /\ Goto(p, "lstat")
  /\ early' = [early EXCEPT ![p] = {q \in Writers : step[q] \in {"write", "done"}}]
  /\ met' = [q \in Writers |->
               IF q = p THEN {r \in Writers : step[r] \in Opening}
               ELSE IF step[q] \in Opening THEN met[q] \cup {p} ELSE met[q]]
  /\ UNCHANGED <<entry, made, handle, lock, unlocked, wiped>>

\* Faulty: a file that exists is opened and emptied without a look at its lock.
LstatOnlyLinks(p) ==
  /\ step[p] = "lstat"
  /\ Goto(p, IF entry = Link THEN "open random" ELSE "open w")
  /\ UNCHANGED <<entry, made, handle, lock, early, met, unlocked, wiped>>

\* 1. to 3.: does the file exist, and is it a link.
Lstat(p) ==
  /\ step[p] = "lstat"
  /\ \/ entry = NoFile /\ Goto(p, "open w")
     \/ entry = Link /\ Goto(p, "open random")
     \/ entry > NoFile /\ Goto(p, "open r+")
  /\ UNCHANGED <<entry, made, handle, lock, early, met, unlocked, wiped>>

\* Opens the file of the name and empties it, or makes one.  A link stays one, so
\* nobody gets here through it.
OpenEmpty(p) ==
  \/ /\ entry > NoFile
     /\ handle' = [handle EXCEPT ![p] = entry]
     /\ wiped' = wiped \cup {<<p, q>> : q \in {r \in Writers \ {p} : step[r] = "write" /\ handle[r] = entry}}
     /\ UNCHANGED <<entry, made>>
  \/ /\ entry = NoFile /\ made < MaxInodes
     /\ made' = made + 1 /\ entry' = made'
     /\ handle' = [handle EXCEPT ![p] = made']
     /\ UNCHANGED wiped

\* 2. fopen(name, "w").
OpenW(p) ==
  /\ step[p] = "open w"
  /\ OpenEmpty(p) /\ Goto(p, "relock")
  /\ UNCHANGED <<lock, early, met, unlocked>>

\* 3., 4. and 6.: a file of another name.
OpenRandom(p) ==
  /\ step[p] = "open random" /\ made < MaxInodes
  /\ made' = made + 1 /\ handle' = [handle EXCEPT ![p] = made']
  /\ Goto(p, "relock")
  /\ UNCHANGED <<entry, lock, early, met, unlocked, wiped>>

\* 4. fopen(name, "r+"), which may find no file any more.
OpenUpdate(p) ==
  /\ step[p] = "open r+"
  /\ IF entry > NoFile
     THEN handle' = [handle EXCEPT ![p] = entry] /\ Goto(p, "flock")
     ELSE UNCHANGED handle /\ Goto(p, "open random")
  /\ UNCHANGED <<entry, made, lock, early, met, unlocked, wiped>>

\* 5. and 6.: a file that is locked is closed again.
Flock(p) ==
  /\ step[p] = "flock"
  /\ IF lock[handle[p]] = {}
     THEN /\ lock' = [lock EXCEPT ![handle[p]] = {p}] /\ Goto(p, "close")
          /\ UNCHANGED handle
     ELSE /\ handle' = [handle EXCEPT ![p] = NoFile] /\ Goto(p, "open random")
          /\ UNCHANGED lock
  /\ UNCHANGED <<entry, made, early, met, unlocked, wiped>>

\* 7. freopen closes the file, and with it goes the lock, then opens the name.
CloseToReopen(p) ==
  /\ step[p] = "close"
  /\ lock' = [lock EXCEPT ![handle[p]] = @ \ {p}]
  /\ handle' = [handle EXCEPT ![p] = NoFile]
  /\ Goto(p, "reopen")
  /\ UNCHANGED <<entry, made, early, met, unlocked, wiped>>

Reopen(p) ==
  /\ step[p] = "reopen"
  /\ OpenEmpty(p) /\ Goto(p, "relock")
  /\ UNCHANGED <<lock, early, met, unlocked>>

\* 8. Whether the lock is had is not looked at.
Relock(p) ==
  /\ step[p] = "relock" /\ Goto(p, "write")
  /\ IF lock[handle[p]] = {}
     THEN lock' = [lock EXCEPT ![handle[p]] = {p}] /\ UNCHANGED unlocked
     ELSE UNCHANGED lock /\ unlocked' = unlocked \cup {p}
  /\ UNCHANGED <<entry, made, handle, early, met, wiped>>

\* xdebug_file_close, or the end of the process.
Close(p) ==
  /\ step[p] \in Opening \cup {"write"} /\ Goto(p, "done")
  /\ lock' = [f \in DOMAIN lock |-> lock[f] \ {p}]
  /\ handle' = [handle EXCEPT ![p] = NoFile]
  /\ UNCHANGED <<entry, made, early, met, unlocked, wiped>>

\* Somebody removes the file that has the name.
Unlink ==
  /\ entry > NoFile /\ entry' = NoFile
  /\ UNCHANGED <<made, step, handle, lock, early, met, unlocked, wiped>>

OutputNext ==
  \/ \E p \in Writers :
       \/ Begin(p) \/ Lstat(p) \/ OpenW(p) \/ OpenRandom(p) \/ OpenUpdate(p)
       \/ Flock(p) \/ CloseToReopen(p) \/ Reopen(p) \/ Relock(p) \/ Close(p)
  \/ Unlink

OutputSpec == OutputInit /\ [][OutputNext]_outputVars
-----------------------------------------------------------------------------
(* A file is kept by the process that has it: a process that began to open its *)
(* file later neither writes to it nor empties it, unless the first one lost     *)
(* the race that the comment at the end of xdebug_fopen speaks of, and then     *)
(* both of them were between lstat and the last flock at the same time.         *)
FileIsKept ==
  /\ \A p, q \in Writers :
       p \in early[q] /\ p \notin unlocked =>
         /\ <<q, p>> \notin wiped
         /\ ~(step[p] = "write" /\ step[q] = "write" /\ handle[p] = handle[q])
  /\ \A p \in unlocked : met[p] # {}
=============================================================================
