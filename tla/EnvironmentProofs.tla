------------------------- MODULE EnvironmentProofs -------------------------
(***************************************************************************)
(* The invariants of what Xdebug shares with the world around a script:    *)
(* the files that several processes write under one name (OutputFiles),    *)
(* the control socket (ControlSocket), the settings and variables that say *)
(* what starts (StartDecisions), the map files (PathMaps), and the files   *)
(* and eval'd code whose source a client is shown (Sources).               *)
(***************************************************************************)
EXTENDS OutputFiles, ControlSocket, StartDecisions, PathMaps, Sources, NaturalRecursion,
  SequenceTheorems, FiniteSetTheorems
-----------------------------------------------------------------------------
(* Files.  The invariant says who holds locks, and what becomes of a file     *)
(* that a process writes with its lock when another process that began later  *)
(* looks at the name: the later one cannot be about to empty it, because a     *)
(* name leads to a file only from when the file is made.                      *)

Files == 1..made
WriterSteps == Opening \cup {"begin", "write", "done"}

OutputTypeOK ==
  /\ entry \in {NoFile, Link} \cup Files /\ made \in 0..MaxInodes
  /\ step \in [Writers -> WriterSteps]
  /\ handle \in [Writers -> {NoFile} \cup Files]
  /\ lock \in [1..MaxInodes -> SUBSET Writers]
  /\ early \in [Writers -> SUBSET Writers] /\ met \in [Writers -> SUBSET Writers]
  /\ unlocked \subseteq Writers

\* Who holds a lock has the file open; a writer without the lock is known.
LocksInv ==
  /\ \A p \in Writers : step[p] \in {"flock", "close", "relock", "write"} => handle[p] \in Files
  /\ \A p \in Writers, f \in 1..MaxInodes :
       p \in lock[f] => handle[p] = f /\ step[p] \in {"close", "write"} /\ p \notin unlocked
  /\ \A p \in Writers : step[p] = "write" /\ p \notin unlocked => lock[handle[p]] = {p}
  /\ \A p \in Writers : step[p] = "close" => lock[handle[p]] = {p}
  /\ \A p \in unlocked : step[p] \in {"write", "done"}

\* What q may do with the file that p has, when p had it before q began.
KeptInv ==
  \A p, q \in Writers :
    p \in early[q] =>
      /\ p # q /\ step[p] \in {"write", "done"} /\ step[q] # "begin"
      /\ step[p] = "write" /\ p \notin unlocked =>
           /\ step[q] \in {"close", "relock", "write"} => handle[q] # handle[p]
           /\ step[q] \in {"open w", "close", "reopen"} => entry # handle[p]
           /\ step[q] = "flock" => handle[q] = handle[p] \/ entry # handle[p]

\* Two that were opening at the same time know it.
MetInv ==
  \A p, q \in Writers :
    step[p] \in Opening /\ q # p /\ step[q] # "begin" /\ q \notin early[p] => q \in met[p]

\* Who has not begun has neither emptied a file nor others that were before it;
\* what is emptied is not kept.
WipedInv ==
  \A p, q \in Writers :
    /\ step[q] = "begin" => <<q, p>> \notin wiped /\ early[q] = {}
    /\ p \in early[q] /\ p \notin unlocked => <<q, p>> \notin wiped

UnlockedInv == \A p \in unlocked : met[p] # {}

OutputInv == OutputTypeOK /\ LocksInv /\ KeptInv /\ MetInv /\ WipedInv /\ UnlockedInv

LEMMA KeptThen == OutputInv => FileIsKept
BY DEF OutputInv, OutputTypeOK, KeptInv, WipedInv, UnlockedInv, FileIsKept
-----------------------------------------------------------------------------
\* What a system call of w leaves alone.
Moves(w) ==
  /\ early' = early /\ met' = met
  /\ \A p \in Writers \ {w} : step'[p] = step[p] /\ handle'[p] = handle[p]
  /\ step'[w] \in WriterSteps \ {"begin"}
  /\ step[w] \in Opening \/ (step[w] = "write" /\ step'[w] = "done")

LEMMA MovesMet ==
  ASSUME OutputInv, NEW w \in Writers, Moves(w)
  PROVE  MetInv'
<1> SUFFICES ASSUME NEW p \in Writers, NEW q \in Writers,
                    step'[p] \in Opening, q # p, step'[q] # "begin", q \notin early[p]
             PROVE  q \in met[p]
  BY DEF MetInv, Moves
<1>1. step[p] \in Opening
  BY DEF Moves, Opening
<1>2. step[q] # "begin"
  BY DEF Moves, Opening
<1> QED BY <1>1, <1>2 DEF OutputInv, MetInv

LEMMA MovesWiped ==
  ASSUME OutputInv, NEW w \in Writers, Moves(w), unlocked \subseteq unlocked',
         \A p, q \in Writers : <<q, p>> \in wiped' =>
           <<q, p>> \in wiped \/ (q = w /\ (p \in early[w] => p \in unlocked))
  PROVE  WipedInv'
<1> SUFFICES ASSUME NEW p \in Writers, NEW q \in Writers
             PROVE  /\ step'[q] = "begin" => <<q, p>> \notin wiped' /\ early'[q] = {}
                    /\ p \in early'[q] /\ p \notin unlocked' => <<q, p>> \notin wiped'
  BY DEF WipedInv
<1>1. early' = early /\ step'[w] # "begin" /\ (q # w => step'[q] = step[q])
  BY DEF Moves
<1> QED BY <1>1 DEF OutputInv, WipedInv

LEMMA MovesKept ==
  ASSUME OutputInv, NEW w \in Writers, Moves(w), unlocked \subseteq unlocked',
         \A f \in Files : entry' = f => entry = f,
         \A p \in early[w] : step[p] = "write" /\ p \notin unlocked =>
           /\ step'[w] \in {"close", "relock", "write"} => handle'[w] # handle[p]
           /\ step'[w] \in {"open w", "close", "reopen"} => entry' # handle[p]
           /\ step'[w] = "flock" => handle'[w] = handle[p] \/ entry' # handle[p]
  PROVE  KeptInv'
<1> SUFFICES ASSUME NEW p \in Writers, NEW q \in Writers, p \in early[q]
             PROVE  /\ p # q /\ step'[p] \in {"write", "done"} /\ step'[q] # "begin"
                    /\ step'[p] = "write" /\ p \notin unlocked' =>
                         /\ step'[q] \in {"close", "relock", "write"} => handle'[q] # handle'[p]
                         /\ step'[q] \in {"open w", "close", "reopen"} => entry' # handle'[p]
                         /\ step'[q] = "flock" => handle'[q] = handle'[p] \/ entry' # handle'[p]
  BY DEF KeptInv, Moves
<1>1. /\ p # q /\ step[p] \in {"write", "done"} /\ step[q] # "begin"
      /\ step[p] = "write" /\ p \notin unlocked =>
           /\ step[q] \in {"close", "relock", "write"} => handle[q] # handle[p]
           /\ step[q] \in {"open w", "close", "reopen"} => entry # handle[p]
           /\ step[q] = "flock" => handle[q] = handle[p] \/ entry # handle[p]
  BY DEF OutputInv, KeptInv
<1>2. step[p] = "write" => handle[p] \in Files
  BY DEF OutputInv, LocksInv
<1>3. CASE w = p
  <2>1. step'[p] = "done" /\ step'[q] = step[q]
    BY <1>1, <1>3 DEF Moves, Opening
  <2> QED BY <1>1, <2>1
<1>4. CASE w # p
  <2>1. step'[p] = step[p] /\ handle'[p] = handle[p]
    BY <1>4 DEF Moves
  <2>2. CASE w = q
    <3>1. step'[q] # "begin"
      BY <2>2 DEF Moves
    <3> QED BY <1>1, <2>1, <2>2, <3>1
  <2>3. CASE w # q
    <3>1. step'[q] = step[q] /\ handle'[q] = handle[q]
      BY <2>3 DEF Moves
    <3> QED BY <1>1, <1>2, <2>1, <3>1
  <2> QED BY <2>2, <2>3
<1> QED BY <1>3, <1>4

\* Calls of w that have to do with no lock.
LEMMA MovesUnlocked ==
  ASSUME OutputInv, NEW w \in Writers, Moves(w), lock' = lock, unlocked' = unlocked, Files \subseteq Files',
         step[w] \in Opening \ {"close"}, step'[w] \in Opening \ {"close"},
         step'[w] \in {"flock", "relock"} => handle'[w] \in Files'
  PROVE  LocksInv' /\ UnlockedInv'
<1>1. UnlockedInv'
  BY DEF OutputInv, UnlockedInv, Moves
<1>2. \A p \in Writers : step'[p] \in {"flock", "close", "relock", "write"} => handle'[p] \in Files'
  BY DEF OutputInv, LocksInv, Moves, Opening
<1>3. \A f \in 1..MaxInodes : w \notin lock[f]
  BY DEF OutputInv, LocksInv, Opening
<1>4. w \notin unlocked
  BY DEF OutputInv, LocksInv, Opening
<1>5. \A p \in Writers, f \in 1..MaxInodes :
        p \in lock'[f] => handle'[p] = f /\ step'[p] \in {"close", "write"} /\ p \notin unlocked'
  BY <1>3 DEF OutputInv, LocksInv, Moves
<1>6. \A p \in Writers : step'[p] = "write" /\ p \notin unlocked' => lock'[handle'[p]] = {p}
  BY DEF OutputInv, LocksInv, Moves, Opening
<1>7. \A p \in Writers : step'[p] = "close" => lock'[handle'[p]] = {p}
  BY DEF OutputInv, LocksInv, Moves
<1>8. \A p \in unlocked' : step'[p] \in {"write", "done"}
  BY <1>4 DEF OutputInv, OutputTypeOK, LocksInv, Moves
<1> QED BY <1>1, <1>2, <1>5, <1>6, <1>7, <1>8 DEF LocksInv

LEMMA BeginInv ==
  ASSUME OutputInv, NEW w \in Writers, Begin(w)
  PROVE  OutputInv'
<1>1. /\ step[w] = "begin" /\ step'[w] = "lstat" /\ \A p \in Writers \ {w} : step'[p] = step[p]
      /\ entry' = entry /\ made' = made /\ handle' = handle /\ lock' = lock
      /\ unlocked' = unlocked /\ wiped' = wiped
  BY DEF Begin, Goto, OutputInv, OutputTypeOK
<1>2. /\ early'[w] = {q \in Writers : step[q] \in {"write", "done"}}
      /\ \A p \in Writers \ {w} : early'[p] = early[p]
  BY DEF Begin, OutputInv, OutputTypeOK
<1>3. /\ met'[w] = {r \in Writers : step[r] \in Opening}
      /\ \A p \in Writers \ {w} : met[p] \subseteq met'[p] /\ (step[p] \in Opening => w \in met'[p])
  BY DEF Begin, OutputInv, OutputTypeOK
<1>4. OutputTypeOK'
  <2>1. step' \in [Writers -> WriterSteps]
    BY DEF Begin, Goto, OutputInv, OutputTypeOK, WriterSteps, Opening
  <2>2. early' \in [Writers -> SUBSET Writers] /\ met' \in [Writers -> SUBSET Writers]
    BY DEF Begin, OutputInv, OutputTypeOK
  <2> QED BY <2>1, <2>2, <1>1 DEF OutputInv, OutputTypeOK, Files
<1>5. LocksInv'
  <2>1. /\ \A p \in Writers : step'[p] \in {"flock", "close", "relock", "write"} => handle[p] \in Files
        /\ \A p \in Writers, f \in 1..MaxInodes :
             p \in lock[f] => handle[p] = f /\ step'[p] \in {"close", "write"} /\ p \notin unlocked
        /\ \A p \in Writers : step'[p] = "write" /\ p \notin unlocked => lock[handle[p]] = {p}
        /\ \A p \in Writers : step'[p] = "close" => lock[handle[p]] = {p}
    BY <1>1 DEF OutputInv, LocksInv
  <2>2. \A p \in unlocked : step'[p] \in {"write", "done"}
    BY <1>1 DEF OutputInv, OutputTypeOK, LocksInv
  <2> QED BY <2>1, <2>2, <1>1 DEF LocksInv, Files
<1>6. KeptInv'
  <2> SUFFICES ASSUME NEW p \in Writers, NEW q \in Writers, p \in early'[q]
               PROVE  /\ p # q /\ step'[p] \in {"write", "done"} /\ step'[q] # "begin"
                      /\ step'[p] = "write" /\ p \notin unlocked =>
                           /\ step'[q] \in {"close", "relock", "write"} => handle[q] # handle[p]
                           /\ step'[q] \in {"open w", "close", "reopen"} => entry # handle[p]
                           /\ step'[q] = "flock" => handle[q] = handle[p] \/ entry # handle[p]
    BY <1>1 DEF KeptInv
  <2>1. CASE q = w
    <3>1. step[p] \in {"write", "done"}
      BY <2>1, <1>2
    <3> QED BY <3>1, <2>1, <1>1
  <2>2. CASE q # w
    <3>1. p \in early[q] /\ step'[q] = step[q]
      BY <2>2, <1>1, <1>2
    <3>2. p # w /\ step'[p] = step[p]
      BY <3>1, <1>1 DEF OutputInv, KeptInv
    <3> QED BY <3>1, <3>2 DEF OutputInv, KeptInv
  <2> QED BY <2>1, <2>2
<1>7. MetInv'
  <2> SUFFICES ASSUME NEW p \in Writers, NEW q \in Writers,
                      step'[p] \in Opening, q # p, step'[q] # "begin", q \notin early'[p]
               PROVE  q \in met'[p]
    BY DEF MetInv
  <2>1. CASE p = w
    <3>1. step[q] \in WriterSteps \ {"begin", "write", "done"}
      BY <2>1, <1>1, <1>2 DEF OutputInv, OutputTypeOK
    <3> QED BY <3>1, <2>1, <1>3 DEF WriterSteps
  <2>2. CASE p # w /\ q = w
    BY <2>2, <1>1, <1>3
  <2>3. CASE p # w /\ q # w
    <3>1. q \in met[p]
      BY <2>3, <1>1, <1>2 DEF OutputInv, MetInv
    <3> QED BY <3>1, <2>3, <1>3
  <2> QED BY <2>1, <2>2, <2>3
<1>8. WipedInv'
  <2> SUFFICES ASSUME NEW p \in Writers, NEW q \in Writers
               PROVE  /\ step'[q] = "begin" => <<q, p>> \notin wiped /\ early'[q] = {}
                      /\ p \in early'[q] /\ p \notin unlocked => <<q, p>> \notin wiped
    BY <1>1 DEF WipedInv
  <2>1. CASE q = w
    BY <2>1, <1>1 DEF OutputInv, WipedInv
  <2>2. CASE q # w
    <3>1. step'[q] = step[q] /\ early'[q] = early[q]
      BY <2>2, <1>1, <1>2
    <3> QED BY <3>1 DEF OutputInv, WipedInv
  <2> QED BY <2>1, <2>2
<1>9. UnlockedInv'
  <2>1. \A p \in unlocked : p \in Writers /\ p # w /\ met[p] # {}
    BY <1>1 DEF OutputInv, OutputTypeOK, LocksInv, UnlockedInv
  <2> QED BY <2>1, <1>1, <1>3 DEF UnlockedInv
<1> QED BY <1>4, <1>5, <1>6, <1>7, <1>8, <1>9 DEF OutputInv

LEMMA LstatInv ==
  ASSUME OutputInv, NEW w \in Writers, Lstat(w)
  PROVE  OutputInv'
<1>1. /\ step[w] = "lstat" /\ step'[w] \in {"open w", "open random", "open r+"}
      /\ step'[w] = "open w" => entry = NoFile
      /\ \A p \in Writers \ {w} : step'[p] = step[p]
      /\ UNCHANGED <<entry, made, handle, lock, early, met, unlocked, wiped>>
  BY DEF Lstat, Goto, OutputInv, OutputTypeOK
<1>2. Moves(w)
  BY <1>1 DEF Moves, WriterSteps, Opening
<1>3. OutputTypeOK'
  <2>1. step' \in [Writers -> WriterSteps]
    BY DEF Lstat, Goto, OutputInv, OutputTypeOK, WriterSteps, Opening
  <2> QED BY <2>1, <1>1 DEF OutputInv, OutputTypeOK, Files
<1>4. LocksInv' /\ UnlockedInv'
  BY <1>1, <1>2, MovesUnlocked DEF Files, Opening
<1>5. KeptInv'
  <2>1. \A p \in early[w] : step[p] = "write" => handle[p] # NoFile
    BY DEF OutputInv, OutputTypeOK, LocksInv, Files, NoFile
  <2> QED BY <2>1, <1>1, <1>2, MovesKept
<1>6. MetInv' /\ WipedInv'
  BY <1>1, <1>2, MovesMet, MovesWiped
<1> QED BY <1>3, <1>4, <1>5, <1>6 DEF OutputInv

\* What opening the file of a name to empty it leads to.
LEMMA OpenEmptyIs ==
  ASSUME OutputInv, NEW w \in Writers, OpenEmpty(w)
  PROVE  /\ handle' \in [Writers -> {NoFile} \cup Files'] /\ handle'[w] = entry' /\ entry' \in Files'
         /\ \A p \in Writers \ {w} : handle'[p] = handle[p]
         /\ made' \in 0..MaxInodes /\ Files \subseteq Files'
         /\ \A f \in Files : entry' = f => entry = f
         /\ \A p, q \in Writers : <<q, p>> \in wiped' =>
              <<q, p>> \in wiped \/ (q = w /\ step[p] = "write" /\ handle[p] = entry)
<1>1. /\ made \in 0..MaxInodes /\ MaxInodes \in Nat /\ handle \in [Writers -> {NoFile} \cup Files]
      /\ entry \in {NoFile, Link} \cup Files
  BY OutputFilesAssumption DEF OutputInv, OutputTypeOK
<1>2. CASE entry > NoFile
  <2>1. /\ handle' = [handle EXCEPT ![w] = entry] /\ entry' = entry /\ made' = made
        /\ wiped' = wiped \cup {<<w, q>> : q \in {r \in Writers \ {w} : step[r] = "write" /\ handle[r] = entry}}
    BY <1>1, <1>2 DEF OpenEmpty, NoFile
  <2>2. entry \in Files
    BY <1>1, <1>2 DEF NoFile, Link, Files
  <2> QED BY <1>1, <2>1, <2>2 DEF Files
<1>3. CASE ~(entry > NoFile)
  <2>1. /\ made < MaxInodes /\ made' = made + 1 /\ entry' = made'
        /\ handle' = [handle EXCEPT ![w] = made'] /\ wiped' = wiped
    BY <1>1, <1>3 DEF OpenEmpty, NoFile
  <2>2. made' \in 0..MaxInodes /\ made' \in Files' /\ made' \notin Files /\ Files \subseteq Files'
    BY <1>1, <2>1 DEF Files
  <2> QED BY <1>1, <2>1, <2>2
<1> QED BY <1>2, <1>3

LEMMA OpensInv ==
  ASSUME OutputInv, NEW w \in Writers, OpenW(w) \/ Reopen(w)
  PROVE  OutputInv'
<1>1. /\ step[w] \in {"open w", "reopen"} /\ step'[w] = "relock"
      /\ \A p \in Writers \ {w} : step'[p] = step[p]
      /\ UNCHANGED <<lock, early, met, unlocked>> /\ OpenEmpty(w)
  BY DEF OpenW, Reopen, Goto, OutputInv, OutputTypeOK
<1>2. /\ handle' \in [Writers -> {NoFile} \cup Files'] /\ handle'[w] = entry' /\ entry' \in Files'
      /\ \A p \in Writers \ {w} : handle'[p] = handle[p]
      /\ made' \in 0..MaxInodes /\ Files \subseteq Files'
      /\ \A f \in Files : entry' = f => entry = f
      /\ \A p, q \in Writers : <<q, p>> \in wiped' =>
           <<q, p>> \in wiped \/ (q = w /\ step[p] = "write" /\ handle[p] = entry)
  BY <1>1, OpenEmptyIs
<1>3. Moves(w)
  BY <1>1, <1>2 DEF Moves, WriterSteps, Opening
<1>4. OutputTypeOK'
  <2>1. step' \in [Writers -> WriterSteps]
    BY DEF OpenW, Reopen, Goto, OutputInv, OutputTypeOK, WriterSteps, Opening
  <2> QED BY <2>1, <1>1, <1>2 DEF OutputInv, OutputTypeOK
<1>5. LocksInv' /\ UnlockedInv'
  BY <1>1, <1>2, <1>3, MovesUnlocked DEF Opening
\* The name does not lead to a file that somebody had before.
<1>6. \A p \in early[w] : step[p] = "write" /\ p \notin unlocked => handle[p] \in Files /\ entry # handle[p]
  BY <1>1 DEF OutputInv, OutputTypeOK, KeptInv, LocksInv
<1>7. KeptInv'
  BY <1>1, <1>2, <1>3, <1>6, MovesKept
<1>8. WipedInv'
  BY <1>1, <1>2, <1>3, <1>6, MovesWiped
<1> QED BY <1>3, <1>4, <1>5, <1>7, <1>8, MovesMet DEF OutputInv

LEMMA OpensRandomInv ==
  ASSUME OutputInv, NEW w \in Writers, OpenRandom(w)
  PROVE  OutputInv'
<1>1. /\ step[w] = "open random" /\ step'[w] = "relock"
      /\ \A p \in Writers \ {w} : step'[p] = step[p] /\ handle'[p] = handle[p]
      /\ made < MaxInodes /\ made' = made + 1 /\ handle'[w] = made'
      /\ UNCHANGED <<entry, lock, early, met, unlocked, wiped>>
  BY DEF OpenRandom, Goto, OutputInv, OutputTypeOK
<1>2. made \in 0..MaxInodes /\ MaxInodes \in Nat
  BY OutputFilesAssumption DEF OutputInv, OutputTypeOK
<1>3. made' \in 0..MaxInodes /\ made' \in Files' /\ made' \notin Files /\ Files \subseteq Files'
  <2>1. made < MaxInodes /\ made' = made + 1
    BY <1>1
  <2> QED BY ONLY <2>1, <1>2 DEF Files
<1>4. Moves(w)
  BY <1>1 DEF Moves, WriterSteps, Opening
<1>5. OutputTypeOK'
  <2>1. step' \in [Writers -> WriterSteps]
    BY DEF OpenRandom, Goto, OutputInv, OutputTypeOK, WriterSteps, Opening
  <2>2. handle' \in [Writers -> {NoFile} \cup Files']
    BY <1>3 DEF OpenRandom, OutputInv, OutputTypeOK
  <2> QED BY <2>1, <2>2, <1>1, <1>3 DEF OutputInv, OutputTypeOK
<1>6. LocksInv' /\ UnlockedInv'
  BY <1>1, <1>3, <1>4, MovesUnlocked DEF Opening
<1>7. KeptInv'
  <2>1. \A p \in early[w] : step[p] = "write" => handle[p] \in Files
    BY DEF OutputInv, OutputTypeOK, LocksInv
  <2> QED BY <2>1, <1>1, <1>3, <1>4, MovesKept
<1>8. MetInv' /\ WipedInv'
  BY <1>1, <1>4, MovesMet, MovesWiped
<1> QED BY <1>5, <1>6, <1>7, <1>8 DEF OutputInv

LEMMA OpensUpdateInv ==
  ASSUME OutputInv, NEW w \in Writers, OpenUpdate(w)
  PROVE  OutputInv'
<1>1. /\ step[w] = "open r+" /\ step'[w] \in {"flock", "open random"}
      /\ \A p \in Writers \ {w} : step'[p] = step[p] /\ handle'[p] = handle[p]
      /\ step'[w] = "flock" => handle'[w] = entry /\ entry > NoFile
      /\ handle' = handle \/ (handle' = [handle EXCEPT ![w] = entry] /\ entry > NoFile)
      /\ UNCHANGED <<entry, made, lock, early, met, unlocked, wiped>>
  BY DEF OpenUpdate, Goto, OutputInv, OutputTypeOK
<1>2. entry > NoFile => entry \in Files
  BY DEF OutputInv, OutputTypeOK, Files, NoFile, Link
<1>3. Moves(w)
  BY <1>1 DEF Moves, WriterSteps, Opening
<1>4. OutputTypeOK'
  <2>1. step' \in [Writers -> WriterSteps]
    BY DEF OpenUpdate, Goto, OutputInv, OutputTypeOK, WriterSteps, Opening
  <2>2. handle' \in [Writers -> {NoFile} \cup Files]
    BY <1>1, <1>2 DEF OutputInv, OutputTypeOK
  <2> QED BY <2>1, <2>2, <1>1 DEF OutputInv, OutputTypeOK, Files
<1>5. LocksInv' /\ UnlockedInv'
  BY <1>1, <1>2, <1>3, MovesUnlocked DEF Opening, Files
<1>6. KeptInv'
  <2>1. step'[w] = "flock" => \A p \in early[w] : handle'[w] = handle[p] \/ entry' # handle[p]
    BY <1>1
  <2> QED BY <2>1, <1>1, <1>3, MovesKept
<1>7. MetInv' /\ WipedInv'
  BY <1>1, <1>3, MovesMet, MovesWiped
<1> QED BY <1>4, <1>5, <1>6, <1>7 DEF OutputInv

LEMMA FlockInv ==
  ASSUME OutputInv, NEW w \in Writers, Flock(w)
  PROVE  OutputInv'
<1>1. /\ step[w] = "flock" /\ \A p \in Writers \ {w} : step'[p] = step[p] /\ handle'[p] = handle[p]
      /\ entry' = entry /\ made' = made /\ early' = early /\ met' = met
      /\ unlocked' = unlocked /\ wiped' = wiped
  BY DEF Flock, Goto, OutputInv, OutputTypeOK
<1>2. handle[w] \in Files /\ handle[w] \in 1..MaxInodes /\ w \notin unlocked
      /\ \A f \in 1..MaxInodes : w \notin lock[f]
  <2>1. handle[w] \in Files /\ made \in 0..MaxInodes /\ MaxInodes \in Nat
    BY <1>1, OutputFilesAssumption DEF OutputInv, OutputTypeOK, LocksInv
  <2>2. w \notin unlocked /\ \A f \in 1..MaxInodes : w \notin lock[f]
    BY <1>1 DEF OutputInv, LocksInv
  <2> QED BY <2>1, <2>2 DEF Files
<1>3. CASE lock[handle[w]] = {}
  <2>1. /\ lock' = [lock EXCEPT ![handle[w]] = {w}] /\ handle' = handle /\ step'[w] = "close"
        /\ step' = [step EXCEPT ![w] = "close"]
    BY <1>3 DEF Flock, Goto, OutputInv, OutputTypeOK
  <2>2. /\ lock'[handle[w]] = {w} /\ \A f \in 1..MaxInodes \ {handle[w]} : lock'[f] = lock[f]
        /\ lock' \in [1..MaxInodes -> SUBSET Writers] /\ step' \in [Writers -> WriterSteps]
    BY <2>1, <1>2 DEF OutputInv, OutputTypeOK, WriterSteps, Opening
  <2>3. Moves(w)
    BY <1>1, <2>1 DEF Moves, WriterSteps, Opening
  <2>4. OutputTypeOK'
    BY <1>1, <2>1, <2>2 DEF OutputInv, OutputTypeOK, Files
  <2>5. LocksInv'
    <3>1. \A p \in Writers : step'[p] \in {"flock", "close", "relock", "write"} => handle'[p] \in Files'
      BY <1>1, <1>2, <2>1 DEF OutputInv, LocksInv, Files
    <3>2. \A p \in Writers, f \in 1..MaxInodes :
            p \in lock'[f] => handle'[p] = f /\ step'[p] \in {"close", "write"} /\ p \notin unlocked'
      BY <1>1, <1>2, <2>1, <2>2 DEF OutputInv, LocksInv
    <3>3. \A p \in Writers : (step'[p] = "write" /\ p \notin unlocked') \/ step'[p] = "close" =>
            lock'[handle'[p]] = {p}
      <4> SUFFICES ASSUME NEW p \in Writers, (step'[p] = "write" /\ p \notin unlocked) \/ step'[p] = "close"
                   PROVE  lock'[handle[p]] = {p}
        BY <1>1, <2>1
      <4>1. CASE p = w
        BY <4>1, <2>2
      <4>2. CASE p # w
        <5>1. lock[handle[p]] = {p} /\ handle[p] \in Files /\ handle[p] # handle[w]
          BY <4>2, <1>1, <1>3 DEF OutputInv, LocksInv
        <5>2. handle[p] \in 1..MaxInodes
          BY <5>1, OutputFilesAssumption DEF OutputInv, OutputTypeOK, Files
        <5> QED BY <5>1, <5>2, <2>2
      <4> QED BY <4>1, <4>2
    <3>4. \A p \in unlocked' : step'[p] \in {"write", "done"}
      BY <1>1, <1>2 DEF OutputInv, OutputTypeOK, LocksInv
    <3> QED BY <3>1, <3>2, <3>3, <3>4 DEF LocksInv
  \* The file was not locked, so it is none that somebody had before.
  <2>6. \A p \in early[w] : step[p] = "write" /\ p \notin unlocked =>
          handle[w] # handle[p] /\ entry # handle[p]
    <3> SUFFICES ASSUME NEW p \in early[w], step[p] = "write", p \notin unlocked
                 PROVE  handle[w] # handle[p] /\ entry # handle[p]
      OBVIOUS
    <3>1. p \in Writers
      BY DEF OutputInv, OutputTypeOK
    <3>2. lock[handle[p]] = {p}
      BY <3>1 DEF OutputInv, LocksInv
    <3>3. handle[w] # handle[p]
      BY <3>2, <1>3
    <3>4. handle[w] = handle[p] \/ entry # handle[p]
      BY <3>1, <1>1 DEF OutputInv, KeptInv
    <3> QED BY <3>3, <3>4
  <2>7. KeptInv'
    BY <1>1, <2>1, <2>3, <2>6, MovesKept
  <2>8. MetInv' /\ WipedInv' /\ UnlockedInv'
    BY <1>1, <2>3, MovesMet, MovesWiped DEF OutputInv, UnlockedInv
  <2> QED BY <2>4, <2>5, <2>7, <2>8 DEF OutputInv
<1>4. CASE lock[handle[w]] # {}
  <2>1. /\ lock' = lock /\ handle' = [handle EXCEPT ![w] = NoFile] /\ step' = [step EXCEPT ![w] = "open random"]
    BY <1>4 DEF Flock, Goto
  <2>2. step'[w] = "open random"
    BY <2>1 DEF OutputInv, OutputTypeOK
  <2>3. Moves(w)
    BY <1>1, <2>2 DEF Moves, WriterSteps, Opening
  <2>4. OutputTypeOK'
    <3>1. step' \in [Writers -> WriterSteps] /\ handle' \in [Writers -> {NoFile} \cup Files]
      BY <2>1 DEF OutputInv, OutputTypeOK, WriterSteps, Opening
    <3> QED BY <3>1, <1>1, <2>1 DEF OutputInv, OutputTypeOK, Files
  <2>5. LocksInv' /\ UnlockedInv'
    BY <1>1, <2>1, <2>2, <2>3, MovesUnlocked DEF Opening, Files
  <2>6. KeptInv'
    BY <1>1, <2>2, <2>3, MovesKept
  <2>7. MetInv' /\ WipedInv'
    BY <1>1, <2>3, MovesMet, MovesWiped
  <2> QED BY <2>4, <2>5, <2>6, <2>7 DEF OutputInv
<1> QED BY <1>3, <1>4

\* Who holds its lock keeps it when another one lets go.
LEMMA LetsGo ==
  ASSUME OutputInv, NEW w \in Writers, Moves(w), unlocked' = unlocked, made' = made,
         step'[w] \in {"reopen", "done"}, w \notin unlocked \/ step'[w] = "done",
         \A f \in 1..MaxInodes : lock'[f] = lock[f] \ {w}
  PROVE  LocksInv'
<1>1. /\ \A p \in Writers \ {w} : step'[p] = step[p] /\ handle'[p] = handle[p]
      /\ step'[w] \notin {"flock", "close", "relock", "write"}
  BY DEF Moves
<1>2. \A p \in Writers : step'[p] \in {"flock", "close", "relock", "write"} => handle'[p] \in Files'
  BY <1>1 DEF OutputInv, LocksInv, Files
<1>3. \A p \in Writers, f \in 1..MaxInodes :
        p \in lock'[f] => handle'[p] = f /\ step'[p] \in {"close", "write"} /\ p \notin unlocked'
  BY <1>1 DEF OutputInv, LocksInv
<1>4. \A p \in Writers : (step'[p] = "write" /\ p \notin unlocked') \/ step'[p] = "close" =>
        lock'[handle'[p]] = {p}
  <2> SUFFICES ASSUME NEW p \in Writers, (step'[p] = "write" /\ p \notin unlocked) \/ step'[p] = "close"
               PROVE  lock'[handle'[p]] = {p}
    OBVIOUS
  <2>1. p # w /\ handle'[p] = handle[p] /\ lock[handle[p]] = {p} /\ handle[p] \in Files
    BY <1>1 DEF OutputInv, LocksInv
  <2>2. handle[p] \in 1..MaxInodes
    BY <2>1, OutputFilesAssumption DEF OutputInv, OutputTypeOK, Files
  <2> QED BY <2>1, <2>2
<1>5. \A p \in unlocked' : step'[p] \in {"write", "done"}
  BY <1>1 DEF OutputInv, OutputTypeOK, LocksInv
<1> QED BY <1>2, <1>3, <1>4, <1>5 DEF LocksInv

LEMMA ClosesInv ==
  ASSUME OutputInv, NEW w \in Writers, CloseToReopen(w) \/ Close(w)
  PROVE  OutputInv'
<1>1. /\ handle' = [handle EXCEPT ![w] = NoFile]
      /\ \A p \in Writers \ {w} : step'[p] = step[p] /\ handle'[p] = handle[p]
      /\ entry' = entry /\ made' = made /\ early' = early /\ met' = met
      /\ unlocked' = unlocked /\ wiped' = wiped
  BY DEF CloseToReopen, Close, Goto, OutputInv, OutputTypeOK
<1>2. \/ step[w] = "close" /\ step'[w] = "reopen"
      \/ step[w] \in Opening \cup {"write"} /\ step'[w] = "done"
  BY DEF CloseToReopen, Close, Goto, OutputInv, OutputTypeOK
<1>3. Moves(w)
  BY <1>1, <1>2 DEF Moves, WriterSteps, Opening
<1>4. lock' \in [1..MaxInodes -> SUBSET Writers] /\ \A f \in 1..MaxInodes : lock'[f] = lock[f] \ {w}
  <2>1. CASE Close(w)
    BY <2>1 DEF Close, OutputInv, OutputTypeOK
  <2>2. CASE CloseToReopen(w)
    <3>1. step[w] = "close" /\ lock' = [lock EXCEPT ![handle[w]] = @ \ {w}]
      BY <2>2 DEF CloseToReopen
    <3>2. handle[w] \in 1..MaxInodes
      BY <3>1, OutputFilesAssumption DEF OutputInv, OutputTypeOK, LocksInv, Files
    <3>3. \A f \in 1..MaxInodes \ {handle[w]} : w \notin lock[f]
      BY DEF OutputInv, LocksInv
    <3> QED BY <3>1, <3>2, <3>3 DEF OutputInv, OutputTypeOK
  <2> QED BY <2>1, <2>2
<1>5. OutputTypeOK'
  <2>1. step' \in [Writers -> WriterSteps] /\ handle' \in [Writers -> {NoFile} \cup Files]
    BY DEF CloseToReopen, Close, Goto, OutputInv, OutputTypeOK, WriterSteps, Opening
  <2> QED BY <2>1, <1>1, <1>4 DEF OutputInv, OutputTypeOK, Files
<1>6. LocksInv'
  <2>1. w \notin unlocked \/ step'[w] = "done"
    BY <1>2 DEF OutputInv, LocksInv
  <2> QED BY <2>1, <1>1, <1>2, <1>3, <1>4, LetsGo
\* Before the file is closed the name leads to another one than those that are kept.
<1>7. \A p \in early[w] : step[p] = "write" /\ p \notin unlocked /\ step'[w] = "reopen" => entry # handle[p]
  BY <1>2 DEF OutputInv, OutputTypeOK, KeptInv
<1>8. KeptInv'
  BY <1>1, <1>2, <1>3, <1>7, MovesKept
<1>9. MetInv' /\ WipedInv' /\ UnlockedInv'
  BY <1>1, <1>3, MovesMet, MovesWiped DEF OutputInv, UnlockedInv
<1> QED BY <1>5, <1>6, <1>8, <1>9 DEF OutputInv

\* Who fails to lock its file again was opening it while the one that has the
\* lock was opening it too.
LEMMA RelockInv ==
  ASSUME OutputInv, NEW w \in Writers, Relock(w)
  PROVE  OutputInv'
<1>1. /\ step[w] = "relock" /\ step'[w] = "write" /\ \A p \in Writers \ {w} : step'[p] = step[p]
      /\ step' \in [Writers -> WriterSteps]
      /\ entry' = entry /\ made' = made /\ handle' = handle /\ early' = early /\ met' = met
      /\ wiped' = wiped
  BY DEF Relock, Goto, OutputInv, OutputTypeOK, WriterSteps, Opening
<1>2. handle[w] \in Files /\ handle[w] \in 1..MaxInodes /\ w \notin unlocked
      /\ \A f \in 1..MaxInodes : w \notin lock[f]
  <2>1. handle[w] \in Files /\ made \in 0..MaxInodes /\ MaxInodes \in Nat
    BY <1>1, OutputFilesAssumption DEF OutputInv, OutputTypeOK, LocksInv
  <2>2. w \notin unlocked /\ \A f \in 1..MaxInodes : w \notin lock[f]
    BY <1>1 DEF OutputInv, LocksInv
  <2> QED BY <2>1, <2>2 DEF Files
<1>3. /\ unlocked \subseteq unlocked' /\ unlocked' \subseteq unlocked \cup {w}
      /\ w \in unlocked' <=> lock[handle[w]] # {}
      /\ lock[handle[w]] # {} => lock' = lock
      /\ lock[handle[w]] = {} => lock' = [lock EXCEPT ![handle[w]] = {w}]
  BY <1>2 DEF Relock
<1>4. Moves(w)
  BY <1>1 DEF Moves, WriterSteps, Opening
<1>5. lock' \in [1..MaxInodes -> SUBSET Writers]
  BY <1>2, <1>3 DEF OutputInv, OutputTypeOK
<1>6. OutputTypeOK'
  BY <1>1, <1>3, <1>5 DEF OutputInv, OutputTypeOK, Files
<1>7. \A f \in 1..MaxInodes : lock'[f] = IF f = handle[w] /\ lock[f] = {} THEN {w} ELSE lock[f]
  BY <1>2, <1>3 DEF OutputInv, OutputTypeOK
<1>8. LocksInv'
  <2>1. \A p \in Writers : step'[p] \in {"flock", "close", "relock", "write"} => handle'[p] \in Files'
    BY <1>1, <1>2 DEF OutputInv, LocksInv, Files
  <2>2. \A p \in Writers, f \in 1..MaxInodes :
          p \in lock'[f] => handle'[p] = f /\ step'[p] \in {"close", "write"} /\ p \notin unlocked'
    <3> SUFFICES ASSUME NEW p \in Writers, NEW f \in 1..MaxInodes, p \in lock'[f]
                 PROVE  handle[p] = f /\ step'[p] \in {"close", "write"} /\ p \notin unlocked'
      BY <1>1
    <3>1. CASE f = handle[w] /\ lock[f] = {}
      BY <3>1, <1>1, <1>3, <1>7
    <3>2. CASE ~(f = handle[w] /\ lock[f] = {})
      <4>1. p \in lock[f] /\ p # w
        BY <3>2, <1>2, <1>7
      <4> QED BY <4>1, <1>1, <1>3 DEF OutputInv, LocksInv
    <3> QED BY <3>1, <3>2
  <2>3. \A p \in Writers : (step'[p] = "write" /\ p \notin unlocked') \/ step'[p] = "close" =>
          lock'[handle'[p]] = {p}
    <3> SUFFICES ASSUME NEW p \in Writers, (step'[p] = "write" /\ p \notin unlocked') \/ step'[p] = "close"
                 PROVE  lock'[handle[p]] = {p}
      BY <1>1
    <3>1. CASE p = w
      BY <3>1, <1>1, <1>2, <1>3, <1>7
    <3>2. CASE p # w
      <4>1. lock[handle[p]] = {p} /\ handle[p] \in Files
        BY <3>2, <1>1, <1>3 DEF OutputInv, LocksInv
      <4>2. handle[p] \in 1..MaxInodes
        BY <4>1, OutputFilesAssumption DEF OutputInv, OutputTypeOK, Files
      <4> QED BY <4>1, <4>2, <1>7
    <3> QED BY <3>1, <3>2
  <2>4. \A p \in unlocked' : step'[p] \in {"write", "done"}
    BY <1>1, <1>3 DEF OutputInv, OutputTypeOK, LocksInv
  <2> QED BY <2>1, <2>2, <2>3, <2>4 DEF LocksInv
<1>9. \A p \in early[w] : step[p] = "write" /\ p \notin unlocked => handle[w] # handle[p]
  BY <1>1 DEF OutputInv, OutputTypeOK, KeptInv
<1>10. KeptInv'
  BY <1>1, <1>3, <1>4, <1>9, MovesKept
<1>11. MetInv' /\ WipedInv'
  BY <1>1, <1>3, <1>4, MovesMet, MovesWiped
<1>12. UnlockedInv'
  <2>1. ASSUME NEW q \in lock[handle[w]]
        PROVE  q \in met[w]
    <3>1. q \in Writers /\ q # w /\ handle[q] = handle[w] /\ step[q] \in {"close", "write"} /\ q \notin unlocked
      BY <1>2, <2>1 DEF OutputInv, OutputTypeOK, LocksInv
    <3>2. q \notin early[w]
      BY <3>1, <1>9 DEF OutputInv, KeptInv
    <3> QED BY <3>1, <3>2, <1>1 DEF OutputInv, MetInv, Opening
  <2>2. lock[handle[w]] # {} => met[w] # {}
    BY <2>1
  <2> QED BY <2>2, <1>1, <1>3 DEF OutputInv, UnlockedInv
<1> QED BY <1>6, <1>8, <1>10, <1>11, <1>12 DEF OutputInv

LEMMA UnlinkInv ==
  ASSUME OutputInv, Unlink
  PROVE  OutputInv'
<1>1. /\ entry' = NoFile /\ made' = made /\ step' = step /\ handle' = handle /\ lock' = lock
      /\ early' = early /\ met' = met /\ unlocked' = unlocked /\ wiped' = wiped
  BY DEF Unlink
<1>2. OutputTypeOK'
  BY <1>1 DEF OutputInv, OutputTypeOK, Files
<1>3. LocksInv' /\ MetInv' /\ WipedInv' /\ UnlockedInv'
  BY <1>1 DEF OutputInv, LocksInv, MetInv, WipedInv, UnlockedInv, Files
<1>4. KeptInv'
  <2>1. \A p \in Writers : step[p] = "write" => handle[p] # NoFile
    BY DEF OutputInv, OutputTypeOK, LocksInv, Files, NoFile
  <2> QED BY <2>1, <1>1 DEF OutputInv, KeptInv
<1> QED BY <1>2, <1>3, <1>4 DEF OutputInv

LEMMA OutputStarts == OutputInit => OutputInv
<1> SUFFICES ASSUME OutputInit
             PROVE  OutputInv
  OBVIOUS
<1>1. OutputTypeOK
  <2>1. made \in 0..MaxInodes /\ entry \in {NoFile, Link} \cup Files
    <3>1. entry \in {NoFile, Link, 1} /\ made = IF entry = 1 THEN 1 ELSE 0
      BY DEF OutputInit
    <3>2. CASE entry = 1
      BY <3>1, <3>2, OutputFilesAssumption DEF Files
    <3>3. CASE entry # 1
      BY <3>1, <3>3, OutputFilesAssumption
    <3> QED BY <3>2, <3>3
  <2>2. step \in [Writers -> WriterSteps] /\ handle \in [Writers -> {NoFile} \cup Files]
    BY DEF OutputInit, WriterSteps
  <2>3. /\ lock \in [1..MaxInodes -> SUBSET Writers]
        /\ early \in [Writers -> SUBSET Writers] /\ met \in [Writers -> SUBSET Writers]
        /\ unlocked \subseteq Writers
    BY DEF OutputInit
  <2> QED BY <2>1, <2>2, <2>3 DEF OutputTypeOK
<1>2. LocksInv /\ KeptInv /\ MetInv /\ WipedInv /\ UnlockedInv
  BY DEF OutputInit, LocksInv, KeptInv, MetInv, WipedInv, UnlockedInv, Opening
<1> QED BY <1>1, <1>2 DEF OutputInv

\* A file is kept by the process that has it, for any number of processes whose
\* system calls come in any order (usefulstuff.c:370).
THEOREM FilesStayWithTheirWriters == OutputSpec => []FileIsKept
<1>1. OutputInv /\ [OutputNext]_outputVars => OutputInv'
  <2> SUFFICES ASSUME OutputInv, [OutputNext]_outputVars
               PROVE  OutputInv'
    OBVIOUS
  <2>1. CASE outputVars' = outputVars
    <3>1. /\ entry' = entry /\ made' = made /\ step' = step /\ handle' = handle /\ lock' = lock
          /\ early' = early /\ met' = met /\ unlocked' = unlocked /\ wiped' = wiped
      BY <2>1 DEF outputVars
    <3>2. OutputTypeOK' /\ LocksInv'
      BY <3>1 DEF OutputInv, OutputTypeOK, LocksInv, Files
    <3>3. KeptInv' /\ MetInv' /\ WipedInv' /\ UnlockedInv'
      BY <3>1 DEF OutputInv, KeptInv, MetInv, WipedInv, UnlockedInv
    <3> QED BY <3>2, <3>3 DEF OutputInv
  <2>2. ASSUME NEW w \in Writers,
               \/ Begin(w) \/ Lstat(w) \/ OpenW(w) \/ OpenRandom(w) \/ OpenUpdate(w)
               \/ Flock(w) \/ CloseToReopen(w) \/ Reopen(w) \/ Relock(w) \/ Close(w)
        PROVE  OutputInv'
    BY <2>2, BeginInv, LstatInv, OpensInv, OpensRandomInv, OpensUpdateInv, FlockInv, ClosesInv, RelockInv
  <2> QED BY <2>1, <2>2, UnlinkInv DEF OutputNext
<1> QED BY <1>1, KeptThen, OutputStarts, PTL DEF OutputSpec
-----------------------------------------------------------------------------
(* The control socket, for any clients and any length of the queue.  What     *)
(* ControlIsAnswered needs besides itself: who is read from and who waits are *)
(* told apart by the place a process is at, and while nothing was forked      *)
(* there is one process.                                                      *)

Places  == {"idle", "runs", "accepting", "reading"}
Answers == {"none", "parse error", "command unavailable", "ps", "signalled", "not enabled"}
Program == [at: Places, with: ControlClients \cup {Nobody}, socket: BOOLEAN, due: BOOLEAN,
            active: BOOLEAN, do_connect: BOOLEAN, do_break: BOOLEAN, statements: BOOLEAN]
Client  == [is: {"away", "here", "gone"}, sent: Commands \cup {"nothing"}, answer: Answers]

ControlTypeOK ==
  /\ programs \in [Programs -> Program]
  /\ waiting \in Seq(ControlClients)
  /\ clients \in [ControlClients -> Client]
  /\ step_debug \in BOOLEAN /\ forks \in {0, 1}
  /\ deafened \subseteq Programs

Waits(c)  == \E i \in 1..Len(waiting) : waiting[i] = c
IsRead(c) == \E p \in Programs : programs[p].with = c

\* A process reads from a client exactly while it is at its read, and without
\* mode debug no flag is set.
PlacesInv ==
  \A p \in Programs :
    /\ programs[p].with # Nobody <=> programs[p].at = "reading"
    /\ ~step_debug => ~programs[p].do_connect /\ ~programs[p].do_break

\* Of the signals, those that nobody hears are remembered.
HeardInv == \A p \in Programs : programs[p].do_connect /\ ~programs[p].statements => p \in deafened

\* There is one process until one is forked, so nobody takes its client.
AloneInv ==
  forks = 0 =>
    /\ programs[Child].at = "idle"
    /\ programs[Parent].at = "accepting" => waiting # <<>>

\* A client is in one place, from when it connects until it is answered.
OnePlaceInv ==
  /\ \A p, q \in Programs : programs[p].with = programs[q].with /\ p # q => programs[p].with = Nobody
  /\ \A i, j \in 1..Len(waiting) : waiting[i] = waiting[j] => i = j
  /\ \A c \in ControlClients :
       /\ ~(Waits(c) /\ IsRead(c))
       /\ Waits(c) \/ IsRead(c) => clients[c].is # "away" /\ clients[c].answer = "none"
       /\ clients[c].is = "here" /\ clients[c].answer = "none" => Waits(c) \/ IsRead(c)

ControlInv == ControlTypeOK /\ PlacesInv /\ HeardInv /\ AloneInv /\ OnePlaceInv
-----------------------------------------------------------------------------
\* The first state of a request's processes and clients.
LEMMA ControlStarts == ControlInit => ControlInv
<1> SUFFICES ASSUME ControlInit PROVE ControlInv
  OBVIOUS
<1> USE ControlSocketAssumption
<1>1. /\ \A p \in Programs : programs[p] = IdleProgram
      /\ \A c \in ControlClients : clients[c] = NewClient
      /\ waiting = <<>> /\ forks = 0 /\ deafened = {} /\ Len(waiting) = 0
  BY DEF ControlInit
<1>2. ControlTypeOK
  BY <1>1 DEF ControlInit, ControlTypeOK, Program, Client, IdleProgram, NewClient, Places, Answers
<1>3. PlacesInv /\ HeardInv /\ AloneInv
  BY <1>1 DEF PlacesInv, HeardInv, AloneInv, IdleProgram, Programs
<1>4. \A c \in ControlClients : ~Waits(c) /\ ~IsRead(c)
  BY <1>1 DEF Waits, IsRead, IdleProgram
<1>5. OnePlaceInv
  BY <1>1, <1>4 DEF OnePlaceInv, IdleProgram, NewClient
<1> QED
  BY <1>2, <1>3, <1>5 DEF ControlInv
-----------------------------------------------------------------------------
(* One lemma for each kind of step. *)

\* A step of one process that leaves the queue and the clients alone, neither
\* accepts nor finishes a read, and remembers a signal it drops.
LEMMA ProcessMoves ==
  ASSUME ControlInv, NEW p \in Programs, NEW g \in Program,
         programs' = [programs EXCEPT ![p] = g],
         UNCHANGED <<waiting, clients, step_debug, forks>>,
         deafened' \subseteq Programs, deafened \ {p} \subseteq deafened',
         g.with = Nobody, programs[p].with = Nobody, g.at # "reading",
         ~step_debug => ~g.do_connect /\ ~g.do_break,
         g.do_connect /\ ~g.statements => p \in deafened',
         forks = 0 => p = Parent \/ g.at = "idle",
         g.at = "accepting" => waiting # <<>>
  PROVE  ControlInv'
<1> USE ControlSocketAssumption
<1>1. /\ programs'[p] = g /\ \A q \in Programs \ {p} : programs'[q] = programs[q]
      /\ programs' \in [Programs -> Program]
  BY DEF ControlInv, ControlTypeOK
<1>2. \A q \in Programs : programs'[q].with = programs[q].with
  BY <1>1
<1>3. ControlTypeOK'
  BY <1>1 DEF ControlInv, ControlTypeOK
<1>4. PlacesInv'
  BY <1>1 DEF ControlInv, PlacesInv
<1>5. HeardInv'
  BY <1>1 DEF ControlInv, HeardInv
<1>6. AloneInv'
  BY <1>1 DEF ControlInv, AloneInv, Programs
<1>7. \A c \in ControlClients : (Waits(c)' <=> Waits(c)) /\ (IsRead(c)' <=> IsRead(c))
  BY <1>2 DEF Waits, IsRead
<1>8. OnePlaceInv'
  BY <1>2, <1>7 DEF ControlInv, OnePlaceInv
<1> QED
  BY <1>3, <1>4, <1>5, <1>6, <1>8 DEF ControlInv

\* A step of a client that stays where it is, or leaves.
LEMMA ClientMoves ==
  ASSUME ControlInv, NEW c \in ControlClients, NEW d \in Client,
         clients' = [clients EXCEPT ![c] = d],
         UNCHANGED <<programs, waiting, step_debug, forks, deafened>>,
         clients[c].is = "here", d.is \in {"here", "gone"}, d.answer = clients[c].answer
  PROVE  ControlInv'
<1>1. /\ clients'[c] = d /\ \A b \in ControlClients \ {c} : clients'[b] = clients[b]
      /\ clients' \in [ControlClients -> Client]
  BY DEF ControlInv, ControlTypeOK
<1>2. \A b \in ControlClients : (Waits(b)' <=> Waits(b)) /\ (IsRead(b)' <=> IsRead(b))
  BY DEF Waits, IsRead
<1>3. OnePlaceInv'
  BY <1>1, <1>2 DEF ControlInv, OnePlaceInv
<1>4. ControlTypeOK' /\ PlacesInv' /\ HeardInv' /\ AloneInv'
  BY <1>1 DEF ControlInv, ControlTypeOK, PlacesInv, HeardInv, AloneInv
<1> QED
  BY <1>3, <1>4 DEF ControlInv
-----------------------------------------------------------------------------
(* The actions. *)

LEMMA SetupKeeps == ControlInv /\ ControlSetup => ControlInv'
<1> SUFFICES ASSUME ControlInv, ControlSetup PROVE ControlInv'
  OBVIOUS
<1> USE ControlSocketAssumption
<1>1. PICK active \in {FALSE, step_debug} :
        programs' = [programs EXCEPT ![Parent] =
          [IdleProgram EXCEPT !.at = "runs", !.socket = ~IsOpen, !.active = active, !.statements = active]]
  BY DEF ControlSetup, Becomes
<1> DEFINE g == [IdleProgram EXCEPT !.at = "runs", !.socket = ~IsOpen, !.active = active, !.statements = active]
<1>2. IsOpen \in BOOLEAN /\ active \in BOOLEAN
  BY DEF IsOpen, ControlInv, ControlTypeOK
<1>3. g \in Program /\ g.with = Nobody /\ g.at = "runs" /\ ~g.do_connect /\ ~g.do_break
  BY <1>2 DEF IdleProgram, Program, Places
<1>4. programs[Parent].with = Nobody
  BY DEF ControlSetup, ControlInv, PlacesInv, Programs
<1> QED
  BY <1>1, <1>3, <1>4, ProcessMoves DEF ControlSetup, ControlInv, ControlTypeOK, Programs

LEMMA FlagsMoveKeep ==
  ASSUME ControlInv, NEW p \in Programs,
         TimePasses(p) \/ Dispatch(p) \/ Statement(p) \/ StartUponError(p) \/ ConnectionLost(p)
  PROVE  ControlInv'
<1> USE ControlSocketAssumption
<1>1. /\ programs[p] \in Program /\ programs[p].at = "runs" /\ programs[p].with = Nobody
      /\ deafened \subseteq Programs
  BY DEF TimePasses, Dispatch, Statement, StartUponError, ConnectionLost, Runs, ControlInv, ControlTypeOK, PlacesInv
<1>2. forks = 0 => p = Parent
  BY <1>1 DEF ControlInv, AloneInv, Programs
<1>3. CASE TimePasses(p)
  <2> DEFINE g == [programs[p] EXCEPT !.due = TRUE]
  <2>1. /\ g \in Program /\ g.at = "runs" /\ g.with = Nobody
        /\ g.do_connect = programs[p].do_connect /\ g.do_break = programs[p].do_break
        /\ g.statements = programs[p].statements
    BY <1>1 DEF Program
  <2>2. programs' = [programs EXCEPT ![p] = g]
    BY <1>3 DEF TimePasses, Becomes
  <2> HIDE DEF g
  <2> QED
    BY <1>1, <1>2, <1>3, <2>1, <2>2, ProcessMoves DEF TimePasses, ControlInv, PlacesInv, HeardInv
<1>4. CASE Dispatch(p)
  <2> DEFINE g == [programs[p] EXCEPT !.due = FALSE, !.at = IF waiting = <<>> THEN "runs" ELSE "accepting"]
  <2>1. /\ g \in Program /\ g.at # "reading" /\ g.with = Nobody
        /\ g.at = "accepting" => waiting # <<>>
        /\ g.do_connect = programs[p].do_connect /\ g.do_break = programs[p].do_break
        /\ g.statements = programs[p].statements
    BY <1>1 DEF Program, Places
  <2>2. programs' = [programs EXCEPT ![p] = g]
    BY <1>4 DEF Dispatch, Becomes
  <2> HIDE DEF g
  <2> QED
    BY <1>1, <1>2, <1>4, <2>1, <2>2, ProcessMoves DEF Dispatch, ControlInv, PlacesInv, HeardInv
<1>5. CASE ConnectionLost(p)
  <2> DEFINE g == [programs[p] EXCEPT !.active = FALSE]
  <2>1. /\ g \in Program /\ g.at = "runs" /\ g.with = Nobody
        /\ g.do_connect = programs[p].do_connect /\ g.do_break = programs[p].do_break
        /\ g.statements = programs[p].statements
    BY <1>1 DEF Program
  <2>2. programs' = [programs EXCEPT ![p] = g]
    BY <1>5 DEF ConnectionLost, Becomes
  <2> HIDE DEF g
  <2> QED
    BY <1>1, <1>2, <1>5, <2>1, <2>2, ProcessMoves DEF ConnectionLost, ControlInv, PlacesInv, HeardInv
<1>6. CASE Statement(p)
  <2>1. PICK ok \in BOOLEAN :
          LET g == programs[p]
              h == IF g.do_connect /\ ~g.active THEN Connected(g, ok) ELSE g
          IN  programs' = [programs EXCEPT ![p] =
                [h EXCEPT !.do_connect = FALSE, !.do_break = @ /\ ~h.active]]
    BY <1>6 DEF Statement, Becomes
  <2> DEFINE g == programs[p]
             h == IF g.do_connect /\ ~g.active THEN Connected(g, ok) ELSE g
             k == [h EXCEPT !.do_connect = FALSE, !.do_break = @ /\ ~h.active]
  <2>2. h \in Program /\ h.at = "runs" /\ h.with = Nobody /\ h.do_break = g.do_break
    BY <1>1 DEF Connected, Program
  <2>3. /\ k \in Program /\ k.at = "runs" /\ k.with = Nobody /\ ~k.do_connect
        /\ k.do_break => g.do_break
    BY <2>2 DEF Program
  <2> QED
    BY <1>1, <1>2, <1>6, <2>1, <2>3, ProcessMoves DEF Statement, ControlInv, PlacesInv
<1>7. CASE StartUponError(p)
  <2>1. PICK ok \in BOOLEAN :
          /\ programs' = [programs EXCEPT ![p] = Connected(programs[p], ok)]
          /\ deafened' = IF programs[p].do_connect /\ ~ok THEN deafened \cup {p} ELSE deafened \ {p}
    BY <1>7 DEF StartUponError, Becomes
  <2>2. /\ Connected(programs[p], ok) \in Program
        /\ Connected(programs[p], ok).at = "runs" /\ Connected(programs[p], ok).with = Nobody
        /\ Connected(programs[p], ok).do_connect = programs[p].do_connect
        /\ Connected(programs[p], ok).statements = ok
    BY <1>1 DEF Connected, Program
  <2> QED
    BY <1>1, <1>2, <1>7, <2>1, <2>2, ProcessMoves DEF StartUponError
<1> QED
  BY <1>3, <1>4, <1>5, <1>6, <1>7

\* A child has what its parent had, which reads from nobody when it forks.
LEMMA ForkKeeps == ControlInv /\ ControlFork => ControlInv'
<1> SUFFICES ASSUME ControlInv, ControlFork PROVE ControlInv'
  OBVIOUS
<1> USE ControlSocketAssumption
<1> DEFINE parent == programs[Parent]
<1>1. PICK connects \in {FALSE, parent.active} :
        programs' = [programs EXCEPT ![Child] =
          [parent EXCEPT !.active = connects,
                         !.statements = IF parent.active THEN connects ELSE @]]
  BY DEF ControlFork, Becomes
<1> DEFINE g == [parent EXCEPT !.active = connects,
                               !.statements = IF parent.active THEN connects ELSE @]
<1>2. /\ parent \in Program /\ parent.at = "runs" /\ parent.with = Nobody
      /\ programs[Child].with = Nobody /\ programs[Child].at = "idle"
  BY DEF ControlFork, Runs, ControlInv, ControlTypeOK, PlacesInv, Programs
<1>3. /\ g \in Program /\ g.at = "runs" /\ g.with = Nobody
      /\ g.do_connect = parent.do_connect /\ g.do_break = parent.do_break
  BY <1>1, <1>2 DEF Program
<1>4. programs' = [programs EXCEPT ![Child] = g]
  BY <1>1
<1> HIDE DEF g
<1>5. /\ programs'[Child] = g /\ programs'[Parent] = parent
      /\ programs' \in [Programs -> Program]
  BY <1>3, <1>4 DEF ControlInv, ControlTypeOK, Programs
<1>6. \A q \in Programs : programs'[q].with = programs[q].with
  BY <1>2, <1>3, <1>5 DEF Programs
<1>7. forks = 0 /\ forks' = 1 /\ UNCHANGED <<waiting, clients, step_debug>>
  BY DEF ControlFork, ControlInv, ControlTypeOK
<1>8. /\ deafened' \subseteq Programs /\ deafened \subseteq deafened'
      /\ g.do_connect /\ ~g.statements => Child \in deafened'
  BY <1>3, <1>5 DEF ControlFork, ControlInv, ControlTypeOK, Programs
<1>9. ControlTypeOK'
  BY <1>5, <1>7, <1>8 DEF ControlInv, ControlTypeOK
<1>10. PlacesInv'
  BY <1>2, <1>3, <1>5, <1>7 DEF ControlInv, PlacesInv, Programs
<1>11. HeardInv'
  BY <1>5, <1>8 DEF ControlInv, HeardInv, Programs
<1>12. AloneInv'
  BY <1>7 DEF AloneInv
<1>13. \A c \in ControlClients : (Waits(c)' <=> Waits(c)) /\ (IsRead(c)' <=> IsRead(c))
  BY <1>6, <1>7 DEF Waits, IsRead
<1>14. OnePlaceInv'
  BY <1>6, <1>7, <1>13 DEF ControlInv, OnePlaceInv
<1> QED
  BY <1>9, <1>10, <1>11, <1>12, <1>14 DEF ControlInv

\* The last process that has the socket takes those that wait with it.
LEMMA TeardownKeeps ==
  ASSUME ControlInv, NEW p \in Programs, ControlTeardown(p)
  PROVE  ControlInv'
<1> USE ControlSocketAssumption
<1> DEFINE last == ~ \E q \in Programs \ {p} : programs[q].socket
<1>1. CASE ~last
  <2>1. clients' = clients
    BY <1>1 DEF ControlTeardown, ControlInv, ControlTypeOK
  <2>2. IdleProgram \in Program /\ IdleProgram.with = Nobody /\ IdleProgram.at = "idle"
    BY DEF IdleProgram, Program, Places
  <2>3. /\ programs' = [programs EXCEPT ![p] = IdleProgram] /\ programs[p].with = Nobody
        /\ UNCHANGED <<waiting, step_debug, forks, deafened>>
    BY <1>1 DEF ControlTeardown, Becomes, Runs, ControlInv, PlacesInv
  <2>4. ~IdleProgram.do_connect /\ ~IdleProgram.do_break
    BY DEF IdleProgram
  <2> QED
    BY <2>1, <2>2, <2>3, <2>4, ProcessMoves DEF ControlInv, ControlTypeOK
<1>2. CASE last
  <2>1. /\ programs' = [programs EXCEPT ![p] = IdleProgram] /\ programs[p].with = Nobody
        /\ programs[p].at = "runs"
        /\ waiting' = <<>> /\ UNCHANGED <<step_debug, forks, deafened>>
    BY <1>2 DEF ControlTeardown, Becomes, Runs, ControlInv, PlacesInv
  <2>2. clients' = [c \in ControlClients |->
                      IF c \in ToSet(waiting) THEN [clients[c] EXCEPT !.is = "gone"] ELSE clients[c]]
    BY <1>2 DEF ControlTeardown
  <2>3. \A c \in ControlClients : c \in ToSet(waiting) <=> Waits(c)
    BY DEF ToSet, Waits, ControlInv, ControlTypeOK
  <2>4. /\ IdleProgram \in Program /\ IdleProgram.with = Nobody /\ IdleProgram.at = "idle"
        /\ ~IdleProgram.do_connect /\ ~IdleProgram.do_break
    BY DEF IdleProgram, Program, Places
  <2>5. /\ programs'[p] = IdleProgram /\ \A q \in Programs \ {p} : programs'[q] = programs[q]
        /\ programs' \in [Programs -> Program]
    BY <2>1, <2>4 DEF ControlInv, ControlTypeOK
  <2>6. \A q \in Programs : programs'[q].with = programs[q].with
    BY <2>1, <2>4, <2>5
  <2>7. /\ clients' \in [ControlClients -> Client]
        /\ \A c \in ControlClients : /\ clients'[c].answer = clients[c].answer
                                     /\ Waits(c) => clients'[c].is = "gone"
                                     /\ ~Waits(c) => clients'[c] = clients[c]
    BY <2>2, <2>3 DEF ControlInv, ControlTypeOK, Client
  <2>8. \A c \in ControlClients : ~Waits(c)' /\ (IsRead(c)' <=> IsRead(c))
    <3>1. Len(waiting') = 0
      BY <2>1
    <3> QED
      BY <2>6, <3>1 DEF Waits, IsRead
  <2>9. OnePlaceInv'
    <3>1. \A q, r \in Programs : programs'[q].with = programs'[r].with /\ q # r => programs'[q].with = Nobody
      BY <2>6 DEF ControlInv, OnePlaceInv
    <3>2. \A i, j \in 1..Len(waiting') : waiting'[i] = waiting'[j] => i = j
      <4>1. Len(waiting') = 0
        BY <2>1
      <4> QED
        BY <4>1
    <3>3. ASSUME NEW c \in ControlClients
          PROVE  /\ ~(Waits(c)' /\ IsRead(c)')
                 /\ Waits(c)' \/ IsRead(c)' => clients'[c].is # "away" /\ clients'[c].answer = "none"
                 /\ clients'[c].is = "here" /\ clients'[c].answer = "none" => Waits(c)' \/ IsRead(c)'
      BY <2>7, <2>8 DEF ControlInv, OnePlaceInv
    <3> QED
      BY <3>1, <3>2, <3>3 DEF OnePlaceInv
  <2>10. ControlTypeOK'
    BY <2>1, <2>5, <2>7 DEF ControlInv, ControlTypeOK
  <2>11. PlacesInv' /\ HeardInv'
    BY <2>1, <2>4, <2>5 DEF ControlInv, PlacesInv, HeardInv
  <2>12. AloneInv'
    <3>1. forks = 0 => p = Parent
      BY <2>1 DEF ControlInv, AloneInv, Programs
    <3> QED
      BY <2>1, <2>4, <2>5, <3>1 DEF ControlInv, AloneInv, Programs
  <2> QED
    BY <2>9, <2>10, <2>11, <2>12 DEF ControlInv
<1> QED
  BY <1>1, <1>2

\* A client that connects is in no place before, and last in the queue then.
LEMMA ConnectKeeps ==
  ASSUME ControlInv, NEW c \in ControlClients, ControlConnect(c)
  PROVE  ControlInv'
<1> USE ControlSocketAssumption
<1> DEFINE n == Len(waiting)
<1>1. /\ waiting \in Seq(ControlClients) /\ n \in Nat
      /\ waiting' = Append(waiting, c) /\ clients[c] = NewClient
      /\ clients' = [clients EXCEPT ![c].is = "here"]
      /\ UNCHANGED <<programs, step_debug, forks, deafened>>
  BY DEF ControlConnect, ControlInv, ControlTypeOK
<1>2. /\ waiting' \in Seq(ControlClients) /\ Len(waiting') = n + 1 /\ waiting'[n + 1] = c
      /\ \A i \in 1..n : waiting'[i] = waiting[i]
      /\ waiting' # <<>>
  BY <1>1
<1>3. /\ clients'[c].is = "here" /\ clients'[c].answer = "none"
      /\ \A b \in ControlClients \ {c} : clients'[b] = clients[b]
      /\ clients' \in [ControlClients -> Client]
  BY <1>1 DEF ControlInv, ControlTypeOK, Client, NewClient
<1>4. ~Waits(c) /\ ~IsRead(c)
  BY <1>1 DEF ControlInv, OnePlaceInv, NewClient
<1>5. \A b \in ControlClients : (Waits(b)' <=> Waits(b) \/ b = c) /\ (IsRead(b)' <=> IsRead(b))
  <2>1. TAKE b \in ControlClients
  <2>2. ASSUME Waits(b)' PROVE Waits(b) \/ b = c
    BY <1>1, <1>2, <2>2 DEF Waits
  <2>3. ASSUME Waits(b) \/ b = c PROVE Waits(b)'
    BY <1>1, <1>2, <2>3 DEF Waits
  <2> QED
    BY <1>1, <2>2, <2>3 DEF IsRead
<1>6. \A i, j \in 1..Len(waiting') : waiting'[i] = waiting'[j] => i = j
  <2>1. \A i \in 1..n : waiting[i] # c
    BY <1>4 DEF Waits
  <2>2. \A i, j \in 1..n : waiting[i] = waiting[j] => i = j
    BY DEF ControlInv, OnePlaceInv
  <2> QED
    BY <1>1, <1>2, <2>1, <2>2
<1>7. OnePlaceInv'
  <2>1. \A p, q \in Programs : programs'[p].with = programs'[q].with /\ p # q => programs'[p].with = Nobody
    BY <1>1 DEF ControlInv, OnePlaceInv
  <2>2. ASSUME NEW b \in ControlClients
        PROVE  /\ ~(Waits(b)' /\ IsRead(b)')
               /\ Waits(b)' \/ IsRead(b)' => clients'[b].is # "away" /\ clients'[b].answer = "none"
               /\ clients'[b].is = "here" /\ clients'[b].answer = "none" => Waits(b)' \/ IsRead(b)'
    BY <1>3, <1>4, <1>5 DEF ControlInv, OnePlaceInv
  <2> QED
    BY <1>6, <2>1, <2>2 DEF OnePlaceInv
<1>8. ControlTypeOK' /\ PlacesInv' /\ HeardInv' /\ AloneInv'
  BY <1>1, <1>2, <1>3 DEF ControlInv, ControlTypeOK, PlacesInv, HeardInv, AloneInv
<1> QED
  BY <1>7, <1>8 DEF ControlInv

\* Sending and leaving change no place and no answer.
LEMMA ClientsKeep ==
  ASSUME ControlInv, NEW c \in ControlClients, ControlSend(c) \/ ControlLeave(c)
  PROVE  ControlInv'
<1>1. clients[c] \in Client /\ clients[c].is = "here"
  BY DEF ControlSend, ControlLeave, ControlInv, ControlTypeOK
<1>2. CASE ControlSend(c)
  <2>1. PICK command \in Commands : clients' = [clients EXCEPT ![c].sent = command]
    BY <1>2 DEF ControlSend
  <2> DEFINE d == [clients[c] EXCEPT !.sent = command]
  <2>2. d \in Client /\ d.is = "here" /\ d.answer = clients[c].answer
    BY <1>1 DEF Client
  <2>3. clients' = [clients EXCEPT ![c] = d]
    BY <2>1
  <2> HIDE DEF d
  <2> QED
    BY <1>1, <1>2, <2>2, <2>3, ClientMoves DEF ControlSend
<1>3. CASE ControlLeave(c)
  <2> DEFINE d == [clients[c] EXCEPT !.is = "gone"]
  <2>1. d \in Client /\ d.is = "gone" /\ d.answer = clients[c].answer
    BY <1>1 DEF Client
  <2>2. clients' = [clients EXCEPT ![c] = d]
    BY <1>3 DEF ControlLeave
  <2> HIDE DEF d
  <2> QED
    BY <1>1, <1>3, <2>1, <2>2, ClientMoves DEF ControlLeave
<1> QED
  BY <1>2, <1>3

\* The client at the head is read from and waits no longer: nobody is in the
\* queue twice.
LEMMA AcceptKeeps ==
  ASSUME ControlInv, NEW p \in Programs, Accept(p)
  PROVE  ControlInv'
<1> USE ControlSocketAssumption
<1> DEFINE c == waiting[1]
           n == Len(waiting)
<1>1. /\ waiting \in Seq(ControlClients) /\ n \in Nat \ {0} /\ c \in ControlClients
      /\ programs[p].at = "accepting" /\ programs[p].with = Nobody
      /\ waiting' = Tail(waiting)
      /\ UNCHANGED <<clients, step_debug, forks, deafened>>
  BY DEF Accept, ControlInv, ControlTypeOK, PlacesInv
<1>2. /\ waiting' \in Seq(ControlClients) /\ Len(waiting') = n - 1
      /\ \A i \in 1..(n - 1) : waiting'[i] = waiting[i + 1]
  BY <1>1
<1> DEFINE g == [programs[p] EXCEPT !.at = "reading", !.with = c]
<1>3. /\ g \in Program /\ g.at = "reading" /\ g.with = c /\ g.with # Nobody
      /\ g.do_connect = programs[p].do_connect /\ g.do_break = programs[p].do_break
      /\ g.statements = programs[p].statements
  <2>1. programs[p] \in Program
    BY Zenon DEF ControlInv, ControlTypeOK
  <2>2. c \in ControlClients /\ c # Nobody
    BY <1>1, Zenon
  <2> HIDE DEF c
  <2> QED BY ONLY <2>1, <2>2 DEF Program, Places
<1>4. programs' = [programs EXCEPT ![p] = g]
  BY <1>1 DEF Accept, Becomes
<1> HIDE DEF g
<1>5. /\ programs'[p] = g /\ \A q \in Programs \ {p} : programs'[q] = programs[q]
      /\ programs' \in [Programs -> Program]
  BY <1>3, <1>4 DEF ControlInv, ControlTypeOK
<1>6. Waits(c) /\ ~IsRead(c)
  <2>1. Waits(c)
    BY <1>1 DEF Waits
  <2> QED
    BY <1>1, <2>1 DEF ControlInv, OnePlaceInv
<1> HIDE DEF c
<1>7. \A b \in ControlClients : (Waits(b)' <=> Waits(b) /\ b # c) /\ (IsRead(b)' <=> IsRead(b) \/ b = c)
  <2>1. TAKE b \in ControlClients
  <2>2. ASSUME Waits(b)' PROVE Waits(b) /\ b # c
    <3>1. PICK i \in 1..(n - 1) : waiting'[i] = b
      BY <1>1, <1>2, <2>2 DEF Waits
    <3>2. i + 1 \in 1..n /\ 1 \in 1..n /\ waiting[i + 1] = b /\ i + 1 # 1
      BY <1>1, <1>2, <3>1
    <3>3. b # waiting[1]
      BY <3>2 DEF ControlInv, OnePlaceInv
    <3> QED
      BY <3>2, <3>3 DEF Waits, c
  <2>3. ASSUME Waits(b), b # c PROVE Waits(b)'
    <3>1. PICK i \in 1..n : waiting[i] = b
      BY <2>3 DEF Waits
    <3>2. i # 1
      BY <2>3, <3>1 DEF c
    <3>3. i - 1 \in 1..(n - 1) /\ waiting'[i - 1] = b
      BY <1>1, <1>2, <3>1, <3>2
    <3> QED
      BY <1>2, <3>3 DEF Waits
  <2>4. IsRead(b)' <=> IsRead(b) \/ b = c
    BY <1>1, <1>3, <1>5 DEF IsRead
  <2> QED
    BY <2>2, <2>3, <2>4
<1>8. \A i, j \in 1..Len(waiting') : waiting'[i] = waiting'[j] => i = j
  <2>1. \A i, j \in 1..n : waiting[i] = waiting[j] => i = j
    BY DEF ControlInv, OnePlaceInv
  <2>2. ASSUME NEW i \in 1..(n - 1), NEW j \in 1..(n - 1), waiting'[i] = waiting'[j]
        PROVE  i = j
    <3>1. i + 1 \in 1..n /\ j + 1 \in 1..n /\ waiting[i + 1] = waiting[j + 1]
      BY <1>1, <1>2, <2>2
    <3>2. i + 1 = j + 1
      BY <2>1, <3>1
    <3> QED
      BY <3>2
  <2> QED
    BY <1>2, <2>2
<1>9. OnePlaceInv'
  <2>1. ASSUME NEW q \in Programs, NEW r \in Programs, q # r, programs'[q].with = programs'[r].with
        PROVE  programs'[q].with = Nobody
    BY <1>3, <1>5, <1>6, <2>1 DEF IsRead, ControlInv, OnePlaceInv
  <2>2. ASSUME NEW b \in ControlClients
        PROVE  /\ ~(Waits(b)' /\ IsRead(b)')
               /\ Waits(b)' \/ IsRead(b)' => clients'[b].is # "away" /\ clients'[b].answer = "none"
               /\ clients'[b].is = "here" /\ clients'[b].answer = "none" => Waits(b)' \/ IsRead(b)'
    BY <1>1, <1>6, <1>7 DEF ControlInv, OnePlaceInv
  <2> QED
    BY <1>8, <2>1, <2>2 DEF OnePlaceInv
<1>10. ControlTypeOK' /\ PlacesInv' /\ HeardInv'
  BY <1>1, <1>2, <1>3, <1>5 DEF ControlInv, ControlTypeOK, PlacesInv, HeardInv
<1>11. AloneInv'
  BY <1>1, <1>3, <1>5 DEF ControlInv, AloneInv, Programs
<1> QED
  BY <1>9, <1>10, <1>11 DEF ControlInv

\* The client is answered, closed and in no place any more; a pause sets a flag
\* of this process, and enables its statement handler where it has none.
LEMMA ReadKeeps ==
  ASSUME ControlInv, NEW p \in Programs, ReadCommand(p)
  PROVE  ControlInv'
<1> USE ControlSocketAssumption
<1> DEFINE c == programs[p].with
           g == [programs[p] EXCEPT !.at = "runs", !.with = Nobody]
           pauses == clients[c].sent = "pause"
           k == IF pauses THEN Paused(g) ELSE g
<1>1. /\ programs[p] \in Program /\ programs[p].at = "reading"
      /\ c \in ControlClients /\ c # Nobody
      /\ clients[c] \in Client /\ programs' = [programs EXCEPT ![p] = k]
      /\ UNCHANGED <<waiting, step_debug, forks>>
      /\ deafened' = IF pauses /\ ~g.active THEN deafened \ {p} ELSE deafened
  <2>1. programs[p] \in Program /\ programs[p].at = "reading" /\ c # Nobody
    BY DEF ReadCommand, ControlInv, ControlTypeOK, PlacesInv
  <2>2. c \in ControlClients /\ clients[c] \in Client
    BY <2>1 DEF ControlInv, ControlTypeOK, Program
  <2> QED
    BY <2>1, <2>2 DEF ReadCommand, Becomes
<1>2. /\ g \in Program /\ g.at = "runs" /\ g.with = Nobody
      /\ g.do_connect = programs[p].do_connect /\ g.do_break = programs[p].do_break
      /\ g.statements = programs[p].statements
  BY <1>1 DEF Program, Places
<1>3. /\ k \in Program /\ k.at = "runs" /\ k.with = Nobody
      /\ ~step_debug => k.do_connect = g.do_connect /\ k.do_break = g.do_break
      /\ k.do_connect /\ ~k.statements => g.do_connect /\ ~g.statements /\ ~(pauses /\ ~g.active /\ step_debug)
      /\ ~k.do_connect \/ k.statements \/ step_debug \/ k = g
  <2> HIDE DEF g
  <2> QED
    BY <1>2 DEF Paused, Program
<1>4. /\ \E answer \in Answers \ {"none"} :
           clients' = [clients EXCEPT ![c] = [is |-> "gone", sent |-> clients[c].sent, answer |-> answer]]
  BY DEF ReadCommand, Answers
<1>5. /\ clients'[c].is = "gone" /\ clients'[c].answer # "none"
      /\ \A b \in ControlClients \ {c} : clients'[b] = clients[b]
      /\ clients' \in [ControlClients -> Client]
  BY <1>1, <1>4 DEF ControlInv, ControlTypeOK, Client
<1>6. ~step_debug => ~programs[p].do_connect /\ ~programs[p].do_break
  BY DEF ControlInv, PlacesInv
<1> HIDE DEF k, g
<1>7. /\ programs'[p] = k /\ \A q \in Programs \ {p} : programs'[q] = programs[q]
      /\ programs' \in [Programs -> Program]
  BY <1>1, <1>3 DEF ControlInv, ControlTypeOK
<1>8. IsRead(c) /\ ~Waits(c)
  <2>1. IsRead(c)
    BY <1>1 DEF IsRead
  <2> QED
    BY <1>1, <2>1 DEF ControlInv, OnePlaceInv
<1>9. \A b \in ControlClients : (Waits(b)' <=> Waits(b)) /\ (IsRead(b)' <=> IsRead(b) /\ b # c)
  <2>1. TAKE b \in ControlClients
  <2>2. Waits(b)' <=> Waits(b)
    BY <1>1 DEF Waits
  <2>3. IsRead(b)' => IsRead(b) /\ b # c
    BY <1>1, <1>3, <1>7 DEF IsRead, ControlInv, OnePlaceInv
  <2>4. IsRead(b) /\ b # c => IsRead(b)'
    BY <1>7 DEF IsRead
  <2> QED
    BY <2>2, <2>3, <2>4
<1>10. OnePlaceInv'
  <2>1. \A q, r \in Programs : programs'[q].with = programs'[r].with /\ q # r => programs'[q].with = Nobody
    BY <1>3, <1>7 DEF ControlInv, OnePlaceInv
  <2>2. \A i, j \in 1..Len(waiting') : waiting'[i] = waiting'[j] => i = j
    BY <1>1 DEF ControlInv, OnePlaceInv
  <2>3. ASSUME NEW b \in ControlClients
        PROVE  /\ ~(Waits(b)' /\ IsRead(b)')
               /\ Waits(b)' \/ IsRead(b)' => clients'[b].is # "away" /\ clients'[b].answer = "none"
               /\ clients'[b].is = "here" /\ clients'[b].answer = "none" => Waits(b)' \/ IsRead(b)'
    BY <1>5, <1>8, <1>9, <2>3 DEF ControlInv, OnePlaceInv
  <2> QED
    BY <2>1, <2>2, <2>3 DEF OnePlaceInv
<1>11. ControlTypeOK'
  BY <1>1, <1>5, <1>7 DEF ControlInv, ControlTypeOK
<1>12. PlacesInv'
  BY <1>1, <1>2, <1>3, <1>6, <1>7 DEF ControlInv, PlacesInv
<1>13. HeardInv'
  BY <1>1, <1>2, <1>3, <1>6, <1>7 DEF ControlInv, HeardInv
<1>14. AloneInv'
  BY <1>1, <1>3, <1>7 DEF ControlInv, AloneInv, Programs
<1> QED
  BY <1>10, <1>11, <1>12, <1>13, <1>14 DEF ControlInv
-----------------------------------------------------------------------------
\* The invariant says what the property asks.
LEMMA InvAnswers == ControlInv => ControlIsAnswered
<1> SUFFICES ASSUME ControlInv PROVE ControlIsAnswered
  OBVIOUS
<1> USE ControlSocketAssumption
<1>1. \A p \in Programs : programs[p].at = "accepting" /\ waiting = <<>> => forks > 0
  BY DEF ControlInv, ControlTypeOK, AloneInv, PlacesInv, Programs
<1>2. ASSUME NEW c \in ControlClients
      PROVE  LET readers == {p \in Programs : programs[p].with = c}
             IN  /\ Cardinality(readers) <= 1
                 /\ c \in ToSet(waiting) => readers = {}
                 /\ clients[c].is = "here" /\ clients[c].answer = "none" =>
                      c \in ToSet(waiting) \/ readers # {}
                 /\ c \in ToSet(waiting) \/ readers # {} => clients[c].answer = "none"
  <2> DEFINE readers == {p \in Programs : programs[p].with = c}
  <2>1. c \in ToSet(waiting) <=> Waits(c)
    BY DEF ToSet, Waits, ControlInv, ControlTypeOK
  <2>2. readers # {} <=> IsRead(c)
    BY DEF IsRead
  <2>3. \A p, q \in readers : p = q
    BY DEF ControlInv, OnePlaceInv
  <2>4. Cardinality(readers) <= 1
    <3>1. readers = {} \/ \E p \in readers : readers = {p}
      BY <2>3
    <3> HIDE DEF readers
    <3>2. CASE readers = {}
      <4>1. Cardinality({}) = 0
        BY FS_EmptySet, Zenon
      <4> QED
        BY <3>2, <4>1
    <3>3. ASSUME NEW p \in readers, readers = {p} PROVE Cardinality(readers) <= 1
      <4>1. Cardinality({p}) = 1
        BY FS_Singleton, Zenon
      <4> QED
        BY <3>3, <4>1
    <3> QED
      BY <3>1, <3>2, <3>3
  <2> QED
    BY <2>1, <2>2, <2>4 DEF ControlInv, OnePlaceInv
<1>3. ~step_debug => \A p \in Programs : ~programs[p].do_connect /\ ~programs[p].do_break
  BY DEF ControlInv, PlacesInv
<1> QED
  BY <1>1, <1>2, <1>3 DEF ControlIsAnswered, ControlInv, HeardInv

\* Whoever connects to the control socket, however many wait and whenever the
\* program forks: a client is in one place until it has its one answer, a pause
\* is heard unless connecting upon an error failed since, and no flag is set
\* without mode debug.
THEOREM ControlAnswers == ControlSpec => []ControlIsAnswered
<1>1. ControlInv /\ [ControlNext]_controlVars => ControlInv'
  <2> SUFFICES ASSUME ControlInv, [ControlNext]_controlVars PROVE ControlInv'
    OBVIOUS
  <2>1. CASE ControlSetup
    BY <2>1, SetupKeeps
  <2>2. CASE ControlFork
    BY <2>2, ForkKeeps
  <2>3. ASSUME NEW p \in Programs,
               \/ ControlTeardown(p) \/ TimePasses(p) \/ Dispatch(p) \/ Accept(p) \/ ReadCommand(p)
               \/ Statement(p) \/ StartUponError(p) \/ ConnectionLost(p)
        PROVE  ControlInv'
    BY <2>3, TeardownKeeps, FlagsMoveKeep, AcceptKeeps, ReadKeeps
  <2>4. ASSUME NEW c \in ControlClients, ControlConnect(c) \/ ControlSend(c) \/ ControlLeave(c)
        PROVE  ControlInv'
    BY <2>4, ConnectKeeps, ClientsKeep
  <2>5. CASE UNCHANGED controlVars
    BY <2>5 DEF controlVars, ControlInv, ControlTypeOK, PlacesInv, HeardInv, AloneInv, OnePlaceInv, Waits, IsRead
  <2> QED
    <3>1. CASE ControlNext
      BY <3>1, <2>1, <2>2, <2>3, <2>4, Zenon DEF ControlNext
    <3> QED
      BY <2>5, <3>1
<1> QED
  BY <1>1, ControlStarts, InvAnswers, PTL DEF ControlSpec
-----------------------------------------------------------------------------
(* The modes, and what starts with a request.                                 *)

\* The names of modes differ.
LEMMA NamesOfModes ==
  /\ ToSet(ModeNames) = {"off", "develop", "coverage", "debug", "gcstats", "profile", "trace"}
  /\ Len(ModeNames) = 7
  /\ \A i, j \in 1..7 : ModeNames[i] = ModeNames[j] => i = j
  /\ \A m \in ToSet(ModeNames) : \E i \in 1..7 : ModeNames[i] = m
<1>1. Len(ModeNames) = 7 /\ DOMAIN ModeNames = 1..7
  BY DEF ModeNames
<1>2. \A i, j \in 1..7 : ModeNames[i] = ModeNames[j] => i = j
  BY DEF ModeNames
<1>3. ToSet(ModeNames) = {ModeNames[1], ModeNames[2], ModeNames[3], ModeNames[4], ModeNames[5],
                           ModeNames[6], ModeNames[7]}
  <2>1. ToSet(ModeNames) = {ModeNames[i] : i \in 1..7}
    BY <1>1 DEF ToSet
  <2> QED BY <2>1
<1>4. ToSet(ModeNames) = {"off", "develop", "coverage", "debug", "gcstats", "profile", "trace"}
  BY <1>3 DEF ModeNames
<1>5. \A m \in ToSet(ModeNames) : \E i \in 1..7 : ModeNames[i] = m
  BY <1>1, Zenon DEF ToSet
<1> QED BY <1>1, <1>2, <1>4, <1>5

\* A whole word turns on the mode of its name, another word none.
LEMMA ModeOfWord ==
  ASSUME NEW item, item.whole
  PROVE  ModeOf(item) = IF item.word \in ToSet(ModeNames) THEN {item.word} ELSE {}
<1> DEFINE fitting == {i \in 1..Len(ModeNames) : BeginsName(item, ModeNames[i])}
<1>1. fitting = {i \in 1..7 : ModeNames[i] = item.word}
  BY NamesOfModes DEF BeginsName
<1>2. CASE item.word \in ToSet(ModeNames)
  <2>1. PICK i \in 1..7 : ModeNames[i] = item.word
    BY <1>2, NamesOfModes, Zenon
  <2>2. fitting = {i}
    BY <1>1, <2>1, NamesOfModes
  <2>3. (CHOOSE k \in fitting : \A j \in fitting : k <= j) = i
    BY <2>2
  <2> QED BY <1>2, <2>1, <2>2, <2>3 DEF ModeOf
<1>3. CASE item.word \notin ToSet(ModeNames)
  <2>1. ToSet(ModeNames) = {ModeNames[i] : i \in 1..7}
    BY NamesOfModes DEF ToSet, ModeNames
  <2>2. fitting = {}
    BY <1>1, <1>3, <2>1
  <2> QED BY <1>3, <2>2 DEF ModeOf
<1> QED BY <1>2, <1>3

\* ModeItems that name modes turn on these, and items with an unknown word none.
LEMMA ModesOfWords ==
  ASSUME NEW items \in Seq(ModeItems)
  PROVE  /\ NamesModes(items) => ModesOf(items) = NamedModes(items) /\ ModesOf(items) # {}
         /\ HasUnknownWord(items) \/ items = <<>> => ModesOf(items) = {}
<1>1. ASSUME NamesModes(items)
      PROVE  ModesOf(items) = NamedModes(items) /\ ModesOf(items) # {}
  <2>1. \A i \in 1..Len(items) : items[i].whole /\ items[i].word \in ToSet(ModeNames)
    BY <1>1 DEF NamesModes, Whole, ModeItem
  <2>2. \A i \in 1..Len(items) : ModeOf(items[i]) = {items[i].word}
    BY <2>1, ModeOfWord
  <2>3. ModesOf(items) = UNION {ModeOf(items[i]) : i \in 1..Len(items)}
    BY <2>2 DEF ModesOf
  <2>4. ModesOf(items) = UNION {{items[i].word} : i \in 1..Len(items)}
    <3>1. {ModeOf(items[i]) : i \in 1..Len(items)} = {{items[i].word} : i \in 1..Len(items)}
      BY <2>2
    <3> QED BY <2>3, <3>1
  <2>5. ModesOf(items) = NamedModes(items)
    BY <2>4 DEF NamedModes
  <2>6. Len(items) >= 1
    BY <1>1 DEF NamesModes
  <2> QED BY <2>5, <2>6 DEF NamedModes
<1>2. ASSUME HasUnknownWord(items)
      PROVE  ModesOf(items) = {}
  <2>1. PICK i \in 1..Len(items) : items[i].whole /\ items[i].word \notin ToSet(ModeNames)
    BY <1>2 DEF HasUnknownWord
  <2>2. ModeOf(items[i]) = {}
    BY <2>1, ModeOfWord
  <2> QED BY <2>1, <2>2 DEF ModesOf
<1>3. ASSUME items = <<>>
      PROVE  ModesOf(items) = {}
  BY <1>3 DEF ModesOf
<1> QED BY <1>1, <1>2, <1>3, Zenon

\* The modes of a process, as its settings name them.
LEMMA ModesNamed ==
  ASSUME NEW s \in Situations, modes = Modes(s.env_mode, s.mode)
  PROVE  ModesAsNamed(s)
<1>1. s.mode \in Seq(ModeItems) /\ s.env_mode \in Seq(ModeItems)
  BY SituationsAssumption
<1>2. ASSUME NamesModes(s.env_mode)
      PROVE  modes = NamedModes(s.env_mode)
  BY <1>1, <1>2, ModesOfWords, Zenon DEF Modes
<1>3. ASSUME NamesModes(s.mode), s.env_mode = <<>> \/ HasUnknownWord(s.env_mode)
      PROVE  modes = NamedModes(s.mode)
  <2>1. ModesOf(s.env_mode) = {}
    BY <1>1, <1>3, ModesOfWords
  <2> QED BY <1>1, <1>3, <2>1, ModesOfWords, Zenon DEF Modes
<1> QED BY <1>2, <1>3, Zenon DEF ModesAsNamed

\* The places differ too.
LEMMA FourPlaces ==
  /\ Len(GlobalPlaces) = 4
  /\ \A i, j \in 1..4 : GlobalPlaces[i] = GlobalPlaces[j] => i = j
  /\ \A p \in ToSet(GlobalPlaces) : \E i \in 1..4 : GlobalPlaces[i] = p
<1>1. Len(GlobalPlaces) = 4 /\ DOMAIN GlobalPlaces = 1..4
  BY DEF GlobalPlaces
<1>2. \A i, j \in 1..4 : GlobalPlaces[i] = GlobalPlaces[j] => i = j
  BY DEF GlobalPlaces
<1> QED BY <1>1, <1>2, Zenon DEF ToSet

\* A name is found in the first place that has it.
LEMMA FoundForemost ==
  ASSUME NEW s \in Situations, NEW name
  PROVE  /\ FindInGlobals(s, name) = NotFound <=> Foremost(s, name) = {}
         /\ FindInGlobals(s, name) # NotFound =>
              \E v \in s.globals : Foremost(s, name) = {v} /\ FindInGlobals(s, name) = <<v.value>>
<1> DEFINE there == {i \in 1..Len(GlobalPlaces) : \E v \in s.globals : v.place = GlobalPlaces[i] /\ v.name = name}
           first == CHOOSE i \in there : \A j \in there : i <= j
           found == CHOOSE v \in s.globals : v.place = GlobalPlaces[first] /\ v.name = name
<1>1. FindInGlobals(s, name) = IF there = {} THEN NotFound ELSE <<found.value>>
  BY DEF FindInGlobals
<1>2. \A v \in s.globals : v.place \in ToSet(GlobalPlaces)
  BY SituationsAssumption
<1>3. \A v, w \in s.globals : v.place = w.place /\ v.name = w.name => v = w
  BY SituationsAssumption
<1>4. there \subseteq 1..4
  BY FourPlaces
<1>5. ASSUME NEW v \in s.globals, v.name = name
      PROVE  \E i \in there : v.place = GlobalPlaces[i]
  BY <1>2, <1>5, FourPlaces
<1>6. ASSUME there = {}
      PROVE  Foremost(s, name) = {}
  BY <1>5, <1>6 DEF Foremost
<1>7. ASSUME there # {}
      PROVE  found \in s.globals /\ Foremost(s, name) = {found}
  <2>1. first \in there /\ \A j \in there : first <= j
    <3>1. \E i \in there : \A j \in there : i <= j
      BY <1>4, <1>7
    <3> HIDE DEF there
    <3> QED BY <3>1, Zenon
  <2>2. found \in s.globals /\ found.place = GlobalPlaces[first] /\ found.name = name
    <3>1. \E v \in s.globals : v.place = GlobalPlaces[first] /\ v.name = name
      BY <2>1
    <3> HIDE DEF first
    <3> QED BY <3>1, Zenon
  <2> HIDE DEF found, first
  <2>3. found \in Foremost(s, name)
    <3>1. ASSUME NEW w \in s.globals, w.name = name
          PROVE  \E i, j \in 1..4 : i <= j /\ found.place = GlobalPlaces[i] /\ w.place = GlobalPlaces[j]
      <4>1. PICK j \in there : w.place = GlobalPlaces[j]
        BY <1>5, <3>1
      <4> QED BY <1>4, <2>1, <2>2, <4>1
    <3> QED BY <2>2, <3>1, Zenon DEF Foremost
  <2>4. ASSUME NEW v \in Foremost(s, name)
        PROVE  v = found
    <3>1. v \in s.globals /\ v.name = name
      BY DEF Foremost
    <3>2. PICK i \in 1..4, j \in 1..4 : i <= j /\ v.place = GlobalPlaces[i] /\ found.place = GlobalPlaces[j]
      BY <2>2 DEF Foremost
    <3>3. j = first
      <4>1. first \in 1..4 /\ GlobalPlaces[j] = GlobalPlaces[first]
        BY <1>4, <2>1, <2>2, <3>2
      <4> QED BY <4>1, FourPlaces, Zenon
    <3>4. PICK k \in there : v.place = GlobalPlaces[k]
      BY <1>5, <3>1
    <3>5. k = i
      <4>1. k \in 1..4 /\ GlobalPlaces[k] = GlobalPlaces[i]
        BY <1>4, <3>2, <3>4
      <4> QED BY <4>1, FourPlaces, Zenon
    <3>6. i = first
      <4>1. first <= i /\ i <= j /\ first \in 1..4
        BY <1>4, <2>1, <3>2, <3>4, <3>5
      <4> QED BY ONLY <3>3, <4>1, i \in 1..4, j \in 1..4
    <3>7. v.place = found.place
      BY <2>2, <3>2, <3>6
    <3> QED BY <1>3, <2>2, <3>1, <3>7
  <2> QED BY <2>2, <2>3, <2>4
<1>8. ASSUME NEW x
      PROVE  <<x>> # NotFound
  BY DEF NotFound
<1> HIDE DEF there, found
<1> QED BY <1>1, <1>6, <1>7, <1>8
\* A trigger counts as documented.
LEMMA TriggersCount ==
  ASSUME NEW s \in Situations, NEW mode
  PROVE  (TriggerEnabled(s, mode) <=> Triggered(s, mode)) /\ (ShouldIgnore(s) <=> Ignored(s))
<1>1. ASSUME NEW name
      PROVE  Accepted(s, name) <=>
               /\ FindInGlobals(s, name) # NotFound
               /\ s.trigger_value # <<>> => FindInGlobals(s, name)[1] \in ToSet(s.trigger_value)
  <2>1. CASE FindInGlobals(s, name) = NotFound
    BY <2>1, FoundForemost DEF Accepted
  <2>2. CASE FindInGlobals(s, name) # NotFound
    <3>1. PICK v \in s.globals : Foremost(s, name) = {v} /\ FindInGlobals(s, name) = <<v.value>>
      BY <2>2, FoundForemost, Zenon
    <3>2. FindInGlobals(s, name)[1] = v.value
      BY <3>1
    <3> QED BY <2>2, <3>1, <3>2 DEF Accepted
  <2> QED BY <2>1, <2>2, Zenon
<1>2. TriggerEnabled(s, mode) <=> Triggered(s, mode)
  <2>1. CASE FindInGlobals(s, "XDEBUG_TRIGGER") = NotFound
    <3>1. Foremost(s, "XDEBUG_TRIGGER") = {}
      BY <2>1, FoundForemost, Zenon
    <3> QED BY <1>1, <2>1, <3>1, Zenon DEF TriggerEnabled, Triggered, HasSharedSecret
  <2>2. CASE FindInGlobals(s, "XDEBUG_TRIGGER") # NotFound
    <3>1. Foremost(s, "XDEBUG_TRIGGER") # {}
      BY <2>2, FoundForemost, Zenon
    <3> QED BY <1>1, <2>2, <3>1, Zenon DEF TriggerEnabled, Triggered, HasSharedSecret
  <2> QED BY <2>1, <2>2, Zenon
<1>3. ShouldIgnore(s) <=> Ignored(s)
  <2>1. CASE FindInGlobals(s, "XDEBUG_IGNORE") = NotFound
    BY <2>1, FoundForemost DEF ShouldIgnore, Ignored
  <2>2. CASE FindInGlobals(s, "XDEBUG_IGNORE") # NotFound
    <3>1. PICK v \in s.globals : /\ Foremost(s, "XDEBUG_IGNORE") = {v}
                                 /\ FindInGlobals(s, "XDEBUG_IGNORE") = <<v.value>>
      BY <2>2, FoundForemost, Zenon
    <3>2. FindInGlobals(s, "XDEBUG_IGNORE")[1] = v.value
      BY <3>1
    <3> QED BY <2>2, <3>1, <3>2 DEF ShouldIgnore, Ignored
  <2> QED BY <2>1, <2>2, Zenon
<1> QED BY <1>2, <1>3

\* What starts is what the documentation says.
LEMMA StartedAsDocumented ==
  ASSUME NEW s \in Situations,
         starting = {mode \in {"debug", "trace", "profile", "gcstats"} : Starts(s, mode)}
  PROVE  StartsAsDocumented(s)
<1> SUFFICES ASSUME NEW mode \in {"debug", "trace", "profile", "gcstats"}
             PROVE  LET setting == Effective(s, mode)   starts == mode \in starting IN
    /\ starts => mode \in modes /\ setting # "no" /\ ~(mode = "debug" /\ Ignored(s))
    /\ starts /\ setting = "trigger" =>
         mode # "gcstats" /\ (Triggered(s, mode) \/ (mode = "debug" /\ SessionAsked(s)))
    /\ (mode \in modes /\ ~(mode = "debug" /\ Ignored(s))) =>
         /\ setting = "yes" => starts
         /\ setting = "trigger" /\ mode # "gcstats" /\ Triggered(s, mode) => starts
         /\ setting = "trigger" /\ mode = "debug" /\ SessionAsked(s)
              /\ ~s.headers_sent /\ s.ide_key # "" => starts
  BY Zenon DEF StartsAsDocumented
<1>1. mode \in starting <=> Starts(s, mode)
  BY DEF Starts
<1>2. s.start_with_request \in {"yes", "no", "trigger", "default"}
  BY SituationsAssumption
<1>3. TriggerEnabled(s, mode) <=> Triggered(s, mode)
  BY TriggersCount
<1>4. ShouldIgnore(s) <=> Ignored(s)
  BY TriggersCount
<1>5. HandleStartSession(s) => SessionAsked(s)
  BY DEF HandleStartSession, SessionAsked, HasSharedSecret, Present
<1>6. SessionAsked(s) /\ ~s.headers_sent /\ s.ide_key # "" => HandleStartSession(s)
  BY DEF HandleStartSession, SessionAsked, HasSharedSecret, Present
<1>7. CASE mode = "debug"
  BY <1>1, <1>2, <1>3, <1>4, <1>5, <1>6, <1>7 DEF Starts, StartWithRequest, StartWithTrigger, ModeIsTrigger, Effective
<1>8. CASE mode \in {"profile", "trace"}
  BY <1>1, <1>2, <1>3, <1>8 DEF Starts, StartWithRequest, StartWithTrigger, ModeIsTrigger, Effective
<1>9. CASE mode = "gcstats"
  BY <1>1, <1>2, <1>9 DEF Starts, StartWithRequest, Effective
<1> QED BY <1>7, <1>8, <1>9

\* The modes are those of the settings, and what starts is what they start.
StartInv ==
  /\ situation \in Situations /\ phase \in {"module", "request", "script"}
  /\ phase # "module" => modes = Modes(situation.env_mode, situation.mode)
  /\ phase = "script" =>
       starting = {mode \in {"debug", "trace", "profile", "gcstats"} : Starts(situation, mode)}

\* What is on, and what starts with a request, is what the settings say.
THEOREM PartsStartAsDocumented == StartSpec => []StartsAreDecided
<1>1. StartInit => StartInv
  BY DEF StartInit, StartInv
<1>2. StartInv /\ [StartNext]_startVars => StartInv'
  <2> SUFFICES ASSUME StartInv, [StartNext]_startVars
               PROVE  StartInv'
    OBVIOUS
  <2>1. CASE ModuleStarts
    BY <2>1 DEF ModuleStarts, StartInv
  <2>2. CASE RequestStarts
    <3>1. \A mode : Starts(situation, mode)' <=> Starts(situation, mode)
      BY <2>2 DEF RequestStarts, Starts, StartWithTrigger, ModeIsTrigger
    <3>2. (starting = {mode \in {"debug", "trace", "profile", "gcstats"} : Starts(situation, mode)})'
      BY <2>2, <3>1 DEF RequestStarts
    <3> QED BY <2>2, <3>2 DEF RequestStarts, StartInv
  <2>3. CASE UNCHANGED startVars
    <3>1. \A mode : Starts(situation, mode)' <=> Starts(situation, mode)
      BY <2>3 DEF startVars, Starts, StartWithTrigger, ModeIsTrigger
    <3> QED BY <2>3, <3>1 DEF startVars, StartInv
  <2> QED BY <2>1, <2>2, <2>3, Zenon DEF StartNext
<1>3. StartInv => StartsAreDecided
  BY ModesNamed, StartedAsDocumented DEF StartInv, StartsAreDecided
<1> QED BY <1>1, <1>2, <1>3, PTL DEF StartSpec
-----------------------------------------------------------------------------
(* Path maps. *)

\* Spans that follow each other.
Increasing(spans) ==
  /\ \A i \in 1..Len(spans) : spans[i][1] \in Int /\ spans[i][2] \in Int /\ spans[i][1] <= spans[i][2]
  /\ \A i, j \in 1..Len(spans) : i < j => spans[i][2] < spans[j][1]

\* What is left between low and high, and that a span with the line is there.
Bounds == [low : Int, high : Int]
Between(spans, line, b) ==
  /\ b \in Bounds /\ 1 <= b.low /\ b.high <= Len(spans)
  /\ \A i \in 1..Len(spans) : line \in spans[i][1]..spans[i][2] => b.low <= i /\ i <= b.high
Halved(spans, line, b, turns) ==
  \/ b.low > b.high \/ b.high - b.low + 1 <= Len(spans) - turns
  \/ b.low <= b.high /\ line \in spans[Middle(b)][1]..spans[Middle(b)][2]

LEMMA MiddleBetween ==
  ASSUME NEW b \in Bounds
  PROVE  Middle(b) \in Int /\ (b.low <= b.high => b.low <= Middle(b) /\ Middle(b) <= b.high)
BY DEF Middle, Bounds

LEMMA BoundsAre ==
  ASSUME NEW x \in Int, NEW y \in Int
  PROVE  /\ [low |-> x, high |-> y] \in Bounds
         /\ [low |-> x, high |-> y].low = x /\ [low |-> x, high |-> y].high = y
BY DEF Bounds

\* A turn of the loop keeps the span with the line, and leaves less.
LEMMA HalveKeeps ==
  ASSUME NEW spans, Len(spans) \in Nat, Increasing(spans), NEW line \in Int, NEW b, Between(spans, line, b),
         NEW k \in Nat, Halved(spans, line, b, k)
  PROVE  Between(spans, line, Halve(spans, line, b)) /\ Halved(spans, line, Halve(spans, line, b), k + 1)
<1> DEFINE m == Middle(b)
<1>1. b \in Bounds /\ b.low \in Int /\ b.high \in Int
  BY DEF Between, Bounds
<1>2. m \in Int /\ (b.low <= b.high => b.low <= m /\ m <= b.high)
  BY <1>1, MiddleBetween
<1>3. CASE b.low > b.high
  <2>1. Halve(spans, line, b) = b
    BY <1>3 DEF Halve
  <2> QED BY <1>1, <1>3, <2>1 DEF Halved
<1> HIDE DEF m
<1>4. CASE b.low <= b.high /\ line \in spans[m][1]..spans[m][2]
  <2>1. Halve(spans, line, b) = b
    BY <1>4 DEF Halve, m
  <2> QED BY <1>4, <2>1 DEF Halved, m
<1>5. CASE b.low <= b.high /\ line \notin spans[m][1]..spans[m][2]
  <2>1. m \in 1..Len(spans) /\ spans[m][1] \in Int /\ spans[m][2] \in Int
    BY <1>1, <1>2, <1>5 DEF Between, Increasing
  <2>2. b.high - b.low + 1 <= Len(spans) - k
    BY <1>1, <1>5 DEF Halved, m
  <2>3. CASE line < spans[m][1]
    <3>1. ~(b.low > b.high)
      BY <1>1, <1>5
    <3>2. Halve(spans, line, b) = [b EXCEPT !.high = m - 1]
      BY <1>5, <2>3, <3>1 DEF Halve, m
    <3>3. [b EXCEPT !.high = m - 1] = [low |-> b.low, high |-> m - 1]
      BY <1>1 DEF Bounds
    <3> DEFINE c == [low |-> b.low, high |-> m - 1]
    <3>4. c \in Bounds /\ c.low = b.low /\ c.high = m - 1
      <4>1. m - 1 \in Int
        BY ONLY <1>2
      <4> QED BY <1>1, <4>1, BoundsAre, Zenon
    <3>5. \A i \in 1..Len(spans) : line \in spans[i][1]..spans[i][2] => i < m
      <4> SUFFICES ASSUME NEW i \in 1..Len(spans), line \in spans[i][1]..spans[i][2], ~(i < m)
                   PROVE  FALSE
        OBVIOUS
      <4>1. /\ spans[i][1] \in Int /\ spans[i][2] \in Int /\ spans[m][1] <= spans[m][2]
            /\ m < i => spans[m][2] < spans[i][1]
        BY <2>1, Zenon DEF Increasing
      <4>2. spans[i][1] <= line /\ line <= spans[i][2]
        BY <4>1
      <4>3. i = m \/ m < i
        BY <2>1
      <4> QED BY ONLY line \in Int, <2>1, <2>3, <4>1, <4>2, <4>3
    <3> HIDE DEF c
    <3>6. Between(spans, line, c)
      <4>1. 1 <= c.low /\ c.high <= Len(spans)
        BY <1>1, <1>2, <2>1, <3>4 DEF Between
      <4>2. ASSUME NEW i \in 1..Len(spans), line \in spans[i][1]..spans[i][2]
            PROVE  c.low <= i /\ i <= c.high
        <5>1. b.low <= i /\ i <= b.high
          BY <4>2, Zenon DEF Between
        <5> QED BY ONLY <1>1, <1>2, <2>1, <3>4, <3>5, <4>2, <5>1
      <4> QED BY <3>4, <4>1, <4>2, Zenon DEF Between
    <3>7. c.high - c.low + 1 <= Len(spans) - (k + 1)
      <4>1. b.low <= m /\ m <= b.high
        BY <1>2, <1>5, Zenon
      <4> QED BY ONLY <1>1, <1>2, <2>2, <3>4, <4>1, k \in Nat, Len(spans) \in Nat
    <3> QED BY <3>2, <3>3, <3>6, <3>7 DEF Halved, c
  <2>4. CASE line > spans[m][2]
    <3>1. ~(b.low > b.high) /\ ~(line < spans[m][1])
      BY <1>1, <1>5, <2>1, <2>4 DEF Increasing
    <3>2. Halve(spans, line, b) = [b EXCEPT !.low = m + 1]
      BY <1>5, <3>1 DEF Halve, m
    <3>3. [b EXCEPT !.low = m + 1] = [low |-> m + 1, high |-> b.high]
      BY <1>1 DEF Bounds
    <3> DEFINE c == [low |-> m + 1, high |-> b.high]
    <3>4. c \in Bounds /\ c.low = m + 1 /\ c.high = b.high
      <4>1. m + 1 \in Int
        BY ONLY <1>2
      <4> QED BY <1>1, <4>1, BoundsAre, Zenon
    <3>5. \A i \in 1..Len(spans) : line \in spans[i][1]..spans[i][2] => m < i
      <4> SUFFICES ASSUME NEW i \in 1..Len(spans), line \in spans[i][1]..spans[i][2], ~(m < i)
                   PROVE  FALSE
        OBVIOUS
      <4>1. /\ spans[i][1] \in Int /\ spans[i][2] \in Int /\ spans[m][1] <= spans[m][2]
            /\ i < m => spans[i][2] < spans[m][1]
        BY <2>1, Zenon DEF Increasing
      <4>2. spans[i][1] <= line /\ line <= spans[i][2]
        BY <4>1
      <4>3. i = m \/ i < m
        BY <2>1
      <4> QED BY ONLY line \in Int, <2>1, <2>4, <4>1, <4>2, <4>3
    <3> HIDE DEF c
    <3>6. Between(spans, line, c)
      <4>1. 1 <= c.low /\ c.high <= Len(spans)
        BY <1>1, <1>2, <1>5, <2>1, <3>4 DEF Between
      <4>2. ASSUME NEW i \in 1..Len(spans), line \in spans[i][1]..spans[i][2]
            PROVE  c.low <= i /\ i <= c.high
        <5>1. b.low <= i /\ i <= b.high
          BY <4>2, Zenon DEF Between
        <5> QED BY ONLY <1>1, <1>2, <2>1, <3>4, <3>5, <4>2, <5>1
      <4> QED BY <3>4, <4>1, <4>2, Zenon DEF Between
    <3>7. c.high - c.low + 1 <= Len(spans) - (k + 1)
      <4>1. b.low <= m /\ m <= b.high
        BY <1>2, <1>5, Zenon
      <4> QED BY ONLY <1>1, <1>2, <2>2, <3>4, <4>1, k \in Nat, Len(spans) \in Nat
    <3> QED BY <3>2, <3>3, <3>6, <3>7 DEF Halved, c
  <2> QED BY <1>5, <2>1, <2>3, <2>4
<1> QED BY <1>1, <1>3, <1>4, <1>5

\* The search finds the span that has a line.
LEMMA SearchFinds ==
  ASSUME NEW spans, Len(spans) \in Nat, Increasing(spans), NEW line \in Int
  PROVE  /\ \A i \in 1..Len(spans) : line \in spans[i][1]..spans[i][2] => Search(spans, line) = i
         /\ (\A i \in 1..Len(spans) : line \notin spans[i][1]..spans[i][2]) => Search(spans, line) = 0
<1> DEFINE N == Len(spans)
           b0 == [low |-> 1, high |-> N]
           F == [k \in 1..N |-> [b \in Bounds |-> Halve(spans, line, b)]]
           turns == CHOOSE f : f = [n \in 0..N |-> IF n = 0 THEN b0 ELSE Halve(spans, line, f[n - 1])]
           last == turns[N]
<1>1. Search(spans, line) = IF last.low > last.high THEN 0 ELSE Middle(last)
  BY Zenon DEF Search
<1>2. \A b \in Bounds : Halve(spans, line, b) \in Bounds
  BY MiddleBetween DEF Halve, Bounds
<1>3. PICK g : g \in Iterations(Bounds, b0, N, F)
  <2>1. b0 \in Bounds /\ F \in Steps(Bounds, N)
    BY <1>2 DEF Steps, Bounds
  <2> HIDE DEF F, b0
  <2> QED BY <2>1, Iterates, Zenon
<1>4. g \in [0..N -> Bounds] /\ g[0] = b0
  BY <1>3, Zenon DEF Iterations
<1>5. \A k \in 1..N : g[k] = Halve(spans, line, g[k - 1])
  <2> SUFFICES ASSUME NEW k \in 1..N
               PROVE  g[k] = Halve(spans, line, g[k - 1])
    BY Zenon
  <2>1. k - 1 \in 0..N
    OBVIOUS
  <2>2. g[k - 1] \in Bounds
    BY <1>4, <2>1, Zenon
  <2>3. g[k] = F[k][g[k - 1]]
    BY <1>3, Zenon DEF Iterations
  <2> QED BY <2>2, <2>3
<1> HIDE DEF F, b0
<1>6. turns = [n \in 0..N |-> IF n = 0 THEN b0 ELSE Halve(spans, line, turns[n - 1])]
  <2>1. g = [n \in 0..N |-> IF n = 0 THEN b0 ELSE Halve(spans, line, g[n - 1])]
    BY <1>4, <1>5
  <2> QED BY <2>1, Zenon
<1> HIDE DEF turns
<1> DEFINE S == {n \in Nat : n <= N => Between(spans, line, turns[n]) /\ Halved(spans, line, turns[n], n)}
<1>7. 0 \in S
  <2>1. turns[0] = b0
    BY <1>6
  <2>2. b0 \in Bounds /\ b0.low = 1 /\ b0.high = N
    BY DEF b0, Bounds
  <2>3. Between(spans, line, b0) /\ Halved(spans, line, b0, 0)
    BY <2>2 DEF Between, Halved
  <2> QED BY <2>1, <2>3
<1>8. ASSUME NEW n \in Nat, n \in S
      PROVE  n + 1 \in S
  <2> SUFFICES ASSUME n + 1 <= N
               PROVE  Between(spans, line, turns[n + 1]) /\ Halved(spans, line, turns[n + 1], n + 1)
    OBVIOUS
  <2>1. Between(spans, line, turns[n]) /\ Halved(spans, line, turns[n], n)
    BY <1>8
  <2>2. turns[n + 1] = Halve(spans, line, turns[n])
    BY <1>6
  <2> QED BY <2>1, <2>2, HalveKeeps, Zenon
<1> HIDE DEF S
<1>9. N \in S
  BY <1>7, <1>8, Induction
<1>10. Between(spans, line, last) /\ Halved(spans, line, last, N)
  BY <1>9 DEF S
<1> HIDE DEF last
<1>11. last.low \in Int /\ last.high \in Int /\ Middle(last) \in Int
  BY <1>10, MiddleBetween DEF Between, Bounds
<1>12. CASE last.low > last.high
  BY <1>1, <1>10, <1>11, <1>12 DEF Between
<1>13. CASE last.low <= last.high
  <2>1. line \in spans[Middle(last)][1]..spans[Middle(last)][2]
    BY <1>10, <1>11, <1>13 DEF Halved
  <2>2. Middle(last) \in 1..N
    BY <1>10, <1>11, <1>13, MiddleBetween DEF Between
  <2>3. \A i \in 1..N : line \in spans[i][1]..spans[i][2] => i = Middle(last)
    <3> SUFFICES ASSUME NEW i \in 1..N, line \in spans[i][1]..spans[i][2], i # Middle(last)
                 PROVE  FALSE
      OBVIOUS
    <3>1. i < Middle(last) \/ Middle(last) < i
      BY <1>11
    <3> QED BY <2>1, <2>2, <3>1 DEF Increasing
  <2>4. Search(spans, line) = Middle(last)
    BY <1>1, <1>11, <1>13
  <2> QED BY <2>1, <2>2, <2>3, <2>4
<1> QED BY <1>11, <1>12, <1>13

\* The ranges and the mappings that the parser makes.
MapRange == [remote_begin : Int, remote_end : Int, skip : BOOLEAN,
             local_path : Path, local_begin : Int, local_end : Int]
Mapping == [type : {"directory", "file", "lines"}, skip : BOOLEAN, remote_path : Path,
            local_path : Path, line_ranges : Seq(MapRange)]

RightRange(r) ==
  /\ 0 <= r.remote_begin /\ r.remote_begin <= r.remote_end
  /\ ~r.skip => /\ r.local_begin <= r.local_end
                /\ \/ r.local_begin = r.local_end
                   \/ r.remote_end - r.remote_begin = r.local_end - r.local_begin
Follows(last, r) ==
  ~r.skip => r.remote_begin > last.remote_end /\ (last.skip \/ r.local_begin > last.local_end)
RightRanges(ranges) ==
  /\ \A i \in 1..Len(ranges) : RightRange(ranges[i])
  /\ \A i \in 2..Len(ranges) : Follows(ranges[i - 1], ranges[i])
RightMapping(m, path) ==
  /\ m \in Mapping /\ m.remote_path = path /\ path \in Path
  /\ m.type = "directory" <=> EndsWith(path, Sep)
  /\ IF m.type = "lines" THEN ~m.skip /\ m.line_ranges # <<>> ELSE m.line_ranges = <<>>
  /\ RightRanges(m.line_ranges)

Elements == [path : Path, type : {"unknown", "skip", "directory", "lines", "file"}, begin : Int, end : Int]
RightElement(e) ==
  /\ e \in Elements
  /\ e.type \notin {"unknown", "skip"} =>
       /\ e.type = "directory" <=> EndsWith(e.path, Sep)
       /\ 0 <= e.begin /\ e.begin <= e.end /\ (e.begin > 0 <=> e.type = "lines")

\* The paths that a prefix is put before.
LEMMA AssembledPaths ==
  ASSUME NEW prefix \in Path, NEW path \in Path
  PROVE  /\ Assembled(prefix, path) \in Path
         /\ path # <<>> => (EndsWith(Assembled(prefix, path), Sep) <=> EndsWith(path, Sep))
<1> DEFINE f == IF IsRelative(prefix) THEN Cwd \o Tail(prefix) ELSE prefix
           b == IF IsRelative(path) THEN Cwd \o Tail(path) ELSE path
<1>1. Cwd \in Path
  BY MapsAssumption
<1>2. f \in Seq(STRING)
  <2>1. IsRelative(prefix) => Tail(prefix) \in Seq(STRING)
    BY DEF Path, IsRelative, StartsWith
  <2> DEFINE u == Tail(prefix)
  <2> HIDE DEF u
  <2>2. u \in Seq(STRING) => Cwd \o u \in Seq(STRING)
    BY <1>1 DEF Path
  <2> QED BY <2>1, <2>2 DEF u, Path
<1>3. b \in Seq(STRING) /\ (path # <<>> => b # <<>> /\ b[Len(b)] = path[Len(path)])
  <2>1. CASE ~IsRelative(path)
    BY <2>1 DEF Path
  <2>2. CASE IsRelative(path)
    <3>1. path # <<>> /\ Len(path) > 1
      BY <2>2 DEF IsRelative, StartsWith
    <3>2. Tail(path) \in Seq(STRING) /\ Len(Tail(path)) = Len(path) - 1 /\ Tail(path)[Len(path) - 1] = path[Len(path)]
      BY <3>1 DEF Path
    <3> DEFINE u == Tail(path)
    <3> HIDE DEF u
    <3>3. Cwd \o u \in Seq(STRING) /\ Len(Cwd \o u) = Len(Cwd) + Len(u)
      BY <1>1, <3>2 DEF u, Path
    <3>4. (Cwd \o u)[Len(Cwd) + Len(u)] = u[Len(u)]
      BY <1>1, <3>1, <3>2 DEF u, Path
    <3>5. b = Cwd \o u
      BY <2>2 DEF u
    <3>6. Len(Cwd) \in Nat /\ Len(u) = Len(path) - 1 /\ u[Len(u)] = path[Len(path)] /\ Len(path) \in Nat
      <4>1. u \in Seq(STRING) /\ Len(u) = Len(path) - 1 /\ u[Len(path) - 1] = path[Len(path)]
        BY <3>2, Zenon DEF u
      <4>2. Len(Cwd) \in Nat /\ Len(path) \in Nat
        BY <1>1 DEF Path
      <4> QED BY <4>1, <4>2
    <3> HIDE DEF b
    <3>7. Len(b) = Len(Cwd) + Len(u) /\ b[Len(b)] = u[Len(u)]
      BY <3>3, <3>4, <3>5
    <3>8. b # <<>>
      <4>1. Len(b) > 0
        <5> DEFINE c == Len(Cwd)   v == Len(u)   w == Len(b)   x == Len(path)
        <5>1. c \in Nat /\ v = x - 1 /\ x \in Nat /\ x > 1 /\ w = c + v
          BY <3>1, <3>6, <3>7
        <5> HIDE DEF c, v, w, x
        <5>2. w > 0
          BY ONLY <5>1
        <5> QED BY <5>2 DEF w
      <4> QED BY <4>1
    <3> QED BY <3>3, <3>5, <3>6, <3>7, <3>8
  <2> QED BY <2>1, <2>2
<1> HIDE DEF f, b
<1>4. f \o b \in Seq(STRING) /\ (path # <<>> => f \o b # <<>> /\ (f \o b)[Len(f \o b)] = b[Len(b)])
  BY <1>2, <1>3
<1>5. Assembled(prefix, path) = f \o b
  BY DEF Assembled, f, b
<1> QED BY <1>3, <1>4, <1>5 DEF EndsWith, Path

\* What a side of a rule comes to.
LEMMA ElementsPrepared ==
  ASSUME NEW prefix \in Path, NEW e \in Side
  PROVE  /\ RightElement(Prepare(prefix, e)) /\ Prepare(prefix, e).type # "skip"
         /\ RightElement(PrepareLocal(prefix, e))
<1> DEFINE range == LineRange(e)
           r == e.range
           p == Assembled(prefix, e.path)
<1>1. e.path \in Path /\ r \in Seq(Int) /\ Len(r) <= 2 /\ EOFLine \in Nat
  BY MapsAssumption DEF Side
<1>2. p \in Path /\ (e.path # <<>> => (EndsWith(p, Sep) <=> EndsWith(e.path, Sep)))
  BY <1>1, AssembledPaths
<1>3. \/ range = <<>>
      \/ range = <<0, 0>> /\ r = <<>>
      \/ /\ ~EndsWith(e.path, Sep) /\ e.path # <<>>
         /\ \E i, j \in Int : range = <<i, j>> /\ 0 <= i /\ i <= j
  <2> DEFINE to == IF Len(r) = 2 /\ r[2] = EOFText THEN EOFLine ELSE r[Len(r)]
  <2>1. r # <<>> => Len(r) \in {1, 2} /\ r[1] \in Int /\ to \in Int
    <3> HIDE DEF r
    <3>1. r # <<>> => Len(r) \in {1, 2}
      <4>1. Len(r) \in Nat /\ (Len(r) = 0 => r = <<>>)
        BY <1>1, EmptySeq
      <4>2. Len(r) <= 2
        BY <1>1
      <4> DEFINE n == Len(r)
      <4> HIDE DEF n
      <4>3. n \in Nat /\ n <= 2 /\ n # 0 => n \in {1, 2}
        OBVIOUS
      <4> QED BY <4>1, <4>2, <4>3 DEF n
    <3>2. \A n \in 1..Len(r) : r[n] \in Int
      BY <1>1
    <3>3. r # <<>> => Len(r) \in 1..Len(r) /\ 1 \in 1..Len(r)
      BY <3>1
    <3>4. r # <<>> => to \in Int
      BY <1>1, <3>2, <3>3
    <3> QED BY <3>1, <3>2, <3>3, <3>4
  <2>2. range = IF r = <<>> THEN <<0, 0>>
                ELSE IF e.path = <<>> \/ EndsWith(e.path, Sep) \/ r[1] < 0 THEN <<>>
                ELSE IF Len(r) = 1 THEN IF r[1] < 1 THEN <<>> ELSE <<r[1], r[1]>>
                ELSE IF to = NotANumber \/ to < r[1] THEN <<>> ELSE <<r[1], to>>
    BY DEF LineRange
  <2> HIDE DEF to, range, r
  <2> QED BY <2>1, <2>2
<1> HIDE DEF range, r, p
<1>4. RightElement(Unknown) /\ Unknown.type = "unknown"
  BY DEF RightElement, Unknown, Element, Elements, Path
<1>5. RightElement(Element(<<>>, "skip", -1, -1))
  BY DEF RightElement, Element, Elements, Path
<1>6. RightElement(Prepare(prefix, e)) /\ Prepare(prefix, e).type # "skip"
  <2>1. CASE (e.path = <<>> /\ r = <<>>) \/ ~JoinsWell(prefix, e.path) \/ range = <<>>
    <3>1. Prepare(prefix, e) = Unknown
      BY <2>1 DEF Prepare, range, r
    <3> QED BY <3>1, <1>4
  <2>2. CASE ~((e.path = <<>> /\ r = <<>>) \/ ~JoinsWell(prefix, e.path) \/ range = <<>>)
    <3>1. e.path # <<>>
      BY <1>3, <2>2
    <3>2. PICK i, j \in Int : /\ range = <<i, j>> /\ 0 <= i /\ i <= j
                              /\ i > 0 => ~EndsWith(e.path, Sep)
      BY <1>3, <2>2
    <3> DEFINE t == IF EndsWith(e.path, Sep) THEN "directory" ELSE IF i > 0 THEN "lines" ELSE "file"
    <3>3. Prepare(prefix, e) = Element(p, t, i, j)
      BY <2>2, <3>2 DEF Prepare, range, r, p
    <3>4. t \in {"directory", "lines", "file"} /\ (t = "directory" <=> EndsWith(p, Sep)) /\ (i > 0 <=> t = "lines")
      BY <1>2, <3>1, <3>2
    <3> HIDE DEF t
    <3>5. RightElement(Element(p, t, i, j)) /\ Element(p, t, i, j).type # "skip"
      BY <1>2, <3>2, <3>4 DEF RightElement, Element, Elements
    <3> QED BY <3>3, <3>5
  <2> QED BY <2>1, <2>2
<1> QED BY <1>5, <1>6, Zenon DEF PrepareLocal

\* The state of the parser, and the ranges of its rules.
RightRules(rules) ==
  /\ rules = [p \in DOMAIN rules |-> rules[p]]
  /\ \A p \in DOMAIN rules : RightMapping(rules[p], p)
RightParser(s) ==
  /\ s = [failed |-> s.failed, remote_prefix |-> s.remote_prefix, local_prefix |-> s.local_prefix,
          file_rules |-> s.file_rules]
  /\ s.failed \in BOOLEAN /\ s.remote_prefix \in Path /\ s.local_prefix \in Path
  /\ RightRules(s.file_rules)
RangesFor(path, ranges) == {[path |-> path, range |-> ranges[i]] : i \in 1..Len(ranges)}
RangesOf(rules) == UNION {RangesFor(p, rules[p].line_ranges) : p \in DOMAIN rules}

\* A range of a rule that fits.
LEMMA RangeOfRule ==
  ASSUME NEW remote, RightElement(remote), remote.type \notin {"unknown", "skip"},
         NEW given, RightElement(given), given.type # "unknown",
         NEW local, local = Adjusted(remote, given), Fits(remote, local)
  PROVE  /\ local.type = given.type /\ local.path \in Path
         /\ NewRange(remote, local) \in MapRange
         /\ (remote.type = "lines" \/ local.type = "skip") => RightRange(NewRange(remote, local))
<1> DEFINE end == EOFLine + given.begin - remote.begin
           new == NewRange(remote, local)
<1>1. remote.begin \in Int /\ remote.end \in Int /\ given.begin \in Int /\ given.end \in Int /\ EOFLine \in Int
      /\ given.path \in Path /\ (given.type # "skip" => given.begin <= given.end)
      /\ 0 <= remote.begin /\ remote.begin <= remote.end
  BY MapsAssumption DEF RightElement, Elements
<1>2. /\ local.type = given.type /\ local.path = given.path /\ local.begin = given.begin
      /\ \/ local.end = given.end
         \/ local.end = end /\ remote.end = EOFLine
  <2>1. given = [path |-> given.path, type |-> given.type, begin |-> given.begin, end |-> given.end]
    BY DEF RightElement, Elements
  <2>2. CASE /\ remote.type = "lines" /\ remote.begin # remote.end /\ remote.end = EOFLine
             /\ given.begin # given.end /\ given.end = EOFLine
    <3>1. local = [given EXCEPT !.end = end]
      BY <2>2 DEF Adjusted
    <3>2. local = [path |-> given.path, type |-> given.type, begin |-> given.begin, end |-> end]
      BY <2>1, <3>1
    <3> QED BY <2>2, <3>2
  <2>3. CASE ~(/\ remote.type = "lines" /\ remote.begin # remote.end /\ remote.end = EOFLine
               /\ given.begin # given.end /\ given.end = EOFLine)
    BY <2>3 DEF Adjusted
  <2> QED BY <2>2, <2>3
<1>3. end \in Int /\ (remote.end = EOFLine => given.begin <= end)
  BY <1>1
<1>4. local.begin \in Int /\ local.end \in Int /\ (local.type # "skip" => local.begin <= local.end)
  BY <1>1, <1>2, <1>3
<1>5. new = [remote_begin |-> remote.begin, remote_end |-> remote.end, skip |-> local.type = "skip",
             local_path |-> local.path, local_begin |-> local.begin, local_end |-> local.end]
  BY Zenon DEF NewRange
<1> HIDE DEF new, end
<1>6. new \in MapRange
  BY <1>1, <1>2, <1>4, <1>5 DEF MapRange
<1>7. ASSUME remote.type = "lines" \/ local.type = "skip"
      PROVE  RightRange(new)
  <2>1. local.type # "skip" => local.begin = local.end \/ remote.end - remote.begin = local.end - local.begin
    BY <1>7 DEF Fits
  <2>2. /\ new.remote_begin = remote.begin /\ new.remote_end = remote.end /\ new.local_begin = local.begin
        /\ new.local_end = local.end /\ (new.skip <=> local.type = "skip")
    BY <1>5
  <2> QED BY <1>1, <1>4, <2>1, <2>2 DEF RightRange
<1> QED BY <1>1, <1>2, <1>6, <1>7 DEF new

\* A mapping of one rule.
LEMMA FirstRule ==
  ASSUME NEW remote, RightElement(remote), remote.type \notin {"unknown", "skip"},
         NEW local, local.path \in Path,
         NewRange(remote, local) \in MapRange, remote.type = "lines" => RightRange(NewRange(remote, local))
  PROVE  /\ RightMapping(NewMapping(remote, local), remote.path)
         /\ NewMapping(remote, local).type = remote.type
         /\ NewMapping(remote, local).line_ranges = IF remote.type = "lines" THEN <<NewRange(remote, local)>> ELSE <<>>
<1> DEFINE r == NewRange(remote, local)
           ranges == IF remote.type = "lines" THEN <<r>> ELSE <<>>
           m == NewMapping(remote, local)
<1>1. m = [type |-> remote.type, skip |-> local.type = "skip" /\ remote.type # "lines",
           remote_path |-> remote.path, local_path |-> local.path, line_ranges |-> ranges]
  BY Zenon DEF NewMapping
<1>2. remote.type \in {"directory", "lines", "file"} /\ remote.path \in Path
      /\ (remote.type = "directory" <=> EndsWith(remote.path, Sep))
  BY DEF RightElement, Elements
<1> HIDE DEF r
<1>3. /\ ranges \in Seq(MapRange) /\ RightRanges(ranges)
      /\ IF remote.type = "lines" THEN ranges # <<>> ELSE ranges = <<>>
  <2>1. CASE remote.type = "lines"
    <3>1. r \in MapRange /\ RightRange(r)
      BY <2>1 DEF r
    <3>2. Len(<<r>>) = 1 /\ <<r>>[1] = r /\ <<r>> \in Seq(MapRange)
      BY <3>1
    <3>3. RightRanges(<<r>>)
      BY <3>1, <3>2 DEF RightRanges
    <3> QED BY <2>1, <3>2, <3>3
  <2>2. CASE remote.type # "lines"
    BY <2>2 DEF RightRanges
  <2> QED BY <2>1, <2>2
<1> HIDE DEF m, ranges
<1>4. m \in Mapping
  BY <1>1, <1>2, <1>3 DEF Mapping
<1>5. RightMapping(m, remote.path)
  BY <1>1, <1>2, <1>3, <1>4 DEF RightMapping
<1> QED BY <1>1, <1>5 DEF m, ranges, r

\* A mapping with one more rule.
Longer(old, r) == [old EXCEPT !.line_ranges = Append(@, r)]
LEMMA NextRule ==
  ASSUME NEW path, NEW old, RightMapping(old, path), NEW remote, RightElement(remote),
         NEW local, NewRange(remote, local) \in MapRange,
         (remote.type = "lines" \/ local.type = "skip") => RightRange(NewRange(remote, local)),
         Extends(old, remote, local), local.type # "skip" => local.type = remote.type,
         remote.type \notin {"unknown", "skip"},
         NEW r, r = NewRange(remote, local)
  PROVE  /\ RightMapping(Longer(old, r), path)
         /\ Longer(old, r).type = "lines" /\ Longer(old, r).line_ranges = Append(old.line_ranges, r)
<1> DEFINE ranges == old.line_ranges
           last == ranges[Len(ranges)]
           new == Longer(old, r)
<1>1. old \in Mapping /\ old.type = "lines" /\ ranges \in Seq(MapRange) /\ ranges # <<>> /\ RightRanges(ranges)
  BY DEF RightMapping, Extends, Mapping
<1>2. /\ r.remote_begin = remote.begin /\ r.local_begin = local.begin
      /\ (r.skip <=> local.type = "skip")
  BY DEF NewRange
<1>3. Follows(last, r)
  BY <1>2 DEF Follows, Extends
<1>4. Len(ranges) \in 1..Len(ranges)
  BY <1>1
<1>5. last \in MapRange /\ RightRange(last)
  BY <1>1, <1>4 DEF RightRanges
<1>6. RightRange(r)
  <2>1. last.remote_end \in Int /\ last.remote_begin \in Int /\ remote.begin \in Int
    BY <1>5 DEF MapRange, RightElement, Elements
  <2>2. local.type # "skip" => remote.begin > 0
    BY <1>2, <1>3, <1>5, <2>1 DEF Follows, RightRange
  <2>3. local.type # "skip" => remote.type = "lines"
    BY <2>2 DEF RightElement
  <2> QED BY <2>3
<1>7. new = [type |-> old.type, skip |-> old.skip, remote_path |-> old.remote_path,
             local_path |-> old.local_path, line_ranges |-> Append(ranges, r)]
  <2>1. old = [type |-> old.type, skip |-> old.skip, remote_path |-> old.remote_path,
               local_path |-> old.local_path, line_ranges |-> ranges]
    BY <1>1 DEF Mapping
  <2> DEFINE f == old.type   b == old.skip   c == old.remote_path   d == old.local_path
  <2> HIDE DEF ranges, f, b, c, d, new
  <2>2. old = [type |-> f, skip |-> b, remote_path |-> c, local_path |-> d, line_ranges |-> ranges]
    BY <2>1 DEF f, b, c, d
  <2>3. [old EXCEPT !.line_ranges = Append(@, r)]
          = [type |-> f, skip |-> b, remote_path |-> c, local_path |-> d, line_ranges |-> Append(ranges, r)]
    BY ONLY <2>2
  <2> QED BY <2>3 DEF f, b, c, d, ranges, new, Longer
<1> HIDE DEF new
<1> DEFINE more == Append(ranges, r)
<1>8. /\ more \in Seq(MapRange) /\ Len(more) = Len(ranges) + 1 /\ more # <<>>
      /\ \A i \in 1..Len(ranges) : more[i] = ranges[i]
      /\ more[Len(ranges) + 1] = r
  BY <1>1
<1> HIDE DEF more
<1>9. RightRanges(more)
  <2>1. Len(ranges) \in Nat
    BY <1>1
  <2>2. \A i \in 1..Len(more) : RightRange(more[i])
    BY <1>1, <1>6, <1>8, <2>1 DEF RightRanges
  <2>3. ASSUME NEW i \in 2..Len(more)
        PROVE  Follows(more[i - 1], more[i])
    <3>1. CASE i = Len(ranges) + 1
      BY <1>3, <1>4, <1>8, <2>1, <3>1
    <3>2. CASE i # Len(ranges) + 1
      <4>1. i \in 2..Len(ranges) /\ i \in 1..Len(ranges) /\ i - 1 \in 1..Len(ranges)
        BY <1>8, <2>1, <3>2
      <4> QED BY <1>1, <1>8, <4>1 DEF RightRanges
    <3> QED BY <3>1, <3>2
  <2> QED BY <2>2, <2>3 DEF RightRanges
<1>10. new \in Mapping
  <2>1. old.type \in {"directory", "file", "lines"} /\ old.skip \in BOOLEAN
        /\ old.remote_path \in Path /\ old.local_path \in Path
    BY <1>1 DEF Mapping
  <2>2. more \in Seq(MapRange) /\ new = [type |-> old.type, skip |-> old.skip, remote_path |-> old.remote_path,
                                          local_path |-> old.local_path, line_ranges |-> more]
    BY <1>7, <1>8 DEF more
  <2> QED BY <2>1, <2>2 DEF Mapping
<1>11. RightMapping(new, path)
  BY <1>1, <1>7, <1>8, <1>9, <1>10 DEF RightMapping, more
<1> QED BY <1>1, <1>7, <1>11 DEF new

\* At most one more range.
AtMostOne == {<<>>} \cup {<<r>> : r \in MapRange}

LEMMA RulesStayRight ==
  ASSUME NEW rules, RightRules(rules), NEW path, NEW m, RightMapping(m, path)
  PROVE  RightRules(Put(rules, path, m))
BY DEF RightRules, Put

\* The ranges of the rules when a mapping is put in that has some more.
LEMMA RangesWith ==
  ASSUME NEW rules, RightRules(rules), NEW path, NEW m, RightMapping(m, path),
         NEW ranges, ranges \in AtMostOne,
         path \notin DOMAIN rules => m.line_ranges = ranges,
         path \in DOMAIN rules => m.line_ranges = rules[path].line_ranges \o ranges
  PROVE  RangesOf(Put(rules, path, m)) = RangesOf(rules) \cup RangesFor(path, ranges)
<1> DEFINE new == Put(rules, path, m)
<1>1. /\ DOMAIN new = DOMAIN rules \cup {path} /\ new[path] = m
      /\ \A p \in DOMAIN rules : p # path => new[p] = rules[p]
  BY DEF Put
<1> HIDE DEF new
<1>3. RangesOf(new) = RangesOf(rules) \cup RangesFor(path, ranges)
  <2>1. ranges \in Seq(MapRange)
    <3>1. CASE ranges = <<>>
      BY <3>1
    <3>2. ASSUME NEW r \in MapRange, ranges = <<r>>
          PROVE  ranges \in Seq(MapRange)
      BY <3>2
    <3> QED BY <3>1, <3>2 DEF AtMostOne
  <2>2. \A rs \in Seq(MapRange) : RangesFor(path, rs \o ranges) = RangesFor(path, rs) \cup RangesFor(path, ranges)
    <3> SUFFICES ASSUME NEW rs \in Seq(MapRange)
                 PROVE  RangesFor(path, rs \o ranges) = RangesFor(path, rs) \cup RangesFor(path, ranges)
      OBVIOUS
    <3>1. /\ rs \o ranges \in Seq(MapRange) /\ Len(rs \o ranges) = Len(rs) + Len(ranges)
          /\ \A i \in 1..Len(rs) : (rs \o ranges)[i] = rs[i]
          /\ \A i \in 1..Len(ranges) : (rs \o ranges)[Len(rs) + i] = ranges[i]
      BY <2>1
    <3>2. Len(rs) \in Nat /\ Len(ranges) \in Nat
      BY <2>1
    <3>3. \A i \in 1..(Len(rs) + Len(ranges)) : i \in 1..Len(rs) \/ \E j \in 1..Len(ranges) : i = Len(rs) + j
      <4> SUFFICES ASSUME NEW i \in 1..(Len(rs) + Len(ranges)), i \notin 1..Len(rs)
                   PROVE  \E j \in 1..Len(ranges) : i = Len(rs) + j
        OBVIOUS
      <4> WITNESS i - Len(rs) \in 1..Len(ranges)
      <4> QED BY <3>2
    <3>4. (\A i \in 1..Len(rs) : i \in 1..(Len(rs) + Len(ranges)))
          /\ \A j \in 1..Len(ranges) : Len(rs) + j \in 1..(Len(rs) + Len(ranges))
      BY <3>2
    <3> DEFINE both == rs \o ranges   n == Len(rs)   k == Len(ranges)
    <3> HIDE DEF both, n, k
    <3>5. /\ Len(both) = n + k
          /\ \A i \in 1..n : both[i] = rs[i]
          /\ \A j \in 1..k : both[n + j] = ranges[j]
      BY <3>1 DEF both, n, k
    <3>6. /\ \A i \in 1..(n + k) : i \in 1..n \/ \E j \in 1..k : i = n + j
          /\ \A i \in 1..n : i \in 1..(n + k)
          /\ \A j \in 1..k : n + j \in 1..(n + k)
      BY <3>3, <3>4 DEF n, k
    <3>7. {[path |-> path, range |-> both[i]] : i \in 1..(n + k)}
            = {[path |-> path, range |-> rs[i]] : i \in 1..n} \cup {[path |-> path, range |-> ranges[i]] : i \in 1..k}
      BY <3>5, <3>6
    <3> QED BY <3>5, <3>7 DEF both, n, k, RangesFor
  <2>3. RangesOf(new) = UNION {RangesFor(p, new[p].line_ranges) : p \in DOMAIN new}
    BY DEF RangesOf
  <2>4. RangesOf(rules) = UNION {RangesFor(p, rules[p].line_ranges) : p \in DOMAIN rules}
    BY DEF RangesOf
  <2>5. path \notin DOMAIN rules => RangesFor(path, m.line_ranges) = RangesFor(path, ranges)
    OBVIOUS
  <2>6. path \in DOMAIN rules =>
          RangesFor(path, m.line_ranges) = RangesFor(path, rules[path].line_ranges) \cup RangesFor(path, ranges)
    <3>1. path \in DOMAIN rules => rules[path].line_ranges \in Seq(MapRange)
      BY DEF RightRules, RightMapping, Mapping
    <3> QED BY <2>2, <3>1, Zenon
  <2>7. RangesOf(new) = RangesOf(rules) \cup RangesFor(path, ranges)
    BY <1>1, <2>3, <2>4, <2>5, <2>6
  <2> QED BY <2>7
<1> QED BY <1>3 DEF new

\* A rule that is added.
Rule == {line \in MapLine : line.kind = "rule"}
LEMMA RuleAdded ==
  ASSUME NEW s, RightParser(s), NEW line \in MapLine, line.kind = "rule"
  PROVE  LET t == AddRule(s, line)
             path == Remote(s, line).path
             range == NewRange(Remote(s, line), Local(s, line))
         IN \/ t = Failing(s)
            \/ /\ t.failed = s.failed /\ RightParser(t)
               /\ RangesOf(t.file_rules) =
                    RangesOf(s.file_rules)
                      \cup IF t.file_rules[path].type = "lines" THEN {[path |-> path, range |-> range]} ELSE {}
<1> DEFINE remote == Remote(s, line)
           given  == PrepareLocal(s.local_prefix, line.local)
           local  == Local(s, line)
           path   == remote.path
           old    == s.file_rules[path]
           range  == NewRange(remote, local)
           t      == AddRule(s, line)
           longer == Longer(old, range)
<1>1. t = IF remote.type = "unknown" \/ local.type = "unknown" \/ ~Fits(remote, local)
          THEN Failing(s)
          ELSE IF path \notin DOMAIN s.file_rules
          THEN WithRule(s, path, NewMapping(remote, local))
          ELSE IF Extends(old, remote, local) THEN WithRule(s, path, longer) ELSE Failing(s)
  BY Zenon DEF AddRule, Longer
<1>2. line.remote \in Side /\ line.local \in Side
  BY DEF MapLine
<1>3. s.remote_prefix \in Path /\ s.local_prefix \in Path /\ RightRules(s.file_rules)
  BY DEF RightParser
<1>4. RightElement(remote) /\ remote.type # "skip" /\ RightElement(given) /\ local = Adjusted(remote, given)
  BY <1>2, <1>3, ElementsPrepared, Zenon DEF Remote, Local
<1>5. ASSUME NEW m, RightMapping(m, path)
      PROVE  /\ WithRule(s, path, m).failed = s.failed /\ RightParser(WithRule(s, path, m))
             /\ WithRule(s, path, m).file_rules = Put(s.file_rules, path, m)
  <2> DEFINE rules == Put(s.file_rules, path, m)
  <2>1. RightRules(rules)
    BY <1>3, <1>5, RulesStayRight, Zenon
  <2> DEFINE f == s.failed   b == s.remote_prefix   c == s.local_prefix   d == s.file_rules
  <2>2. s = [failed |-> f, remote_prefix |-> b, local_prefix |-> c, file_rules |-> d]
        /\ f \in BOOLEAN /\ b \in Path /\ c \in Path
    BY DEF RightParser
  <2>3. WithRule(s, path, m) = [s EXCEPT !.file_rules = rules]
    BY DEF WithRule
  <2> HIDE DEF rules, f, b, c, d
  <2>4. [s EXCEPT !.file_rules = rules] = [failed |-> f, remote_prefix |-> b, local_prefix |-> c, file_rules |-> rules]
    BY ONLY <2>2
  <2> DEFINE u == [failed |-> f, remote_prefix |-> b, local_prefix |-> c, file_rules |-> rules]
  <2>5. RightParser(u) /\ u.failed = f /\ u.file_rules = rules
    BY <2>1, <2>2 DEF RightParser
  <2> HIDE DEF u
  <2>6. WithRule(s, path, m) = u
    BY <2>3, <2>4, Zenon DEF u
  <2> QED BY <2>5, <2>6, Zenon DEF rules, f
<1> HIDE DEF given, local, remote, t, path, old
<1>6. CASE remote.type = "unknown" \/ local.type = "unknown" \/ ~Fits(remote, local)
  BY <1>1, <1>6, Zenon DEF t
<1>7. CASE ~(remote.type = "unknown" \/ local.type = "unknown" \/ ~Fits(remote, local))
  <2>1. given.type # "unknown"
    <3>1. local.type = given.type
      <4>1. given = [path |-> given.path, type |-> given.type, begin |-> given.begin, end |-> given.end]
        BY <1>4 DEF RightElement, Elements
      <4>2. \A x : [given EXCEPT !.end = x].type = given.type
        BY <4>1
      <4> QED BY <1>4, <4>2 DEF Adjusted
    <3> QED BY <1>7, <3>1
  <2>2. /\ local.type = given.type /\ local.path \in Path /\ range \in MapRange
        /\ remote.type = "lines" \/ local.type = "skip" => RightRange(range)
    BY <1>4, <1>7, <2>1, RangeOfRule
  <2>3. remote.type \notin {"unknown", "skip"} /\ (local.type # "skip" => local.type = remote.type)
    BY <1>4, <1>7 DEF Fits
  <2>4. CASE path \notin DOMAIN s.file_rules
    <3> DEFINE m == NewMapping(remote, local)
               ranges == IF remote.type = "lines" THEN <<range>> ELSE <<>>
    <3>1. RightMapping(m, path) /\ m.type = remote.type /\ m.line_ranges = ranges
      BY <1>4, <2>2, <2>3, FirstRule DEF path
    <3> HIDE DEF m, range
    <3>2. RangesOf(Put(s.file_rules, path, m)) =
            RangesOf(s.file_rules) \cup RangesFor(path, ranges)
      <4>1. ranges \in AtMostOne
        BY <2>2 DEF AtMostOne
      <4> HIDE DEF ranges
      <4> QED BY <1>3, <2>4, <3>1, <4>1, RangesWith
    <3>3. RangesFor(path, ranges) = IF remote.type = "lines" THEN {[path |-> path, range |-> range]} ELSE {}
      BY DEF ranges, RangesFor
    <3>4. t = WithRule(s, path, m)
      BY <1>1, <1>7, <2>4, Zenon DEF m
    <3>5. Put(s.file_rules, path, m)[path] = m
      BY DEF Put
    <3>6. /\ t.failed = s.failed /\ RightParser(t) /\ t.file_rules = Put(s.file_rules, path, m)
      BY <1>5, <3>1, <3>4, Zenon
    <3> HIDE DEF ranges
    <3>7. t.file_rules[path].type = remote.type
      BY <3>1, <3>5, <3>6, Zenon
    <3> QED BY <3>2, <3>3, <3>6, <3>7 DEF remote, local, t, range, path
  <2>5. CASE path \in DOMAIN s.file_rules /\ Extends(old, remote, local)
    <3>1. RightMapping(old, path)
      BY <1>3, <2>5 DEF RightRules, old
    <3>2. RightMapping(longer, path) /\ longer.type = "lines" /\ longer.line_ranges = Append(old.line_ranges, range)
      <4>1. range = NewRange(remote, local)
        OBVIOUS
      <4> HIDE DEF range
      <4> QED BY <1>4, <2>2, <2>3, <2>5, <3>1, <4>1, NextRule
    <3>3. t = WithRule(s, path, longer)
      BY <1>1, <1>7, <2>5, Zenon DEF t, longer
    <3> HIDE DEF longer, range
    <3>4. longer.line_ranges = old.line_ranges \o <<range>>
      <4> DEFINE ranges == old.line_ranges
      <4>1. ranges \in Seq(MapRange)
        BY <3>1 DEF RightMapping, Mapping
      <4> HIDE DEF ranges
      <4>2. Append(ranges, range) = ranges \o <<range>>
        BY <4>1, <2>2
      <4> QED BY <3>2, <4>2 DEF ranges
    <3>5. RangesOf(Put(s.file_rules, path, longer)) =
            RangesOf(s.file_rules) \cup RangesFor(path, <<range>>)
      <4> DEFINE one == <<range>>
      <4>1. one \in AtMostOne
        BY <2>2 DEF AtMostOne
      <4>2. longer.line_ranges = s.file_rules[path].line_ranges \o one
        BY <3>4, Zenon DEF old, one
      <4> HIDE DEF one
      <4> DEFINE rules == s.file_rules
      <4>3. RightRules(rules) /\ RightMapping(longer, path) /\ path \in DOMAIN rules
            /\ longer.line_ranges = rules[path].line_ranges \o one
        BY <1>3, <2>5, <3>2, <4>2
      <4> HIDE DEF rules
      <4>4. RangesOf(Put(rules, path, longer)) = RangesOf(rules) \cup RangesFor(path, one)
        BY <4>1, <4>3, RangesWith
      <4> QED BY <4>4 DEF one, rules
    <3>6. RangesFor(path, <<range>>) = {[path |-> path, range |-> range]}
      BY DEF RangesFor
    <3>7. Put(s.file_rules, path, longer)[path] = longer
      BY DEF Put
    <3>8. t.failed = s.failed /\ RightParser(t) /\ t.file_rules = Put(s.file_rules, path, longer)
      BY <1>5, <3>2, <3>3, Zenon
    <3>9. t.file_rules[path].type = "lines"
      BY <3>2, <3>7, <3>8, Zenon
    <3> QED BY <3>5, <3>6, <3>8, <3>9 DEF remote, local, t, range, path
  <2>6. CASE path \in DOMAIN s.file_rules /\ ~Extends(old, remote, local)
    BY <1>1, <1>7, <2>6, Zenon DEF t
  <2> QED BY <2>4, <2>5, <2>6
<1> QED BY <1>6, <1>7

\* kept has those of the first n ranges that do not skip, in their order.
KeptPlaces(ranges, n, kept, places) ==
  /\ places \in [1..Len(kept) -> 1..n]
  /\ \A k \in 1..Len(kept) : kept[k] = ranges[places[k]] /\ ~ranges[places[k]].skip
  /\ \A j, k \in 1..Len(kept) : j < k => places[j] < places[k]
  /\ \A i \in 1..n : ~ranges[i].skip => \E k \in 1..Len(kept) : places[k] = i
KeptOf(ranges, n, kept) == kept \in Seq(MapRange) /\ \E places : KeptPlaces(ranges, n, kept, places)

KeepNext(ranges, n, kept) == IF ranges[n].skip THEN kept ELSE Append(kept, ranges[n])
LEMMA KeepsNext ==
  ASSUME NEW ranges \in Seq(MapRange), NEW n \in Nat, n + 1 <= Len(ranges), NEW kept, KeptOf(ranges, n, kept)
  PROVE  KeptOf(ranges, n + 1, KeepNext(ranges, n + 1, kept))
<1>1. PICK places : KeptPlaces(ranges, n, kept, places)
  BY DEF KeptOf
<1>2. kept \in Seq(MapRange) /\ Len(kept) \in Nat /\ ranges[n + 1] \in MapRange
  BY DEF KeptOf
<1>3. CASE ranges[n + 1].skip
  <2>1. KeptPlaces(ranges, n + 1, kept, places)
    <3>1. \A i \in 1..n : i \in 1..(n + 1)
      OBVIOUS
    <3>2. \A i \in 1..(n + 1) : i \in 1..n \/ i = n + 1
      OBVIOUS
    <3> QED BY <1>1, <1>3, <3>1, <3>2 DEF KeptPlaces
  <2> QED BY <1>2, <1>3, <2>1 DEF KeptOf, KeepNext
<1>4. CASE ~ranges[n + 1].skip
  <2> DEFINE N == Len(kept)
             r == ranges[n + 1]
             more == Append(kept, r)
             further == [k \in 1..(N + 1) |-> IF k = N + 1 THEN n + 1 ELSE places[k]]
  <2>1. /\ more \in Seq(MapRange) /\ Len(more) = N + 1 /\ more[N + 1] = r
        /\ \A k \in 1..N : more[k] = kept[k]
    BY <1>2
  <2>2. /\ \A k \in 1..(N + 1) : k \in 1..N \/ k = N + 1
        /\ \A k \in 1..N : k \in 1..(N + 1) /\ k # N + 1
        /\ N + 1 \in 1..(N + 1)
    BY <1>2
  <2>3. /\ \A k \in 1..N : places[k] \in 1..n /\ further[k] = places[k]
        /\ further[N + 1] = n + 1
    BY <1>1, <2>2 DEF KeptPlaces
  <2>4. \A i \in 1..n : i \in 1..(n + 1) /\ i < n + 1
    OBVIOUS
  <2>5. \A i \in 1..(n + 1) : i \in 1..n \/ i = n + 1
    OBVIOUS
  <2> HIDE DEF more
  <2>6. further \in [1..Len(more) -> 1..(n + 1)]
    <3>1. \A k \in 1..(N + 1) : (IF k = N + 1 THEN n + 1 ELSE places[k]) \in 1..(n + 1)
      <4>1. n + 1 \in 1..(n + 1)
        OBVIOUS
      <4> QED BY <2>2, <2>3, <2>4, <4>1
    <3> QED BY <2>1, <3>1, Zenon
  <2> HIDE DEF further
  <2>7. \A k \in 1..Len(more) : more[k] = ranges[further[k]] /\ ~ranges[further[k]].skip
    BY <1>1, <1>4, <2>1, <2>2, <2>3 DEF KeptPlaces
  <2>8. ASSUME NEW j \in 1..(N + 1), NEW k \in 1..(N + 1), j < k
        PROVE  further[j] < further[k]
    <3>1. j \in 1..N
      BY <1>2, <2>8
    <3>2. CASE k = N + 1
      BY <2>3, <2>4, <3>1, <3>2
    <3>3. CASE k \in 1..N
      BY <1>1, <2>3, <2>8, <3>1, <3>3 DEF KeptPlaces
    <3> QED BY <2>2, <3>2, <3>3
  <2>9. ASSUME NEW i \in 1..(n + 1), ~ranges[i].skip
        PROVE  \E k \in 1..(N + 1) : further[k] = i
    <3>1. CASE i = n + 1
      BY <2>2, <2>3, <3>1
    <3>2. CASE i \in 1..n
      <4>1. PICK k \in 1..N : places[k] = i
        BY <1>1, <2>9, <3>2 DEF KeptPlaces
      <4> QED BY <2>2, <2>3, <4>1
    <3> QED BY <2>5, <3>1, <3>2
  <2>10. KeptPlaces(ranges, n + 1, more, further)
    BY <2>1, <2>6, <2>7, <2>8, <2>9 DEF KeptPlaces
  <2>11. KeepNext(ranges, n + 1, kept) = more
    BY <1>4 DEF KeepNext, more
  <2> QED BY <2>1, <2>10, <2>11 DEF KeptOf
<1> QED BY <1>3, <1>4

LEMMA KeptRanges ==
  ASSUME NEW ranges \in Seq(MapRange)
  PROVE  KeptOf(ranges, Len(ranges), Kept(ranges))
<1> DEFINE N == Len(ranges)
           S == Seq(MapRange)
           F == [k \in 1..N |-> [kept \in S |-> KeepNext(ranges, k, kept)]]
           all == CHOOSE f : f = [i \in 0..N |-> IF i = 0 THEN <<>>
                                  ELSE IF ranges[i].skip THEN f[i - 1] ELSE Append(f[i - 1], ranges[i])]
<1>1. Kept(ranges) = all[N]
  BY Zenon DEF Kept
<1>2. N \in Nat /\ \A k \in 1..N : ranges[k] \in MapRange
  OBVIOUS
<1>3. PICK g : g \in Iterations(S, <<>>, N, F)
  <2>1. \A k \in 1..N : \A kept \in S : KeepNext(ranges, k, kept) \in S
    BY <1>2 DEF KeepNext
  <2> HIDE DEF S
  <2>2. <<>> \in S /\ F \in Steps(S, N)
    BY <2>1 DEF Steps, S
  <2> HIDE DEF F
  <2> QED BY <1>2, <2>2, Iterates, Zenon
<1> HIDE DEF S
<1>4. g \in [0..N -> S] /\ g[0] = <<>>
  BY <1>3, Zenon DEF Iterations
<1>5. \A k \in 1..N : g[k] = KeepNext(ranges, k, g[k - 1])
  <2> SUFFICES ASSUME NEW k \in 1..N
               PROVE  g[k] = KeepNext(ranges, k, g[k - 1])
    BY Zenon
  <2>1. k - 1 \in 0..N
    BY <1>2
  <2>2. g[k - 1] \in S
    BY <1>4, <2>1, Zenon
  <2>3. g[k] = F[k][g[k - 1]]
    BY <1>3, Zenon DEF Iterations
  <2> QED BY <2>2, <2>3
<1> HIDE DEF F
<1>6. all = [i \in 0..N |-> IF i = 0 THEN <<>>
                            ELSE IF ranges[i].skip THEN all[i - 1] ELSE Append(all[i - 1], ranges[i])]
  <2>1. g = [i \in 0..N |-> IF i = 0 THEN <<>>
                            ELSE IF ranges[i].skip THEN g[i - 1] ELSE Append(g[i - 1], ranges[i])]
    <3> HIDE DEF N
    <3>1. \A i \in 0..N : i # 0 => i \in 1..N
      BY <1>2
    <3>2. \A i \in 0..N : g[i] = IF i = 0 THEN <<>>
                                ELSE IF ranges[i].skip THEN g[i - 1] ELSE Append(g[i - 1], ranges[i])
      BY <1>4, <1>5, <3>1, Zenon DEF KeepNext
    <3> QED BY <1>4, <3>2, Zenon
  <2> QED BY <2>1, Zenon
<1> HIDE DEF all
<1> DEFINE T == {n \in Nat : n <= N => KeptOf(ranges, n, all[n])}
<1>7. 0 \in T
  <2>1. all[0] = <<>>
    BY <1>2, <1>6
  <2> DEFINE none == [k \in 1..0 |-> 1]
  <2>2. KeptPlaces(ranges, 0, <<>>, none)
    BY DEF KeptPlaces
  <2>3. KeptOf(ranges, 0, <<>>)
    BY <2>2 DEF KeptOf
  <2> QED BY <2>1, <2>3
<1>8. ASSUME NEW n \in Nat, n \in T
      PROVE  n + 1 \in T
  <2> SUFFICES ASSUME n + 1 <= N
               PROVE  KeptOf(ranges, n + 1, all[n + 1])
    OBVIOUS
  <2>1. KeptOf(ranges, n, all[n])
    BY <1>2, <1>8
  <2>2. all[n + 1] = KeepNext(ranges, n + 1, all[n])
    <3> HIDE DEF N
    <3>1. n + 1 \in 0..N /\ n + 1 # 0 /\ (n + 1) - 1 = n
      BY <1>2
    <3> DEFINE m == n + 1
    <3> HIDE DEF m
    <3>2. all[m] = KeepNext(ranges, m, all[m - 1])
      BY <1>6, <3>1, Zenon DEF KeepNext, m
    <3> QED BY <3>1, <3>2 DEF m
  <2> QED BY <2>1, <2>2, KeepsNext
<1> HIDE DEF T
<1>9. N \in T
  BY <1>2, <1>7, <1>8, Induction
<1> QED BY <1>1, <1>2, <1>9 DEF T

\* Ranges that are in their place follow each other, on both sides.
LEMMA RangesFollow ==
  ASSUME NEW ranges \in Seq(MapRange), RightRanges(ranges), SkipsInPlace(ranges)
  PROVE  /\ \A i, j \in 1..Len(ranges) : i < j => ranges[i].remote_end < ranges[j].remote_begin
         /\ \A i, j \in 1..Len(ranges) :
              i < j /\ ~ranges[i].skip /\ ~ranges[j].skip => ranges[i].local_end < ranges[j].local_begin
<1> DEFINE N == Len(ranges)
           Remotely(j) == \A i \in 1..N : i < j => ranges[i].remote_end < ranges[j].remote_begin
           Locally(j)  == \A i \in 1..N : i < j /\ ~ranges[i].skip /\ ~ranges[j].skip
                                            => ranges[i].local_end < ranges[j].local_begin
           S == {j \in Nat : j \in 1..N => Remotely(j) /\ Locally(j)}
<1>1. /\ N \in Nat
      /\ \A i \in 1..N : /\ ranges[i].remote_begin \in Int /\ ranges[i].remote_end \in Int
                         /\ ranges[i].local_begin \in Int /\ ranges[i].local_end \in Int
                         /\ ranges[i].skip \in BOOLEAN
                         /\ ranges[i].remote_begin <= ranges[i].remote_end
                         /\ ~ranges[i].skip => ranges[i].local_begin <= ranges[i].local_end
  <2>1. N \in Nat /\ \A i \in 1..N : ranges[i] \in MapRange /\ RightRange(ranges[i])
    BY DEF RightRanges
  <2> QED BY <2>1 DEF MapRange, RightRange
<1>2. ASSUME NEW j \in 2..N
      PROVE  /\ j - 1 \in 1..N /\ j \in 1..N
             /\ ranges[j - 1].remote_end < ranges[j].remote_begin
             /\ ~ranges[j].skip /\ ~ranges[j - 1].skip => ranges[j - 1].local_end < ranges[j].local_begin
             /\ ~ranges[j].skip /\ ranges[j - 1].skip =>
                  \A i \in 1..(j - 1) : ~ranges[i].skip => ranges[i].local_end < ranges[j].local_begin
  <2>1. j - 1 \in 1..N /\ j \in 1..N
    BY <1>1
  <2>2. Follows(ranges[j - 1], ranges[j])
    BY DEF RightRanges
  <2>3. /\ ranges[j].skip => ranges[j].remote_begin > ranges[j - 1].remote_end
        /\ (ranges[j - 1].skip /\ ~ranges[j].skip) =>
             \A i \in 1..(j - 1) : ranges[i].skip \/
                (ranges[i].local_path = ranges[j].local_path /\ ranges[i].local_end < ranges[j].local_begin)
    BY DEF SkipsInPlace
  <2> QED BY <1>1, <2>1, <2>2, <2>3 DEF Follows
<1>3. 0 \in S
  BY <1>1
<1>4. ASSUME NEW n \in Nat, n \in S
      PROVE  n + 1 \in S
  <2> DEFINE j == n + 1
  <2> SUFFICES ASSUME j \in 1..N
               PROVE  Remotely(j) /\ Locally(j)
    OBVIOUS
  <2>1. CASE n = 0
    BY <2>1
  <2>2. CASE n # 0
    <3>1. j \in 2..N /\ n \in 1..N /\ j - 1 = n /\ \A i \in 1..N : i < j => i = n \/ i < n
      BY <1>1, <2>2
    <3>2. Remotely(n) /\ Locally(n)
      BY <1>4, <3>1
    <3>3. /\ ranges[n].remote_end < ranges[j].remote_begin
          /\ ~ranges[j].skip /\ ~ranges[n].skip => ranges[n].local_end < ranges[j].local_begin
          /\ ~ranges[j].skip /\ ranges[n].skip =>
               \A i \in 1..n : ~ranges[i].skip => ranges[i].local_end < ranges[j].local_begin
      BY <1>2, <3>1
    <3> HIDE DEF j
    <3>4. ASSUME NEW i \in 1..N, i < j
          PROVE  ranges[i].remote_end < ranges[j].remote_begin
      <4>1. CASE i = n
        BY <3>3, <4>1
      <4>2. CASE i < n
        <5>1. ranges[i].remote_end < ranges[n].remote_begin /\ ranges[n].remote_begin <= ranges[n].remote_end
          BY <1>1, <3>1, <3>2, <4>2
        <5>2. ranges[i].remote_end \in Int /\ ranges[n].remote_begin \in Int /\ ranges[n].remote_end \in Int
              /\ ranges[j].remote_begin \in Int
          BY <1>1, <3>1
        <5> QED BY ONLY <3>3, <5>1, <5>2
      <4> QED BY <3>1, <3>4, <4>1, <4>2
    <3>5. ASSUME NEW i \in 1..N, i < j, ~ranges[i].skip, ~ranges[j].skip
          PROVE  ranges[i].local_end < ranges[j].local_begin
      <4>1. i \in 1..n
        BY <3>1, <3>5
      <4>2. CASE ranges[n].skip
        BY <3>3, <3>5, <4>1, <4>2
      <4>3. CASE ~ranges[n].skip
        <5>1. CASE i = n
          BY <3>3, <3>5, <4>3, <5>1
        <5>2. CASE i < n
          <6>1. ranges[i].local_end < ranges[n].local_begin
            BY <3>2, <3>5, <4>3, <5>2
          <6>2. ranges[n].local_begin <= ranges[n].local_end /\ ranges[n].local_end < ranges[j].local_begin
            BY <1>1, <3>1, <3>3, <3>5, <4>3
          <6>3. ranges[i].local_end \in Int /\ ranges[n].local_begin \in Int /\ ranges[n].local_end \in Int
                /\ ranges[j].local_begin \in Int
            BY <1>1, <3>1
          <6> QED BY ONLY <6>1, <6>2, <6>3
        <5> QED BY <3>1, <3>5, <5>1, <5>2
      <4> QED BY <4>2, <4>3
    <3> QED BY <3>4, <3>5
  <2> QED BY <2>1, <2>2
<1> HIDE DEF S
<1>5. \A n \in Nat : n \in S
  <2> SUFFICES ASSUME NEW n \in Nat PROVE n \in S
    OBVIOUS
  <2> QED BY <1>3, <1>4, Induction
<1>6. \A j \in 1..N : Remotely(j) /\ Locally(j)
  BY <1>5 DEF S
<1> QED BY <1>6

\* What is found for a remote line.
LEMMA RemoteLineFound ==
  ASSUME NEW ranges \in Seq(MapRange), RightRanges(ranges), SkipsInPlace(ranges), NEW line \in Int
  PROVE  LET answer == InRanges(ranges, line, RemoteSpans(ranges), LocalSpans(ranges)) IN
         /\ \A i \in 1..Len(ranges) : line \in ranges[i].remote_begin..ranges[i].remote_end =>
              answer = IF ranges[i].skip THEN SkippedPath
                       ELSE Answer("lines", ranges[i].local_path,
                                   IF ranges[i].local_begin = ranges[i].local_end THEN ranges[i].local_begin
                                   ELSE line - ranges[i].remote_begin + ranges[i].local_begin)
         /\ (\A i \in 1..Len(ranges) : line \notin ranges[i].remote_begin..ranges[i].remote_end) =>
              answer = UnknownPath
<1> DEFINE N == Len(ranges)
           from == RemoteSpans(ranges)   to == LocalSpans(ranges)
<1>1. /\ Len(from) = N /\ N \in Nat
      /\ \A i \in 1..N : /\ from[i] = <<ranges[i].remote_begin, ranges[i].remote_end>>
                         /\ to[i] = <<ranges[i].local_begin, ranges[i].local_end>>
  BY DEF RemoteSpans, LocalSpans
<1> HIDE DEF from, to
<1>2. \A i \in 1..N : /\ from[i][1] = ranges[i].remote_begin /\ from[i][2] = ranges[i].remote_end
                      /\ to[i][1] = ranges[i].local_begin /\ to[i][2] = ranges[i].local_end
  BY <1>1
<1>3. \A i \in 1..N : ranges[i].remote_begin \in Int /\ ranges[i].remote_end \in Int
                      /\ ranges[i].remote_begin <= ranges[i].remote_end
  <2>1. \A i \in 1..N : ranges[i] \in MapRange /\ RightRange(ranges[i])
    BY DEF RightRanges
  <2> QED BY <2>1 DEF MapRange, RightRange
<1>4. Increasing(from)
  <2>1. \A i, j \in 1..N : i < j => ranges[i].remote_end < ranges[j].remote_begin
    BY RangesFollow
  <2>2. Len(from) = N
    BY <1>1, Zenon
  <2>3. \A i \in 1..N : from[i][1] \in Int /\ from[i][2] \in Int /\ from[i][1] <= from[i][2]
    BY <1>2, <1>3, Zenon
  <2>4. \A i, j \in 1..N : i < j => from[i][2] < from[j][1]
    BY <1>2, <2>1, Zenon
  <2> QED BY <2>2, <2>3, <2>4, Zenon DEF Increasing
<1>5. /\ \A i \in 1..N : line \in ranges[i].remote_begin..ranges[i].remote_end => Search(from, line) = i
      /\ (\A i \in 1..N : line \notin ranges[i].remote_begin..ranges[i].remote_end) => Search(from, line) = 0
  <2>1. /\ \A i \in 1..Len(from) : line \in from[i][1]..from[i][2] => Search(from, line) = i
        /\ (\A i \in 1..Len(from) : line \notin from[i][1]..from[i][2]) => Search(from, line) = 0
    BY <1>1, <1>4, SearchFinds
  <2> QED BY <1>1, <1>2, <2>1
<1>6. ASSUME NEW i \in 1..N, line \in ranges[i].remote_begin..ranges[i].remote_end
      PROVE  InRanges(ranges, line, from, to) =
               IF ranges[i].skip THEN SkippedPath
               ELSE Answer("lines", ranges[i].local_path,
                           IF ranges[i].local_begin = ranges[i].local_end THEN ranges[i].local_begin
                           ELSE line - ranges[i].remote_begin + ranges[i].local_begin)
  <2>1. Search(from, line) = i /\ i # 0
    BY <1>5, <1>6
  <2>2. Counterpart(line, from[i], to[i]) =
          IF ranges[i].local_begin = ranges[i].local_end THEN ranges[i].local_begin
          ELSE line - ranges[i].remote_begin + ranges[i].local_begin
    BY <1>2 DEF Counterpart
  <2> QED BY <2>1, <2>2 DEF InRanges
<1>7. ASSUME \A i \in 1..N : line \notin ranges[i].remote_begin..ranges[i].remote_end
      PROVE  InRanges(ranges, line, from, to) = UnknownPath
  BY <1>5, <1>7 DEF InRanges
<1> QED BY <1>6, <1>7, Zenon DEF from, to

\* The ranges of a mapping in the other table.
InReverse(ranges, path) ==
  [k \in 1..Len(Kept(ranges)) |-> [Kept(ranges)[k] EXCEPT !.local_path = path]]

LEMMA LocalLineFound ==
  ASSUME NEW ranges \in Seq(MapRange), RightRanges(ranges), SkipsInPlace(ranges), NEW line \in Int,
         NEW path, NEW back, back = InReverse(ranges, path),
         NEW i \in 1..Len(ranges), ~ranges[i].skip, line \in ranges[i].local_begin..ranges[i].local_end
  PROVE  InRanges(back, line, LocalSpans(back), RemoteSpans(back)) =
           Answer("lines", path, IF ranges[i].remote_begin = ranges[i].remote_end THEN ranges[i].remote_begin
                                 ELSE line - ranges[i].local_begin + ranges[i].remote_begin)
<1> DEFINE kept == Kept(ranges)
           N == Len(kept)
           from == LocalSpans(back)   to == RemoteSpans(back)
<1>1. kept \in Seq(MapRange) /\ N \in Nat /\ \E p : KeptPlaces(ranges, Len(ranges), kept, p)
  BY KeptRanges DEF KeptOf
<1>2. PICK places : KeptPlaces(ranges, Len(ranges), kept, places)
  BY <1>1
<1>3. back = [k \in 1..N |-> [kept[k] EXCEPT !.local_path = path]]
  BY Zenon DEF InReverse
<1> HIDE DEF kept
<1>4. \A k \in 1..N : places[k] \in 1..Len(ranges) /\ kept[k] = ranges[places[k]] /\ ~ranges[places[k]].skip
  BY <1>2 DEF KeptPlaces
<1>5. Len(back) = N /\ DOMAIN back = 1..N
  BY <1>1, <1>3
<1>6. \A k \in 1..N : /\ back[k].remote_begin = kept[k].remote_begin /\ back[k].remote_end = kept[k].remote_end
                      /\ back[k].local_begin = kept[k].local_begin /\ back[k].local_end = kept[k].local_end
                      /\ back[k].skip = kept[k].skip /\ back[k].local_path = path
  <2> SUFFICES ASSUME NEW k \in 1..N
               PROVE  /\ back[k].remote_begin = kept[k].remote_begin /\ back[k].remote_end = kept[k].remote_end
                      /\ back[k].local_begin = kept[k].local_begin /\ back[k].local_end = kept[k].local_end
                      /\ back[k].skip = kept[k].skip /\ back[k].local_path = path
    BY Zenon
  <2>1. back[k] = [kept[k] EXCEPT !.local_path = path] /\ kept[k] \in MapRange
    BY <1>1, <1>3
  <2> DEFINE r == kept[k]
  <2> HIDE DEF r
  <2>2. r \in MapRange => /\ [r EXCEPT !.local_path = path].remote_begin = r.remote_begin
                          /\ [r EXCEPT !.local_path = path].remote_end = r.remote_end
                          /\ [r EXCEPT !.local_path = path].local_begin = r.local_begin
                          /\ [r EXCEPT !.local_path = path].local_end = r.local_end
                          /\ [r EXCEPT !.local_path = path].skip = r.skip
                          /\ [r EXCEPT !.local_path = path].local_path = path
    BY DEF MapRange
  <2> QED BY <2>1, <2>2 DEF r
<1>7. /\ Len(from) = N
      /\ \A k \in 1..N : /\ from[k] = <<back[k].local_begin, back[k].local_end>>
                         /\ to[k] = <<back[k].remote_begin, back[k].remote_end>>
  BY <1>1, <1>5 DEF RemoteSpans, LocalSpans
<1> HIDE DEF from, to
<1>8. \A k \in 1..N : /\ from[k][1] = ranges[places[k]].local_begin /\ from[k][2] = ranges[places[k]].local_end
                      /\ to[k][1] = ranges[places[k]].remote_begin /\ to[k][2] = ranges[places[k]].remote_end
  BY <1>4, <1>6, <1>7
<1>9. Increasing(from)
  <2>1. \A k \in 1..N : from[k][1] \in Int /\ from[k][2] \in Int /\ from[k][1] <= from[k][2]
    <3>1. \A j \in 1..Len(ranges) : ranges[j] \in MapRange /\ RightRange(ranges[j])
      BY DEF RightRanges
    <3>2. \A j \in 1..Len(ranges) : ~ranges[j].skip => ranges[j].local_begin \in Int /\ ranges[j].local_end \in Int
                                                       /\ ranges[j].local_begin <= ranges[j].local_end
      BY <3>1 DEF MapRange, RightRange
    <3> QED BY <1>4, <1>8, <3>2
  <2>2. ASSUME NEW j \in 1..N, NEW k \in 1..N, j < k
        PROVE  from[j][2] < from[k][1]
    <3>1. places[j] < places[k]
      BY <1>2, <2>2 DEF KeptPlaces
    <3> QED BY <1>4, <1>8, <3>1, RangesFollow
  <2> QED BY <1>7, <2>1, <2>2 DEF Increasing
<1>10. PICK k \in 1..N : places[k] = i
  BY <1>2 DEF KeptPlaces
<1>11. Search(from, line) = k /\ k # 0
  <2>1. line \in from[k][1]..from[k][2]
    BY <1>8, <1>10
  <2> QED BY <1>1, <1>7, <1>9, <2>1, SearchFinds
<1>12. ~back[k].skip /\ back[k].local_path = path
  BY <1>4, <1>6
<1>13. Counterpart(line, from[k], to[k]) =
         IF ranges[i].remote_begin = ranges[i].remote_end THEN ranges[i].remote_begin
         ELSE line - ranges[i].local_begin + ranges[i].remote_begin
  BY <1>8, <1>10 DEF Counterpart
<1>14. InRanges(back, line, from, to) = Answer("lines", path, Counterpart(line, from[k], to[k]))
  BY <1>11, <1>12 DEF InRanges
<1> QED BY <1>13, <1>14 DEF from, to

LEMMA FailingParser ==
  ASSUME NEW s, RightParser(s)
  PROVE  RightParser(Failing(s)) /\ Failing(s).failed /\ Failing(s).file_rules = s.file_rules
<1> DEFINE f == s.failed   b == s.remote_prefix   c == s.local_prefix   d == s.file_rules
           u == [failed |-> TRUE, remote_prefix |-> b, local_prefix |-> c, file_rules |-> d]
<1>1. s = [failed |-> f, remote_prefix |-> b, local_prefix |-> c, file_rules |-> d]
      /\ f \in BOOLEAN /\ b \in Path /\ c \in Path /\ RightRules(d)
  BY DEF RightParser
<1> HIDE DEF f, b, c, d
<1>2. [s EXCEPT !.failed = TRUE] = u
  <2> DEFINE yes == TRUE
  <2>1. yes \in BOOLEAN
    OBVIOUS
  <2> HIDE DEF yes
  <2>2. [s EXCEPT !.failed = yes] = [failed |-> yes, remote_prefix |-> b, local_prefix |-> c, file_rules |-> d]
    BY ONLY <1>1, <2>1
  <2> QED BY <2>2 DEF yes
<1>3. RightParser(u) /\ u.failed /\ u.file_rules = d
  BY <1>1 DEF RightParser
<1> HIDE DEF u
<1>4. Failing(s) = u
  BY <1>2, Zenon DEF Failing
<1> QED BY <1>3, <1>4, Zenon DEF d

\* A line that is read.
RangeRead(s, line, rules) ==
  IF line.kind = "rule" /\ rules[Remote(s, line).path].type = "lines"
  THEN {[path |-> Remote(s, line).path, range |-> NewRange(Remote(s, line), Local(s, line))]} ELSE {}

LEMMA LineRead ==
  ASSUME NEW s, RightParser(s), ~s.failed, NEW line \in MapLine, NEW t, t = ReadMapLine(s, line)
  PROVE  /\ RightParser(t)
         /\ ~t.failed => RangesOf(t.file_rules) = RangesOf(s.file_rules) \cup RangeRead(s, line, t.file_rules)
<1> DEFINE f == s.failed   b == s.remote_prefix   c == s.local_prefix   d == s.file_rules
<1>1. s = [failed |-> f, remote_prefix |-> b, local_prefix |-> c, file_rules |-> d]
      /\ f \in BOOLEAN /\ b \in Path /\ c \in Path /\ RightRules(d)
  BY DEF RightParser
<1> HIDE DEF f, b, c, d
<1>2. CASE t = Failing(s)
  BY <1>2, FailingParser
<1>3. CASE t = s /\ line.kind # "rule"
  BY <1>3 DEF RangeRead
<1>4. CASE line.kind = "remote_prefix" /\ t = [s EXCEPT !.remote_prefix = line.path]
  <2>1. line.path \in Path
    BY <1>4 DEF MapLine
  <2> DEFINE u == [failed |-> f, remote_prefix |-> line.path, local_prefix |-> c, file_rules |-> d]
  <2>2. RightParser(u) /\ u.file_rules = d
    BY <1>1, <2>1 DEF RightParser
  <2>3. [s EXCEPT !.remote_prefix = line.path] = u
    BY ONLY <1>1
  <2> HIDE DEF u
  <2>4. RightParser(t) /\ t.file_rules = s.file_rules
    BY <1>4, <2>2, <2>3, Zenon DEF d
  <2> QED BY <1>4, <2>4 DEF RangeRead
<1>5. CASE line.kind = "local_prefix" /\ t = [s EXCEPT !.local_prefix = line.path]
  <2>1. line.path \in Path
    BY <1>5 DEF MapLine
  <2> DEFINE u == [failed |-> f, remote_prefix |-> b, local_prefix |-> line.path, file_rules |-> d]
  <2>2. RightParser(u) /\ u.file_rules = d
    BY <1>1, <2>1 DEF RightParser
  <2>3. [s EXCEPT !.local_prefix = line.path] = u
    BY ONLY <1>1
  <2> HIDE DEF u
  <2>4. RightParser(t) /\ t.file_rules = s.file_rules
    BY <1>5, <2>2, <2>3, Zenon DEF d
  <2> QED BY <1>5, <2>4 DEF RangeRead
<1>6. CASE line.kind = "rule" /\ t = AddRule(s, line) /\ t # Failing(s)
  <2>1. /\ RightParser(t)
        /\ RangesOf(t.file_rules) =
             RangesOf(s.file_rules)
               \cup IF t.file_rules[Remote(s, line).path].type = "lines"
                    THEN {[path |-> Remote(s, line).path, range |-> NewRange(Remote(s, line), Local(s, line))]} ELSE {}
    BY <1>6, RuleAdded, Zenon
  <2> QED BY <1>6, <2>1, Zenon DEF RangeRead
<1>7. line.kind \in {"rule", "remote_prefix", "local_prefix", "nothing", "garbage"}
  BY DEF MapLine
<1>8. \/ t = Failing(s)
      \/ t = s /\ line.kind # "rule"
      \/ line.kind = "remote_prefix" /\ t = [s EXCEPT !.remote_prefix = line.path]
      \/ line.kind = "local_prefix" /\ t = [s EXCEPT !.local_prefix = line.path]
      \/ line.kind = "rule" /\ t = AddRule(s, line)
  BY <1>7 DEF ReadMapLine
<1> QED BY <1>2, <1>3, <1>4, <1>5, <1>6, <1>8

\* The invariant of the path maps.
MapFilesInv == map_files \in Seq(Seq(MapLine)) /\ unread \in Seq(MapLine) /\ reversed \in Nat
ParserInv ==
  /\ RightParser(map_parser)
  /\ ~map_parser.failed => rules_read = RangesOf(map_parser.file_rules)
TablesInv ==
  LET there == maps.remote_to_local   back == maps.local_to_remote IN
  /\ maps = [remote_to_local |-> there, local_to_remote |-> back]
  /\ RightRules(there)
  /\ \A q \in DOMAIN back : back[q].type = "lines" =>
       \E p \in DOMAIN there : there[p].type = "lines" /\ back[q] = Reversed(there[p])
BeforeInv ==
  /\ \A p \in DOMAIN maps_before.remote_to_local :
       p \in DOMAIN maps.remote_to_local /\ maps.remote_to_local[p] = maps_before.remote_to_local[p]
  /\ DOMAIN maps.remote_to_local \subseteq DOMAIN maps_before.remote_to_local \cup PathsCopied(copied)
  /\ DOMAIN maps.local_to_remote \subseteq
       DOMAIN maps_before.local_to_remote \cup {LocalPath(copied[i]) : i \in 1..reversed}
CopiedInv ==
  /\ copied \in Seq(Mapping) /\ reversed <= Len(copied)
  /\ \A i \in 1..Len(copied) : LET p == copied[i].remote_path IN
       /\ p \in DOMAIN map_parser.file_rules /\ map_parser.file_rules[p] = copied[i]
       /\ p \in DOMAIN maps.remote_to_local /\ maps.remote_to_local[p] = copied[i]
  /\ \A i, j \in 1..Len(copied) : copied[i].remote_path = copied[j].remote_path => i = j
ReversedInv ==
  \A i \in 1..reversed : IsReversed(copied[i]) =>
    /\ LocalPath(copied[i]) \in DOMAIN maps.local_to_remote
    /\ \E j \in 1..Len(copied) : /\ LocalPath(copied[j]) = LocalPath(copied[i])
                                 /\ maps.local_to_remote[LocalPath(copied[i])] = Reversed(copied[j])
AllCopied == DOMAIN map_parser.file_rules \subseteq PathsCopied(copied)
StepInv ==
  /\ map_step \in {"idle", "reading", "copying", "reversing"}
  /\ map_step # "idle" => ~map_parser.failed
  /\ map_step = "reading" => copied = <<>> /\ maps = maps_before
  /\ map_step \in {"reading", "copying"} => reversed = 0
  /\ map_step = "reversing" => AllCopied /\ reversed < Len(copied)
  /\ map_step = "idle" => IF map_parser.failed THEN maps = maps_before \/ RulesClash
                          ELSE AllCopied /\ reversed = Len(copied)
PathMapsInv ==
  MapFilesInv /\ ParserInv /\ TablesInv /\ BeforeInv /\ CopiedInv /\ ReversedInv /\ StepInv

LEMMA NoRules ==
  /\ DOMAIN <<>> = {} /\ RightRules(<<>>) /\ RangesOf(<<>>) = {}
  /\ ParserState.file_rules = <<>> /\ RightParser(ParserState) /\ ~ParserState.failed
<1>1. DOMAIN <<>> = {}
  OBVIOUS
<1>2. <<>> = [p \in DOMAIN <<>> |-> <<>>[p]]
  BY <1>1
<1>3. RightRules(<<>>) /\ RangesOf(<<>>) = {}
  BY <1>1, <1>2, Zenon DEF RightRules, RangesOf
<1> QED BY <1>1, <1>3 DEF ParserState, RightParser, Path

LEMMA PathMapsStart == PathMapsInit => PathMapsInv
<1> SUFFICES ASSUME PathMapsInit PROVE PathMapsInv
  OBVIOUS
<1> USE DEF PathMapsInit, NoPathMaps
<1>1. MapFilesInv
  BY MapsAssumption DEF MapFilesInv
<1>2. ParserInv
  BY NoRules DEF ParserInv
<1>3. maps.remote_to_local = <<>> /\ maps.local_to_remote = <<>>
  BY DEF NoMaps
<1>4. TablesInv
  BY <1>3, NoRules DEF TablesInv, NoMaps
<1>5. BeforeInv
  BY <1>3, NoRules DEF BeforeInv
<1>6. CopiedInv /\ ReversedInv
  BY DEF CopiedInv, ReversedInv
<1>7. StepInv
  BY NoRules DEF StepInv, AllCopied
<1> QED BY <1>1, <1>2, <1>4, <1>5, <1>6, <1>7 DEF PathMapsInv

LEMMA ParseFileKeeps ==
  ASSUME PathMapsInv, ParseFile
  PROVE  PathMapsInv'
<1> USE DEF ParseFile
<1>1. MapFilesInv'
  <2>1. map_files \in Seq(Seq(MapLine)) /\ map_files # <<>>
    BY DEF PathMapsInv, MapFilesInv
  <2>2. Head(map_files) \in Seq(MapLine) /\ Tail(map_files) \in Seq(Seq(MapLine))
    BY <2>1
  <2> QED BY <2>2 DEF MapFilesInv
<1>2. ParserInv'
  BY NoRules DEF ParserInv
<1>3. TablesInv'
  BY Zenon DEF PathMapsInv, TablesInv
<1>4. BeforeInv'
  BY Zenon DEF BeforeInv
<1>5. CopiedInv' /\ ReversedInv'
  BY DEF CopiedInv, ReversedInv
<1>6. StepInv'
  BY NoRules DEF StepInv
<1> QED BY <1>1, <1>2, <1>3, <1>4, <1>5, <1>6 DEF PathMapsInv

LEMMA ReadLineKeeps ==
  ASSUME PathMapsInv, ReadLine
  PROVE  PathMapsInv'
<1> DEFINE line == Head(unread)
<1>1. /\ map_step = "reading" /\ unread # <<>> /\ unread' = Tail(unread)
      /\ map_parser' = ReadMapLine(map_parser, line)
      /\ map_step' = IF map_parser'.failed THEN "idle" ELSE "reading"
      /\ UNCHANGED <<map_files, maps, copied, reversed, maps_before>>
  BY Zenon DEF ReadLine
<1>2. rules_read' =
        IF /\ line.kind = "rule" /\ ~map_parser'.failed
           /\ map_parser'.file_rules[Remote(map_parser, line).path].type = "lines"
        THEN rules_read \cup {[path |-> Remote(map_parser, line).path,
                               range |-> NewRange(Remote(map_parser, line), Local(map_parser, line))]} ELSE rules_read
  BY Zenon DEF ReadLine
<1>3. MapFilesInv /\ line \in MapLine /\ Tail(unread) \in Seq(MapLine)
  BY <1>1 DEF PathMapsInv, MapFilesInv
<1> HIDE DEF line
<1>4. ParserInv /\ ~map_parser.failed /\ copied = <<>> /\ maps = maps_before /\ reversed = 0
  BY <1>1 DEF PathMapsInv, StepInv
<1>5. MapFilesInv'
  BY <1>1, <1>3 DEF MapFilesInv
<1>6. ParserInv'
  <2>1. /\ RightParser(map_parser')
        /\ ~map_parser'.failed =>
             RangesOf(map_parser'.file_rules) =
               RangesOf(map_parser.file_rules) \cup RangeRead(map_parser, line, map_parser'.file_rules)
    BY <1>1, <1>3, <1>4, LineRead, Zenon DEF ParserInv
  <2>2. ~map_parser'.failed => rules_read' = rules_read \cup RangeRead(map_parser, line, map_parser'.file_rules)
    BY <1>2 DEF RangeRead
  <2> QED BY <1>4, <2>1, <2>2 DEF ParserInv
<1>7. TablesInv'
  BY <1>1, Zenon DEF PathMapsInv, TablesInv
<1>8. BeforeInv'
  BY <1>1, <1>4, Zenon DEF BeforeInv
<1>9. CopiedInv' /\ ReversedInv'
  BY <1>1, <1>4 DEF CopiedInv, ReversedInv
<1>10. StepInv'
  BY <1>1, <1>4 DEF StepInv
<1> QED BY <1>5, <1>6, <1>7, <1>8, <1>9, <1>10 DEF PathMapsInv

LEMMA FileEndsKeeps ==
  ASSUME PathMapsInv, FileEnds
  PROVE  PathMapsInv'
<1>1. /\ map_step = "reading"
      /\ \/ map_parser' = Failing(map_parser) /\ map_step' = "idle"
         \/ map_step' = "copying" /\ map_parser' = map_parser
      /\ UNCHANGED <<map_files, unread, maps, copied, reversed, maps_before, rules_read>>
  BY Zenon DEF FileEnds
<1>2. ParserInv /\ ~map_parser.failed /\ copied = <<>> /\ maps = maps_before /\ reversed = 0
  BY <1>1 DEF PathMapsInv, StepInv
<1>3. MapFilesInv'
  BY <1>1 DEF PathMapsInv, MapFilesInv
<1>4. ParserInv' /\ (map_parser' # map_parser => map_parser'.failed)
  <2>1. CASE map_parser' = Failing(map_parser)
    <3>1. RightParser(map_parser') /\ map_parser'.failed
      BY <1>2, <2>1, FailingParser DEF ParserInv
    <3> QED BY <3>1 DEF ParserInv
  <2>2. CASE map_parser' = map_parser
    BY <1>1, <1>2, <2>2 DEF ParserInv
  <2> QED BY <1>1, <2>1, <2>2
<1>5. TablesInv'
  BY <1>1, Zenon DEF PathMapsInv, TablesInv
<1>6. BeforeInv'
  BY <1>1, <1>2, Zenon DEF BeforeInv
<1>7. CopiedInv' /\ ReversedInv'
  BY <1>1, <1>2 DEF CopiedInv, ReversedInv
<1>8. StepInv'
  <2>1. map_parser' = Failing(map_parser) => map_parser'.failed
    BY <1>2, FailingParser DEF ParserInv
  <2> QED BY <1>1, <1>2, <2>1 DEF StepInv
<1> QED BY <1>3, <1>4, <1>5, <1>6, <1>7, <1>8 DEF PathMapsInv

\* A rule that is copied, when its path is not mapped yet.
LEMMA RuleCopied ==
  ASSUME PathMapsInv, map_step = "copying",
         NEW path \in DOMAIN map_parser.file_rules \ PathsCopied(copied),
         NEW mapping, mapping = map_parser.file_rules[path], path \notin DOMAIN maps.remote_to_local,
         maps' = [maps EXCEPT !.remote_to_local = Put(@, path, mapping)], copied' = Append(copied, mapping),
         map_step' = IF DOMAIN map_parser.file_rules \subseteq PathsCopied(copied') THEN "reversing" ELSE "copying",
         UNCHANGED <<map_parser, map_files, unread, reversed, maps_before, rules_read>>
  PROVE  PathMapsInv'
<1> DEFINE there == maps.remote_to_local   back == maps.local_to_remote
           rules == map_parser.file_rules
           new == Put(there, path, mapping)
<1>1. /\ MapFilesInv /\ ParserInv /\ TablesInv /\ BeforeInv /\ CopiedInv
      /\ reversed = 0 /\ ~map_parser.failed
  BY DEF PathMapsInv, StepInv
<1>2. RightMapping(mapping, path)
  BY <1>1 DEF ParserInv, RightParser, RightRules
<1>3. maps = [remote_to_local |-> there, local_to_remote |-> back] /\ RightRules(there)
      /\ \A q \in DOMAIN back : back[q].type = "lines" =>
           \E p \in DOMAIN there : there[p].type = "lines" /\ back[q] = Reversed(there[p])
  BY <1>1, Zenon DEF TablesInv
<1>4. maps' = [remote_to_local |-> new, local_to_remote |-> back]
  <2> HIDE DEF there, back
  <2>1. maps = [remote_to_local |-> there, local_to_remote |-> back]
    BY <1>3
  <2>2. maps' = [maps EXCEPT !.remote_to_local = new]
    BY DEF there
  <2> HIDE DEF new
  <2> QED BY ONLY <2>1, <2>2
<1>5. maps'.remote_to_local = new /\ maps'.local_to_remote = back
  BY <1>4
<1>6. /\ DOMAIN new = DOMAIN there \cup {path} /\ new[path] = mapping
      /\ \A p \in DOMAIN there : p # path /\ new[p] = there[p]
  BY DEF Put
<1>7. RightRules(new)
  BY <1>2, <1>3, RulesStayRight, Zenon
<1>8. MapFilesInv' /\ ParserInv'
  BY <1>1 DEF MapFilesInv, ParserInv
<1> HIDE DEF there, back, new, rules
<1>9. TablesInv'
  <2>1. \A q \in DOMAIN back : back[q].type = "lines" =>
          \E p \in DOMAIN new : new[p].type = "lines" /\ back[q] = Reversed(new[p])
    BY <1>3, <1>6
  <2>2. /\ maps' = [remote_to_local |-> maps'.remote_to_local, local_to_remote |-> maps'.local_to_remote]
        /\ RightRules(maps'.remote_to_local)
    BY <1>4, <1>5, <1>7
  <2> QED BY <1>5, <2>1, <2>2 DEF TablesInv
<1>10. /\ copied \in Seq(Mapping) /\ Len(copied) \in Nat /\ mapping \in Mapping /\ mapping.remote_path = path
       /\ copied' \in Seq(Mapping) /\ Len(copied') = Len(copied) + 1 /\ copied'[Len(copied) + 1] = mapping
       /\ \A i \in 1..Len(copied) : copied'[i] = copied[i]
       /\ \A i \in 1..Len(copied') : i \in 1..Len(copied) \/ i = Len(copied) + 1
       /\ \A i \in 1..Len(copied) : i \in 1..Len(copied')
       /\ Len(copied) + 1 \in 1..Len(copied')
  BY <1>1, <1>2 DEF CopiedInv, RightMapping
<1>11. PathsCopied(copied') = PathsCopied(copied) \cup {path}
  BY <1>10 DEF PathsCopied
<1>12. BeforeInv'
  <2>1. /\ \A p \in DOMAIN maps_before.remote_to_local : p \in DOMAIN there /\ there[p] = maps_before.remote_to_local[p]
        /\ DOMAIN there \subseteq DOMAIN maps_before.remote_to_local \cup PathsCopied(copied)
        /\ DOMAIN back \subseteq DOMAIN maps_before.local_to_remote \cup {LocalPath(copied[i]) : i \in 1..reversed}
    BY <1>1, Zenon DEF BeforeInv, there, back
  <2>2. \A p \in DOMAIN maps_before.remote_to_local : p \in DOMAIN new /\ new[p] = maps_before.remote_to_local[p]
    BY <1>6, <2>1
  <2>3. DOMAIN new \subseteq DOMAIN maps_before.remote_to_local \cup PathsCopied(copied')
    BY <1>6, <1>11, <2>1
  <2>4. DOMAIN back \subseteq DOMAIN maps_before.local_to_remote
    BY <1>1, <2>1
  <2> QED BY <1>5, <2>2, <2>3, <2>4 DEF BeforeInv
<1>13. CopiedInv'
  <2>1. /\ \A i \in 1..Len(copied) : LET p == copied[i].remote_path IN
             p \in DOMAIN rules /\ rules[p] = copied[i] /\ p \in DOMAIN there /\ there[p] = copied[i]
        /\ \A i, j \in 1..Len(copied) : copied[i].remote_path = copied[j].remote_path => i = j
    BY <1>1, Zenon DEF CopiedInv, there, rules
  <2>2. \A i \in 1..Len(copied) : copied[i].remote_path # path
    BY DEF PathsCopied
  <2>3. path \in DOMAIN rules /\ rules[path] = mapping
    BY DEF rules
  <2>4. \A i \in 1..Len(copied') : LET p == copied'[i].remote_path IN
             p \in DOMAIN rules /\ rules[p] = copied'[i] /\ p \in DOMAIN new /\ new[p] = copied'[i]
    BY <1>6, <1>10, <2>1, <2>3
  <2>5. \A i, j \in 1..Len(copied') : copied'[i].remote_path = copied'[j].remote_path => i = j
    BY <1>10, <2>1, <2>2
  <2>6. reversed' <= Len(copied')
    BY <1>1, <1>10
  <2>7. map_parser'.file_rules = rules
    BY DEF rules
  <2> QED BY <1>5, <1>10, <2>4, <2>5, <2>6, <2>7 DEF CopiedInv
<1>14. ReversedInv'
  BY <1>1 DEF ReversedInv
<1>15. StepInv'
  BY <1>1, <1>10 DEF StepInv, AllCopied
<1> QED BY <1>8, <1>9, <1>12, <1>13, <1>14, <1>15 DEF PathMapsInv

\* A file fails when its rules are copied: two of the rules clash.
LEMMA CopyingFails ==
  ASSUME PathMapsInv, RulesClash, map_parser' = Failing(map_parser), map_step' = "idle",
         UNCHANGED <<map_files, unread, maps, copied, reversed, maps_before, rules_read>>
  PROVE  PathMapsInv'
<1>1. RightParser(map_parser') /\ map_parser'.failed /\ map_parser'.file_rules = map_parser.file_rules
  BY FailingParser DEF PathMapsInv, ParserInv
<1>2. MapFilesInv' /\ ParserInv'
  BY <1>1 DEF PathMapsInv, MapFilesInv, ParserInv
<1>3. TablesInv'
  BY Zenon DEF PathMapsInv, TablesInv
<1>4. BeforeInv'
  BY Zenon DEF PathMapsInv, BeforeInv
<1>5. CopiedInv'
  <2>1. CopiedInv
    BY Zenon DEF PathMapsInv
  <2> QED BY ONLY <1>1, <2>1, UNCHANGED <<copied, reversed, maps>>, Zenon DEF CopiedInv
<1>6. ReversedInv'
  BY Zenon DEF PathMapsInv, ReversedInv
<1>7. RulesClash'
  BY <1>1, Zenon DEF RulesClash, FileRules
<1>8. StepInv'
  BY <1>1, <1>7 DEF StepInv
<1> QED BY <1>2, <1>3, <1>4, <1>5, <1>6, <1>8 DEF PathMapsInv

LEMMA CopyRuleKeeps ==
  ASSUME PathMapsInv, CopyRule
  PROVE  PathMapsInv'
<1>1. PICK path \in DOMAIN map_parser.file_rules \ PathsCopied(copied) :
        LET mapping == map_parser.file_rules[path] IN
        /\ map_step = "copying"
        /\ IF mapping.remote_path \in DOMAIN maps.remote_to_local
           THEN /\ map_parser' = Failing(map_parser) /\ map_step' = "idle"
                /\ UNCHANGED <<maps, copied>>
           ELSE /\ maps' = [maps EXCEPT !.remote_to_local = Put(@, mapping.remote_path, mapping)]
                /\ copied' = Append(copied, mapping)
                /\ map_step' = IF DOMAIN map_parser.file_rules \subseteq PathsCopied(copied')
                               THEN "reversing" ELSE "copying"
                /\ UNCHANGED map_parser
        /\ UNCHANGED <<map_files, unread, reversed, maps_before, rules_read>>
  BY Zenon DEF CopyRule
<1> DEFINE mapping == map_parser.file_rules[path]
<1>2. mapping.remote_path = path
  BY DEF PathMapsInv, ParserInv, RightParser, RightRules, RightMapping
<1> HIDE DEF mapping
<1>3. CASE path \in DOMAIN maps.remote_to_local
  <2>1. RulesClash
    <3>1. mapping \in FileRules
      BY DEF FileRules, mapping
    <3>2. path \in DOMAIN maps_before.remote_to_local
      BY <1>3 DEF PathMapsInv, BeforeInv
    <3> QED BY <1>2, <3>1, <3>2, Zenon DEF RulesClash
  <2>2. /\ map_parser' = Failing(map_parser) /\ map_step' = "idle"
        /\ UNCHANGED <<map_files, unread, maps, copied, reversed, maps_before, rules_read>>
    BY <1>1, <1>2, <1>3 DEF mapping
  <2> QED BY <2>1, <2>2, CopyingFails
<1>4. CASE path \notin DOMAIN maps.remote_to_local
  <2>1. /\ map_step = "copying" /\ maps' = [maps EXCEPT !.remote_to_local = Put(@, path, mapping)]
        /\ copied' = Append(copied, mapping)
        /\ map_step' = IF DOMAIN map_parser.file_rules \subseteq PathsCopied(copied') THEN "reversing" ELSE "copying"
        /\ UNCHANGED <<map_parser, map_files, unread, reversed, maps_before, rules_read>>
    BY <1>1, <1>2, <1>4, Zenon DEF mapping
  <2>2. mapping = map_parser.file_rules[path]
    BY DEF mapping
  <2> QED BY <1>4, <2>1, <2>2, RuleCopied, Zenon
<1> QED BY <1>3, <1>4

\* What the reverse of a mapping keeps.
LEMMA ReverseOf ==
  ASSUME NEW m \in Mapping
  PROVE  /\ Reversed(m).type = m.type /\ Reversed(m).remote_path = m.remote_path
         /\ m.type = "lines" => Reversed(m).line_ranges = InReverse(m.line_ranges, m.remote_path)
<1> DEFINE kept == Kept(m.line_ranges)
           path == IF kept = <<>> THEN <<>> ELSE kept[Len(kept)].local_path
           turned == [i \in 1..Len(kept) |-> [kept[i] EXCEPT !.local_path = m.remote_path]]
           f == m.type   b == m.skip   c == m.remote_path
<1>1. Reversed(m) = IF m.type # "lines" THEN m
                    ELSE [m EXCEPT !.local_path = path, !.line_ranges = turned]
  BY Zenon DEF Reversed
<1>2. turned = InReverse(m.line_ranges, m.remote_path)
  BY Zenon DEF InReverse
<1>3. m = [type |-> f, skip |-> b, remote_path |-> c, local_path |-> m.local_path, line_ranges |-> m.line_ranges]
  BY DEF Mapping
<1> DEFINE d == m.local_path   e == m.line_ranges
<1>4. m = [type |-> f, skip |-> b, remote_path |-> c, local_path |-> d, line_ranges |-> e]
  BY <1>3
<1> HIDE DEF path, turned, f, b, c, d, e
<1> DEFINE n == [m EXCEPT !.local_path = path]
<1>5. n = [type |-> f, skip |-> b, remote_path |-> c, local_path |-> path, line_ranges |-> e]
  BY ONLY <1>4
<1> HIDE DEF n
<1>6. [n EXCEPT !.line_ranges = turned]
        = [type |-> f, skip |-> b, remote_path |-> c, local_path |-> path, line_ranges |-> turned]
  BY ONLY <1>5
<1>7. [m EXCEPT !.local_path = path, !.line_ranges = turned]
        = [type |-> f, skip |-> b, remote_path |-> c, local_path |-> path, line_ranges |-> turned]
  BY <1>6, Zenon DEF n
<1>8. CASE m.type = "lines"
  <2>1. Reversed(m) = [type |-> f, skip |-> b, remote_path |-> c, local_path |-> path, line_ranges |-> turned]
    BY <1>1, <1>7, <1>8, Zenon
  <2>2. Reversed(m).type = f /\ Reversed(m).remote_path = c /\ Reversed(m).line_ranges = turned
    BY <2>1
  <2> QED BY <1>2, <2>2, Zenon DEF f, c
<1>9. CASE m.type # "lines"
  BY <1>1, <1>9, Zenon
<1> QED BY <1>8, <1>9

LEMMA CopyRuleReverseKeeps ==
  ASSUME PathMapsInv, CopyRuleReverse
  PROVE  PathMapsInv'
<1> DEFINE there == maps.remote_to_local   back == maps.local_to_remote
           k == reversed + 1
           mapping == copied[k]
           path == LocalPath(mapping)
           new == Put(back, path, Reversed(mapping))
<1>1. /\ map_step = "reversing"
      /\ IF IsReversed(mapping) /\ mapping.type # "lines" /\ path \in DOMAIN back
         THEN /\ map_parser' = Failing(map_parser) /\ map_step' = "idle"
              /\ UNCHANGED <<maps, reversed>>
         ELSE /\ maps' = IF IsReversed(mapping) THEN [maps EXCEPT !.local_to_remote = Put(@, path, Reversed(mapping))]
                         ELSE maps
              /\ reversed' = reversed + 1
              /\ map_step' = IF reversed' = Len(copied) THEN "idle" ELSE "reversing"
              /\ UNCHANGED map_parser
      /\ UNCHANGED <<map_files, unread, copied, maps_before, rules_read>>
  BY Zenon DEF CopyRuleReverse
<1>2. /\ MapFilesInv /\ ParserInv /\ TablesInv /\ BeforeInv /\ CopiedInv /\ ReversedInv
      /\ ~map_parser.failed /\ AllCopied /\ reversed < Len(copied)
  BY <1>1 DEF PathMapsInv, StepInv
<1>3. /\ reversed \in Nat /\ copied \in Seq(Mapping) /\ Len(copied) \in Nat /\ k \in 1..Len(copied)
      /\ \A i \in 1..reversed : i \in 1..Len(copied) /\ i # k
  BY <1>2 DEF MapFilesInv, CopiedInv
<1>4. /\ \A i \in 1..Len(copied) : /\ copied[i].remote_path \in DOMAIN map_parser.file_rules
                                   /\ map_parser.file_rules[copied[i].remote_path] = copied[i]
                                   /\ copied[i].remote_path \in DOMAIN there
                                   /\ there[copied[i].remote_path] = copied[i]
      /\ \A i, j \in 1..Len(copied) : copied[i].remote_path = copied[j].remote_path => i = j
  BY <1>2, Zenon DEF CopiedInv
<1>5. DOMAIN back \subseteq DOMAIN maps_before.local_to_remote \cup {LocalPath(copied[i]) : i \in 1..reversed}
  BY <1>2, Zenon DEF BeforeInv
<1>6. CASE IsReversed(mapping) /\ mapping.type # "lines" /\ path \in DOMAIN back
  <2>1. \A i \in 1..Len(copied) : copied[i] \in FileRules
    BY <1>4 DEF FileRules
  <2>2. RulesClash
    <3>1. CASE path \in DOMAIN maps_before.local_to_remote
      BY <1>3, <2>1, <3>1, Zenon DEF RulesClash
    <3>2. CASE path \notin DOMAIN maps_before.local_to_remote
      <4> HIDE DEF path, mapping
      <4>1. PICK i \in 1..reversed : path = LocalPath(copied[i])
        BY <1>5, <1>6, <3>2
      <4>2. mapping \in FileRules /\ copied[i] \in FileRules \ {mapping}
        BY <1>3, <1>4, <2>1, <4>1 DEF mapping
      <4>3. LocalPath(copied[i]) = LocalPath(mapping)
        BY <4>1 DEF path
      <4> QED BY <4>2, <4>3, Zenon DEF RulesClash
    <3> QED BY <3>1, <3>2
  <2>3. /\ map_parser' = Failing(map_parser) /\ map_step' = "idle"
        /\ UNCHANGED <<map_files, unread, maps, copied, reversed, maps_before, rules_read>>
    BY <1>1, <1>6, Zenon
  <2> QED BY <2>2, <2>3, CopyingFails
<1>7. CASE ~(IsReversed(mapping) /\ mapping.type # "lines" /\ path \in DOMAIN back)
  <2>1. /\ maps' = IF IsReversed(mapping) THEN [maps EXCEPT !.local_to_remote = new] ELSE maps
        /\ reversed' = k /\ map_step' = IF reversed' = Len(copied) THEN "idle" ELSE "reversing"
        /\ UNCHANGED <<map_parser, map_files, unread, copied, maps_before, rules_read>>
    BY <1>1, <1>7, Zenon
  <2>2. maps = [remote_to_local |-> there, local_to_remote |-> back] /\ RightRules(there)
        /\ \A q \in DOMAIN back : back[q].type = "lines" =>
             \E p \in DOMAIN there : there[p].type = "lines" /\ back[q] = Reversed(there[p])
    BY <1>2, Zenon DEF TablesInv
  <2> DEFINE after == IF IsReversed(mapping) THEN new ELSE back
  <2>3. maps' = [remote_to_local |-> there, local_to_remote |-> after]
    <3> DEFINE yes == IsReversed(mapping)
    <3> HIDE DEF there, back, new, yes
    <3>1. maps = [remote_to_local |-> there, local_to_remote |-> back]
      BY <2>2
    <3>2. maps' = IF yes THEN [maps EXCEPT !.local_to_remote = new] ELSE maps
      BY <2>1 DEF yes
    <3>3. maps' = [remote_to_local |-> there, local_to_remote |-> IF yes THEN new ELSE back]
      BY ONLY <3>1, <3>2
    <3> QED BY <3>3 DEF yes
  <2>4. maps'.remote_to_local = there /\ maps'.local_to_remote = after
    BY <2>3
  <2>5. /\ IsReversed(mapping) =>
             /\ DOMAIN after = DOMAIN back \cup {path} /\ after[path] = Reversed(mapping)
             /\ \A q \in DOMAIN back : q # path => after[q] = back[q]
        /\ ~IsReversed(mapping) => after = back
    BY DEF Put
  <2>6. mapping \in Mapping /\ mapping.remote_path \in DOMAIN there /\ there[mapping.remote_path] = mapping
        /\ Reversed(mapping).type = mapping.type
    BY <1>3, <1>4, ReverseOf
  <2> HIDE DEF there, back, new, after, mapping, path
  <2>7. MapFilesInv' /\ ParserInv'
    BY <1>2, <1>3, <2>1 DEF MapFilesInv, ParserInv
  <2>8. TablesInv'
    <3>1. \A q \in DOMAIN after : after[q].type = "lines" =>
             \E p \in DOMAIN there : there[p].type = "lines" /\ after[q] = Reversed(there[p])
      BY <2>2, <2>5, <2>6
    <3>2. /\ maps' = [remote_to_local |-> maps'.remote_to_local, local_to_remote |-> maps'.local_to_remote]
          /\ RightRules(maps'.remote_to_local)
      BY <2>2, <2>3, <2>4
    <3> QED BY <2>4, <3>1, <3>2 DEF TablesInv
  <2>9. k \in Nat /\ (\A i \in 1..k : i \in 1..reversed \/ i = k) /\ (\A i \in 1..reversed : i \in 1..k) /\ k \in 1..k
    BY <1>3
  <2>10. BeforeInv'
    <3>1. /\ \A p \in DOMAIN maps_before.remote_to_local : p \in DOMAIN there /\ there[p] = maps_before.remote_to_local[p]
          /\ DOMAIN there \subseteq DOMAIN maps_before.remote_to_local \cup PathsCopied(copied)
      BY <1>2, Zenon DEF BeforeInv, there
    <3>2. DOMAIN back \subseteq DOMAIN maps_before.local_to_remote \cup {LocalPath(copied[i]) : i \in 1..reversed}
      BY <1>5 DEF back
    <3>3. path \in {LocalPath(copied[i]) : i \in 1..k}
      BY <2>9 DEF path, mapping
    <3>4. DOMAIN after \subseteq DOMAIN maps_before.local_to_remote \cup {LocalPath(copied[i]) : i \in 1..k}
      BY <2>5, <2>9, <3>2, <3>3
    <3> QED BY <2>1, <2>4, <3>1, <3>4 DEF BeforeInv
  <2>11. CopiedInv'
    <3>1. reversed' <= Len(copied') /\ copied' \in Seq(Mapping)
      BY <1>3, <2>1
    <3> QED BY <1>4, <2>1, <2>4, <3>1, Zenon DEF CopiedInv, there
  <2>12. ReversedInv'
    <3> SUFFICES ASSUME NEW i \in 1..k, IsReversed(copied[i])
                 PROVE  /\ LocalPath(copied[i]) \in DOMAIN after
                        /\ \E j \in 1..Len(copied) : /\ LocalPath(copied[j]) = LocalPath(copied[i])
                                                     /\ after[LocalPath(copied[i])] = Reversed(copied[j])
      BY <2>1, <2>4, Zenon DEF ReversedInv
    <3>1. CASE IsReversed(mapping) /\ LocalPath(copied[i]) = path
      BY <1>3, <2>5, <3>1 DEF mapping, path
    <3>2. CASE ~(IsReversed(mapping) /\ LocalPath(copied[i]) = path)
      <4>1. i \in 1..reversed
        BY <2>9, <3>2 DEF mapping, path
      <4>2. /\ LocalPath(copied[i]) \in DOMAIN back
            /\ \E j \in 1..Len(copied) : /\ LocalPath(copied[j]) = LocalPath(copied[i])
                                         /\ back[LocalPath(copied[i])] = Reversed(copied[j])
        BY <1>2, <4>1, Zenon DEF ReversedInv, back
      <4> QED BY <2>5, <3>2, <4>2
    <3> QED BY <3>1, <3>2
  <2>13. StepInv'
    <3>1. k <= Len(copied) /\ (k # Len(copied) => k < Len(copied))
      BY <1>2, <1>3
    <3> QED BY <1>2, <2>1, <3>1 DEF StepInv, AllCopied
  <2> QED BY <2>7, <2>8, <2>10, <2>11, <2>12, <2>13 DEF PathMapsInv
<1> QED BY <1>6, <1>7

LEMMA PathMapsKeep == PathMapsInv /\ [PathMapsNext]_pathMapVars => PathMapsInv'
<1> SUFFICES ASSUME PathMapsInv, [PathMapsNext]_pathMapVars
             PROVE  PathMapsInv'
  OBVIOUS
<1>1. CASE UNCHANGED pathMapVars
  <2>1. UNCHANGED <<map_files, map_step, map_parser, unread, maps, copied, reversed, maps_before, rules_read>>
    BY <1>1 DEF pathMapVars
  <2>2. MapFilesInv' /\ ParserInv'
    BY <2>1 DEF PathMapsInv, MapFilesInv, ParserInv
  <2>3. TablesInv' /\ BeforeInv'
    BY <2>1, Zenon DEF PathMapsInv, TablesInv, BeforeInv
  <2>4. CopiedInv' /\ ReversedInv'
    BY <2>1, Zenon DEF PathMapsInv, CopiedInv, ReversedInv
  <2>5. StepInv'
    <3>1. RulesClash => RulesClash'
      BY <2>1, Zenon DEF RulesClash, FileRules
    <3> QED BY <2>1, <3>1 DEF PathMapsInv, StepInv, AllCopied
  <2> QED BY <2>2, <2>3, <2>4, <2>5 DEF PathMapsInv
<1>2. CASE PathMapsNext
  BY <1>2, ParseFileKeeps, ReadLineKeeps, FileEndsKeeps, CopyRuleKeeps, CopyRuleReverseKeeps DEF PathMapsNext
<1> QED BY <1>1, <1>2

LEMMA FailureSeen == PathMapsInv => FailedFileChangesLittle
BY Zenon DEF PathMapsInv, StepInv, BeforeInv, FailedFileChangesLittle

\* What an accepted file left in the tables.
LEMMA RulesAccepted ==
  ASSUME PathMapsInv, FileAccepted, NEW p \in DOMAIN map_parser.file_rules
  PROVE  /\ p \in DOMAIN maps.remote_to_local /\ maps.remote_to_local[p] = map_parser.file_rules[p]
         /\ \E i \in 1..reversed : copied[i] = map_parser.file_rules[p]
<1>1. AllCopied /\ reversed = Len(copied)
  BY DEF PathMapsInv, StepInv, FileAccepted
<1>2. PICK i \in 1..Len(copied) : p = copied[i].remote_path
  BY <1>1 DEF AllCopied, PathsCopied
<1>3. /\ map_parser.file_rules[p] = copied[i]
      /\ p \in DOMAIN maps.remote_to_local /\ maps.remote_to_local[p] = copied[i]
  BY <1>2, Zenon DEF PathMapsInv, CopiedInv
<1> QED BY <1>1, <1>3

LEMMA ReversedSeen == PathMapsInv => RulesAreReversed
<1> SUFFICES ASSUME PathMapsInv, FileAccepted, NEW r \in FileRules, IsReversed(r)
             PROVE  /\ LocalPath(r) \in DOMAIN maps.local_to_remote
                    /\ \E q \in FileRules : /\ LocalPath(q) = LocalPath(r)
                                            /\ maps.local_to_remote[LocalPath(r)] = Reversed(q)
  BY Zenon DEF RulesAreReversed
<1>1. PICK p \in DOMAIN map_parser.file_rules : r = map_parser.file_rules[p]
  BY DEF FileRules
<1>2. PICK i \in 1..reversed : copied[i] = r
  BY <1>1, RulesAccepted
<1>3. \A j \in 1..Len(copied) : copied[j] \in FileRules
  BY DEF PathMapsInv, CopiedInv, FileRules
<1>4. /\ LocalPath(r) \in DOMAIN maps.local_to_remote
      /\ \E j \in 1..Len(copied) : /\ LocalPath(copied[j]) = LocalPath(r)
                                   /\ maps.local_to_remote[LocalPath(r)] = Reversed(copied[j])
  BY <1>2, Zenon DEF PathMapsInv, ReversedInv
<1> QED BY <1>3, <1>4, Zenon

\* The mapping of a remote file with ranges in their place.
LEMMA MappedLines ==
  ASSUME PathMapsInv, NEW path, HasLines(path), NEW line
  PROVE  LET m == maps.remote_to_local[path]   ranges == m.line_ranges IN
         /\ path \in DOMAIN maps.remote_to_local /\ m \in Mapping /\ m.remote_path = path /\ m.type = "lines"
         /\ ranges \in Seq(MapRange) /\ RightRanges(ranges) /\ SkipsInPlace(ranges)
         /\ RemoteToLocal(maps, path, line) = InRanges(ranges, line, RemoteSpans(ranges), LocalSpans(ranges))
<1> DEFINE m == maps.remote_to_local[path]
<1>1. path \in DOMAIN maps.remote_to_local /\ m.type = "lines" /\ SkipsInPlace(m.line_ranges)
  BY Zenon DEF HasLines
<1>2. RightMapping(m, path)
  BY <1>1 DEF PathMapsInv, TablesInv, RightRules
<1> HIDE DEF m
<1>3. m \in Mapping /\ m.remote_path = path /\ ~m.skip /\ m.line_ranges \in Seq(MapRange) /\ RightRanges(m.line_ranges)
  BY <1>1, <1>2 DEF RightMapping, Mapping
<1>4. RemoteToLocal(maps, path, line) =
        InRanges(m.line_ranges, line, RemoteSpans(m.line_ranges), LocalSpans(m.line_ranges))
  BY <1>1, <1>3, Zenon DEF RemoteToLocal, m
<1> QED BY <1>1, <1>3, <1>4, Zenon DEF m

LEMMA WrittenSeen == PathMapsInv => LinesMapAsWritten
<1> SUFFICES ASSUME PathMapsInv, FileAccepted, NEW path \in {x.path : x \in rules_read}
             PROVE  /\ path \in DOMAIN maps.remote_to_local
                    /\ HasLines(path) => \A number \in LinesAsked :
                         LET hit == {x \in rules_read : x.path = path /\ number \in x.range.remote_begin..x.range.remote_end}
                             r   == (CHOOSE x \in hit : TRUE).range
                         IN RemoteToLocal(maps, path, number) =
                              IF hit = {} THEN UnknownPath
                              ELSE IF r.skip THEN SkippedPath
                              ELSE Answer("lines", r.local_path,
                                          IF r.local_begin = r.local_end THEN r.local_begin
                                          ELSE r.local_begin + (number - r.remote_begin))
  BY Zenon DEF LinesMapAsWritten
<1> DEFINE rules == map_parser.file_rules
           m == rules[path]
           ranges == m.line_ranges
<1>1. rules_read = RangesOf(rules)
  BY DEF PathMapsInv, ParserInv, FileAccepted
<1>2. \A x \in rules_read : x.path \in DOMAIN rules /\ \E i \in 1..Len(rules[x.path].line_ranges) :
                              x = [path |-> x.path, range |-> rules[x.path].line_ranges[i]]
  BY <1>1 DEF RangesOf, RangesFor
<1>3. path \in DOMAIN rules
  BY <1>2
<1>4. path \in DOMAIN maps.remote_to_local /\ maps.remote_to_local[path] = m
  BY <1>3, RulesAccepted
<1>5. \A i \in 1..Len(ranges) : [path |-> path, range |-> ranges[i]] \in rules_read
  BY <1>1, <1>3 DEF RangesOf, RangesFor
<1>6. ASSUME HasLines(path), NEW number \in LinesAsked
      PROVE  LET hit == {x \in rules_read : x.path = path /\ number \in x.range.remote_begin..x.range.remote_end}
                 r   == (CHOOSE x \in hit : TRUE).range
             IN RemoteToLocal(maps, path, number) =
                  IF hit = {} THEN UnknownPath
                  ELSE IF r.skip THEN SkippedPath
                  ELSE Answer("lines", r.local_path,
                              IF r.local_begin = r.local_end THEN r.local_begin
                              ELSE r.local_begin + (number - r.remote_begin))
  <2> DEFINE hit == {x \in rules_read : x.path = path /\ number \in x.range.remote_begin..x.range.remote_end}
             first == CHOOSE x \in hit : TRUE
             r == first.range
             answer == RemoteToLocal(maps, path, number)
  <2>1. number \in Int
    BY MapsAssumption
  <2>2. /\ ranges \in Seq(MapRange) /\ RightRanges(ranges) /\ SkipsInPlace(ranges)
        /\ answer = InRanges(ranges, number, RemoteSpans(ranges), LocalSpans(ranges))
    BY <1>4, <1>6, MappedLines, Zenon
  <2> HIDE DEF rules, m, ranges
  <2>3. /\ \A i \in 1..Len(ranges) : number \in ranges[i].remote_begin..ranges[i].remote_end =>
              answer = IF ranges[i].skip THEN SkippedPath
                       ELSE Answer("lines", ranges[i].local_path,
                                   IF ranges[i].local_begin = ranges[i].local_end THEN ranges[i].local_begin
                                   ELSE number - ranges[i].remote_begin + ranges[i].local_begin)
        /\ (\A i \in 1..Len(ranges) : number \notin ranges[i].remote_begin..ranges[i].remote_end) =>
              answer = UnknownPath
    <3> HIDE DEF answer
    <3>1. LET it == InRanges(ranges, number, RemoteSpans(ranges), LocalSpans(ranges)) IN
          /\ \A i \in 1..Len(ranges) : number \in ranges[i].remote_begin..ranges[i].remote_end =>
              it = IF ranges[i].skip THEN SkippedPath
                       ELSE Answer("lines", ranges[i].local_path,
                                   IF ranges[i].local_begin = ranges[i].local_end THEN ranges[i].local_begin
                                   ELSE number - ranges[i].remote_begin + ranges[i].local_begin)
          /\ (\A i \in 1..Len(ranges) : number \notin ranges[i].remote_begin..ranges[i].remote_end) =>
              it = UnknownPath
      BY <2>1, <2>2, RemoteLineFound, Zenon
    <3> QED BY <2>2, <3>1, Zenon
  <2> HIDE DEF answer
  <2>4. CASE hit = {}
    <3>1. \A i \in 1..Len(ranges) : number \notin ranges[i].remote_begin..ranges[i].remote_end
      <4> SUFFICES ASSUME NEW i \in 1..Len(ranges), number \in ranges[i].remote_begin..ranges[i].remote_end
                   PROVE  FALSE
        OBVIOUS
      <4> DEFINE x == [path |-> path, range |-> ranges[i]]
      <4>1. x \in rules_read /\ x.path = path /\ x.range = ranges[i]
        BY <1>5 DEF ranges, m
      <4> HIDE DEF x
      <4>2. x \in hit
        BY <4>1
      <4> QED BY <2>4, <4>2
    <3>2. answer = UnknownPath
      BY <2>3, <3>1, Zenon
    <3> QED BY <2>4, <3>2, Zenon DEF answer
  <2>5. CASE hit # {}
    <3>1. first \in hit
      BY <2>5, Zenon
    <3> HIDE DEF first
    <3>2. first \in rules_read /\ first.path = path /\ number \in r.remote_begin..r.remote_end
      BY <3>1
    <3>3. PICK i \in 1..Len(ranges) : first = [path |-> path, range |-> ranges[i]]
      BY <1>2, <3>2, Zenon DEF ranges, m
    <3>4. r = ranges[i]
      BY <3>3
    <3>5. answer = IF r.skip THEN SkippedPath
                   ELSE Answer("lines", r.local_path,
                               IF r.local_begin = r.local_end THEN r.local_begin
                               ELSE number - r.remote_begin + r.local_begin)
      BY <2>3, <3>2, <3>4, Zenon
    <3>6. number - r.remote_begin + r.local_begin = r.local_begin + (number - r.remote_begin)
      <4>1. r.remote_begin \in Int /\ r.local_begin \in Int
        <5>1. r \in MapRange
          BY <2>2, <3>4
        <5> HIDE DEF r
        <5> QED BY <5>1 DEF MapRange
      <4> QED BY ONLY <2>1, <4>1
    <3> QED BY <2>5, <3>5, <3>6, Zenon DEF answer, first
  <2> QED BY <2>4, <2>5
<1> QED BY <1>4, <1>6, Zenon

LEMMA BackSeen == PathMapsInv => LinesMapBack
<1> SUFFICES ASSUME PathMapsInv, NEW path \in PathsAsked, HasLines(path), NEW number \in LinesAsked,
                    RemoteToLocal(maps, path, number).type = "lines",
                    RemoteToLocal(maps, path, number).path \in DOMAIN maps.local_to_remote,
                    maps.local_to_remote[RemoteToLocal(maps, path, number).path].type = "lines",
                    maps.local_to_remote[RemoteToLocal(maps, path, number).path].remote_path = path
             PROVE  LET there == RemoteToLocal(maps, path, number)
                        back  == LocalToRemote(maps, there.path, there.line)
                    IN back.type = "lines" /\ back.path = path /\ RemoteToLocal(maps, path, back.line) = there
  BY DEF LinesMapBack
<1> DEFINE there == RemoteToLocal(maps, path, number)
           back == LocalToRemote(maps, there.path, there.line)
           m == maps.remote_to_local[path]
           ranges == m.line_ranges
           other == maps.local_to_remote[there.path]
           turned == other.line_ranges
<1> HIDE DEF there
<1>1. number \in Int
  BY MapsAssumption
<1>2. /\ path \in DOMAIN maps.remote_to_local /\ m \in Mapping /\ m.remote_path = path /\ m.type = "lines"
      /\ ranges \in Seq(MapRange) /\ RightRanges(ranges) /\ SkipsInPlace(ranges)
      /\ \A line : RemoteToLocal(maps, path, line) = InRanges(ranges, line, RemoteSpans(ranges), LocalSpans(ranges))
  <2>1. \A line : LET it == maps.remote_to_local[path]   its == it.line_ranges IN
         /\ path \in DOMAIN maps.remote_to_local /\ it \in Mapping /\ it.remote_path = path /\ it.type = "lines"
         /\ its \in Seq(MapRange) /\ RightRanges(its) /\ SkipsInPlace(its)
         /\ RemoteToLocal(maps, path, line) = InRanges(its, line, RemoteSpans(its), LocalSpans(its))
    BY MappedLines, Zenon
  <2> QED BY <2>1, Zenon
<1>3. turned = InReverse(ranges, path)
  <2>1. PICK p \in DOMAIN maps.remote_to_local :
          maps.remote_to_local[p].type = "lines" /\ other = Reversed(maps.remote_to_local[p])
    BY Zenon DEF PathMapsInv, TablesInv, there
  <2> DEFINE n == maps.remote_to_local[p]
  <2>2. n \in Mapping /\ n.remote_path = p
    BY DEF PathMapsInv, TablesInv, RightRules, RightMapping
  <2> HIDE DEF n
  <2>3. Reversed(n).remote_path = n.remote_path
        /\ (n.type = "lines" => Reversed(n).line_ranges = InReverse(n.line_ranges, n.remote_path))
    BY <2>2, ReverseOf
  <2>4. p = path
    BY <2>1, <2>2, <2>3 DEF n, there
  <2> QED BY <2>1, <2>3, <2>2, <2>4, Zenon DEF n
<1>4. \A i \in 1..Len(ranges) : ranges[i] \in MapRange /\ RightRange(ranges[i])
  BY <1>2 DEF RightRanges
<1> HIDE DEF m, ranges, turned, back
<1> DEFINE found(line) == InRanges(ranges, line, RemoteSpans(ranges), LocalSpans(ranges))
           Of(i, line) == Answer("lines", ranges[i].local_path,
                                 IF ranges[i].local_begin = ranges[i].local_end THEN ranges[i].local_begin
                                 ELSE line - ranges[i].remote_begin + ranges[i].local_begin)
<1>5. \A line \in Int :
        /\ \A i \in 1..Len(ranges) : line \in ranges[i].remote_begin..ranges[i].remote_end =>
             found(line) = IF ranges[i].skip THEN SkippedPath ELSE Of(i, line)
        /\ (\A i \in 1..Len(ranges) : line \notin ranges[i].remote_begin..ranges[i].remote_end) =>
             found(line) = UnknownPath
  BY <1>2, RemoteLineFound, Zenon
<1>6. there = found(number) /\ \A line : RemoteToLocal(maps, path, line) = found(line)
  BY <1>2, Zenon DEF there
<1>7. PICK i \in 1..Len(ranges) : number \in ranges[i].remote_begin..ranges[i].remote_end
  <2>1. UnknownPath.type # "lines"
    BY DEF UnknownPath, Answer
  <2> QED BY <1>1, <1>5, <1>6, <2>1, Zenon
<1>8. ~ranges[i].skip /\ there = Of(i, number)
  <2>1. SkippedPath.type # "lines"
    BY DEF SkippedPath, Answer
  <2> QED BY <1>1, <1>5, <1>6, <1>7, <2>1, Zenon
<1> DEFINE rb == ranges[i].remote_begin   re == ranges[i].remote_end
           lb == ranges[i].local_begin    le == ranges[i].local_end
           line == IF lb = le THEN lb ELSE number - rb + lb
           comes == IF rb = re THEN rb ELSE line - lb + rb
<1>9. /\ rb \in Int /\ re \in Int /\ lb \in Int /\ le \in Int /\ rb <= re /\ lb <= le /\ rb <= number /\ number <= re
      /\ lb = le \/ re - rb = le - lb
  <2>1. rb \in Int /\ re \in Int /\ lb \in Int /\ le \in Int
    BY <1>4 DEF MapRange
  <2>2. rb <= re /\ lb <= le /\ (lb = le \/ re - rb = le - lb)
    BY <1>4, <1>8 DEF RightRange
  <2>3. rb <= number /\ number <= re
    BY <1>1, <1>7, <2>1
  <2> QED BY <2>1, <2>2, <2>3
<1>10. there.path = ranges[i].local_path /\ there.line = line
  BY <1>8 DEF Answer
<1> HIDE DEF rb, re, lb, le
<1>11. /\ line \in Int /\ lb <= line /\ line <= le
       /\ comes \in Int /\ rb <= comes /\ comes <= re
       /\ (IF lb = le THEN lb ELSE comes - rb + lb) = line
  BY ONLY <1>1, <1>9
<1>12. back = InRanges(turned, line, LocalSpans(turned), RemoteSpans(turned))
  BY <1>10, Zenon DEF LocalToRemote, turned, there, back
<1> HIDE DEF line
<1>13. line \in lb..le
  BY <1>9, <1>11
<1>14. back = Answer("lines", path, comes)
  BY <1>2, <1>3, <1>8, <1>11, <1>12, <1>13, LocalLineFound DEF lb, le, rb, re
<1> HIDE DEF comes
<1>15. back.type = "lines" /\ back.path = path /\ back.line = comes
  BY <1>14 DEF Answer
<1>16. comes \in ranges[i].remote_begin..ranges[i].remote_end
  BY <1>9, <1>11 DEF rb, re
<1>17. found(comes) = Of(i, comes)
  BY <1>5, <1>8, <1>11, <1>16
<1>18. Of(i, comes) = Of(i, number)
  BY <1>11 DEF rb, re, lb, le, line
<1> QED BY <1>6, <1>8, <1>15, <1>17, <1>18 DEF there, back

\* A set of numbers with a bound has a greatest one.
LEMMA Greatest ==
  ASSUME NEW N \in Nat, NEW S \in SUBSET (1..N), S # {}
  PROVE  \E n \in S : \A m \in S : m <= n
<1> DEFINE T == {k \in Nat : N - k \in S}
<1>1. \A n \in S : N - n \in T
  OBVIOUS
<1>2. T \in SUBSET Nat /\ T # {}
  BY <1>1
<1>3. PICK k \in T : \A j \in T : k <= j
  BY <1>2, Least
<1>4. N - k \in S /\ \A m \in S : m <= N - k
  BY <1>1, <1>3
<1> QED BY <1>4

LEMMA DirectoriesSeen == PathMapsInv => LongestDirectoryDecides
<1> SUFFICES ASSUME PathMapsInv, NEW path \in PathsAsked \ DOMAIN maps.remote_to_local
             PROVE  LET table    == maps.remote_to_local
                        dirs   == {p \in DOMAIN table : table[p].type = "directory" /\ IsPrefix(p, path) /\ p # path}
                        answer == RemoteToLocal(maps, path, 1)
                    IN IF dirs = {} THEN answer = UnknownPath
                       ELSE LET p == CHOOSE p \in dirs : \A q \in dirs : Len(q) <= Len(p) IN
                            answer = IF table[p].skip THEN SkippedPath
                                     ELSE Answer("directory",
                                                 table[p].local_path \o SubSeq(path, Len(p) + 1, Len(path)), 1)
  BY DEF LongestDirectoryDecides
<1> DEFINE table    == maps.remote_to_local
           dirs   == {p \in DOMAIN table : table[p].type = "directory" /\ IsPrefix(p, path) /\ p # path}
           found  == Directories(table, path)
           longest == CHOOSE p \in dirs : \A q \in dirs : Len(q) <= Len(p)
           answer == RemoteToLocal(maps, path, 1)
<1>1. path \in Seq(STRING) /\ Len(path) \in Nat /\ path \notin DOMAIN table
  BY MapsAssumption DEF Path
<1>2. \A p \in DOMAIN table : p \in Seq(STRING) /\ (table[p].type = "directory" <=> EndsWith(p, Sep))
  BY DEF PathMapsInv, TablesInv, RightRules, RightMapping, Path
<1>3. answer = InDirectory(table, path, 1, "local_path")
  BY Zenon DEF RemoteToLocal
<1> HIDE DEF table, answer
<1>4. ASSUME NEW n \in found
      PROVE  n \in 1..Len(path) /\ SubSeq(path, 1, n) \in dirs /\ Len(SubSeq(path, 1, n)) = n
  <2> DEFINE p == SubSeq(path, 1, n)
  <2>1. n \in 1..Len(path) /\ path[n] = Sep /\ p \in DOMAIN table
    BY DEF Directories
  <2>2. p \in Seq(STRING) /\ Len(p) = n /\ \A i \in 1..n : p[i] = path[i]
    BY <1>1, <2>1
  <2> HIDE DEF p
  <2>3. p # <<>> /\ p[Len(p)] = Sep
    BY <2>1, <2>2
  <2>4. table[p].type = "directory"
    BY <1>2, <2>1, <2>3 DEF EndsWith
  <2>5. SubSeq(p, 1, Len(p)) = p
    BY <2>2
  <2>6. IsPrefix(p, path)
    <3>1. Len(p) <= Len(path)
      BY <1>1, <2>1, <2>2
    <3>2. SubSeq(p, 1, Len(p)) = SubSeq(path, 1, Len(p))
      BY <2>2, <2>5 DEF p
    <3> QED BY <3>1, <3>2 DEF IsPrefix
  <2> QED BY <1>1, <2>1, <2>2, <2>4, <2>6 DEF p
<1>5. ASSUME NEW p \in dirs
      PROVE  Len(p) \in found /\ SubSeq(path, 1, Len(p)) = p
  <2>1. p \in Seq(STRING) /\ p \in DOMAIN table /\ table[p].type = "directory" /\ IsPrefix(p, path)
    BY <1>2
  <2>2. p # <<>> /\ p[Len(p)] = Sep
    BY <1>2, <2>1 DEF EndsWith
  <2>3. Len(p) \in 1..Len(p)
    BY <2>1, <2>2
  <2>4. Len(p) <= Len(path) /\ SubSeq(p, 1, Len(p)) = SubSeq(path, 1, Len(p))
    BY <2>1 DEF IsPrefix
  <2>5. SubSeq(p, 1, Len(p)) = p
    BY <2>1
  <2>6. SubSeq(path, 1, Len(p)) = p
    BY <2>4, <2>5
  <2>7. Len(p) \in 1..Len(path)
    BY <1>1, <2>3, <2>4
  <2>8. path[Len(p)] = p[Len(p)]
    <3> DEFINE k == Len(p)   u == SubSeq(path, 1, k)
    <3>1. k \in 1..Len(path)
      BY <2>7
    <3> HIDE DEF k
    <3>2. u[k] = path[k]
      BY <1>1, <3>1
    <3> QED BY <2>6, <3>2, Zenon DEF k
  <2> QED BY <2>1, <2>2, <2>6, <2>7, <2>8 DEF Directories
<1>6. CASE dirs = {}
  <2>1. found = {}
    BY <1>4, <1>6
  <2>2. answer = UnknownPath
    BY <1>3, <2>1, Zenon DEF InDirectory
  <2> QED BY <1>6, <2>2, Zenon DEF table, answer
<1>7. CASE dirs # {}
  <2>1. found # {} /\ found \in SUBSET (1..Len(path))
    BY <1>4, <1>5, <1>7
  <2>2. PICK n \in found : \A k \in found : k <= n
    BY <1>1, <2>1, Greatest
  <2> DEFINE p == SubSeq(path, 1, n)
  <2>3. p \in dirs /\ Len(p) = n /\ \A q \in dirs : Len(q) <= n
    BY <1>4, <1>5, <2>2
  <2> HIDE DEF p, dirs, found
  <2>4. longest \in dirs /\ \A q \in dirs : Len(q) <= Len(longest)
    <3>1. \E r \in dirs : \A q \in dirs : Len(q) <= Len(r)
      BY <2>3
    <3> QED BY <3>1, Zenon
  <2> HIDE DEF longest
  <2>5. Len(longest) = n /\ longest = p
    <3>1. Len(longest) <= n /\ n <= Len(longest)
      BY <2>3, <2>4
    <3>2. Len(longest) \in Int /\ n \in Int
      BY <1>4, <1>5, <2>4, <2>1
    <3>3. SubSeq(path, 1, Len(longest)) = longest
      BY <1>5, <2>4
    <3>4. Len(longest) = n
      BY ONLY <3>1, <3>2
    <3> QED BY <3>3, <3>4, Zenon DEF p
  <2>6. Innermost(found) = n
    <3>1. Innermost(found) \in found /\ \A k \in found : k <= Innermost(found)
      BY <2>2, Zenon DEF Innermost
    <3>2. Innermost(found) <= n /\ n <= Innermost(found) /\ Innermost(found) \in Int /\ n \in Int
      <4>1. \A k \in found : k \in Int
        BY <1>4
      <4> DEFINE k == Innermost(found)
      <4> HIDE DEF k
      <4>2. k \in found /\ \A j \in found : j <= k
        BY <3>1, Zenon DEF k
      <4>3. k <= n /\ n <= k /\ k \in Int /\ n \in Int
        BY <2>2, <4>1, <4>2
      <4> QED BY <4>3 DEF k
    <3> QED BY ONLY <3>2
  <2>7. answer = IF table[p].skip THEN SkippedPath
                 ELSE Answer("directory", table[p]["local_path"] \o SubSeq(path, n + 1, Len(path)), 1)
    <3>1. found = Directories(table, path)
      BY Zenon DEF found
    <3> QED BY <1>3, <2>1, <2>6, <3>1, Zenon DEF InDirectory, p
  <2>8. answer = IF table[longest].skip THEN SkippedPath
                 ELSE Answer("directory", table[longest].local_path \o SubSeq(path, Len(longest) + 1, Len(path)), 1)
    BY <2>5, <2>7, Zenon
  <2> QED BY <1>7, <2>8, Zenon DEF table, answer, dirs, longest
<1> QED BY <1>6, <1>7

\* The path maps, whatever the files say, translate as the rules of the files
\* say (xdebug_path_maps_parse_file, remote_to_local, local_to_remote).
THEOREM MapsTranslate == PathMapsSpec => []PathsTranslate
<1>1. PathMapsInv => PathsTranslate
  BY WrittenSeen, BackSeen, ReversedSeen, DirectoriesSeen, FailureSeen DEF PathsTranslate
<1> QED BY <1>1, PathMapsStart, PathMapsKeep, PTL DEF PathMapsSpec
-----------------------------------------------------------------------------
(* Sources.  A name becomes a URL character by character, and the decoder      *)
(* takes each character's escape for what it numbers, because no escape        *)
(* begins within another.                                                      *)

Letter == STRING \cup {Percent, Two, Five, Slash, Dquote, BackSlash, Colon, "R", "U", "file"}

\* Joining texts may be read from either side.
LEMMA LettersJoin == \A x, y, z \in Seq(Letter) : (x \o y) \o z = x \o (y \o z)
OBVIOUS

LEMMA LettersAre ==
  /\ Percent \in Letter /\ Two \in Letter /\ Five \in Letter /\ Slash \in Letter
  /\ Dquote \in Letter /\ BackSlash \in Letter /\ Colon \in Letter
  /\ "R" \in Letter /\ "U" \in Letter /\ "file" \in Letter
  /\ Percent \notin {Two, Five, Dquote, BackSlash, Slash, Colon, "file"}
  /\ Colon # Slash /\ Slash # BackSlash /\ "file" \notin {Slash, Colon, BackSlash}
  /\ \A path : path \in Seq(STRING) => path \in Seq(Letter)
<1>1. STRING \subseteq Letter
  BY DEF Letter
<1>2. \A path : path \in Seq(STRING) => path \in Seq(Letter)
  BY DEF Letter
<1>3. /\ Percent \in Letter /\ Two \in Letter /\ Five \in Letter /\ Slash \in Letter
      /\ Dquote \in Letter /\ BackSlash \in Letter /\ Colon \in Letter
      /\ "R" \in Letter /\ "U" \in Letter /\ "file" \in Letter
  BY Zenon DEF Letter
<1>4. /\ Percent \notin {Two, Five, Dquote, BackSlash, Slash, Colon, "file"}
      /\ Colon # Slash /\ Slash # BackSlash /\ "file" \notin {Slash, Colon, BackSlash}
  BY DEF Percent, Two, Five, Slash, Dquote, BackSlash, Colon
<1> QED BY <1>2, <1>3, <1>4, Zenon

Escapes(path) == [i \in 1..Len(path) |-> Encoded(path[i])]
DecodedParts(s) == [i \in 1..Len(s) |-> Decoded(s, i)]

LEMMA CharactersAre ==
  ASSUME NEW c \in Letter
  PROVE  /\ Encoded(c) \in Seq(Letter)
         /\ \/ /\ c # Percent /\ c # Dquote /\ Encoded(c) = <<c>>
            \/ /\ Encoded(c) = <<Percent, Two, Two>> /\ c = Dquote
            \/ /\ Encoded(c) = <<Percent, Two, Five>> /\ c = Percent
BY LettersAre DEF Encoded

LEMMA EscapesAre ==
  ASSUME NEW path \in Seq(Letter)
  PROVE  /\ Escapes(path) \in [1..Len(path) -> Seq(Letter)]
         /\ RawUrlEncode(path) = TextOf(Escapes(path), Len(path))
<1>1. \A i \in 1..Len(path) : Encoded(path[i]) \in Seq(Letter)
  BY CharactersAre
<1>2. [i \in 1..Len(path) |-> Escapes(path)[i]] = Escapes(path)
  BY Zenon DEF Escapes
<1>3. RawUrlEncode(path) = FlattenSeq(Escapes(path))
  <2>1. DOMAIN path = 1..Len(path)
    OBVIOUS
  <2> QED BY <2>1, Zenon DEF RawUrlEncode, Escapes
<1>4. Escapes(path) \in [1..Len(path) -> Seq(Letter)]
  BY <1>1 DEF Escapes
<1> QED BY <1>2, <1>3, <1>4, Zenon DEF TextOf

\* An escape numbers one of four characters.
LEMMA PartsDecoded ==
  ASSUME NEW s \in Seq(Letter)
  PROVE  /\ DecodedParts(s) \in [1..Len(s) -> Seq(Letter)]
         /\ RawUrlDecode(s) = TextOf(DecodedParts(s), Len(s))
<1>1. ASSUME NEW i \in 1..Len(s)
      PROVE  Decoded(s, i) \in Seq(Letter)
  <2>1. CASE IsEncodedAt(s, i)
    <3>1. NumberedBy(s[i + 1], s[i + 2]) \in Letter
      BY <2>1, LettersAre DEF IsEncodedAt, Hexadecimal, NumberedBy
    <3>2. Decoded(s, i) = <<NumberedBy(s[i + 1], s[i + 2])>>
      BY <2>1, Zenon DEF Decoded
    <3> QED BY <3>1, <3>2
  <2>2. CASE ~IsEncodedAt(s, i)
    <3>1. Decoded(s, i) \in {<<>>, <<s[i]>>}
      <4>1. CASE \E k \in {i - 2, i - 1} \cap DOMAIN s : IsEncodedAt(s, k)
        <5>1. Decoded(s, i) = <<>>
          BY <2>2, <4>1, Zenon DEF Decoded
        <5> QED BY <5>1
      <4>2. CASE ~\E k \in {i - 2, i - 1} \cap DOMAIN s : IsEncodedAt(s, k)
        <5>1. Decoded(s, i) = <<s[i]>>
          BY <2>2, <4>2, Zenon DEF Decoded
        <5> QED BY <5>1
      <4> QED BY <4>1, <4>2
    <3>2. <<>> \in Seq(Letter) /\ <<s[i]>> \in Seq(Letter)
      OBVIOUS
    <3> QED BY <3>1, <3>2
  <2> QED BY <2>1, <2>2
<1>2. RawUrlDecode(s) = FlattenSeq(DecodedParts(s))
  BY DEF RawUrlDecode, DecodedParts
<1>3. DecodedParts(s) = [i \in 1..Len(s) |-> DecodedParts(s)[i]]
  BY DEF DecodedParts
<1> QED BY <1>1, <1>2, <1>3 DEF TextOf, DecodedParts

\* What stands for itself at i.
LEMMA StandsForItself ==
  ASSUME NEW s \in Seq(Letter), NEW i \in 1..Len(s), ~IsEncodedAt(s, i),
         i >= 2 => ~IsEncodedAt(s, i - 1), i >= 3 => ~IsEncodedAt(s, i - 2)
  PROVE  DecodedParts(s)[i] = <<s[i]>>
<1>1. ~\E k \in {i - 2, i - 1} \cap DOMAIN s : IsEncodedAt(s, k)
  OBVIOUS
<1>2. Decoded(s, i) = <<s[i]>>
  BY <1>1, Zenon DEF Decoded
<1> QED BY <1>2 DEF DecodedParts

LEMMA OneMoreOf ==
  ASSUME NEW s \in Seq(Letter), NEW i \in 1..Len(s)
  PROVE  SubSeq(s, 1, i) = SubSeq(s, 1, i - 1) \o <<s[i]>> /\ SubSeq(s, 1, 0) = <<>>
OBVIOUS

\* Where there is no escape, decoding changes nothing.
LEMMA PlainDecodes ==
  ASSUME NEW s \in Seq(Letter), NEW n \in 0..Len(s), \A i \in 1..n : ~IsEncodedAt(s, i)
  PROVE  TextOf(DecodedParts(s), n) = SubSeq(s, 1, n)
<1> DEFINE t(k) == TextOf(DecodedParts(s), k)
           S == {k \in Nat : k <= n => t(k) = SubSeq(s, 1, k)}
<1>0. t(0) = <<>> /\ \A k \in 1..Len(s) : t(k) = t(k - 1) \o DecodedParts(s)[k]
  <2>1. Len(s) \in Nat /\ DecodedParts(s) \in [1..Len(s) -> Seq(Letter)]
    BY PartsDecoded
  <2> QED BY ONLY <2>1, Flattened, Zenon
<1> HIDE DEF t
<1>1. 0 \in S
  <2>1. SubSeq(s, 1, 0) = <<>>
    OBVIOUS
  <2> QED BY <1>0, <2>1
<1>2. ASSUME NEW k \in Nat, k \in S
      PROVE  k + 1 \in S
  <2> SUFFICES ASSUME k + 1 <= n
               PROVE  t(k + 1) = SubSeq(s, 1, k + 1)
    OBVIOUS
  <2>1. t(k) = SubSeq(s, 1, k)
    BY <1>2
  <2>2. k + 1 \in 1..Len(s) /\ (k + 1) - 1 = k
    OBVIOUS
  <2>3. DecodedParts(s)[k + 1] = <<s[k + 1]>>
    BY <2>2, StandsForItself
  <2>4. t(k + 1) = t(k) \o DecodedParts(s)[k + 1]
    BY <1>0, <2>2, Zenon
  <2> QED BY <2>1, <2>2, <2>3, <2>4, OneMoreOf, Zenon
<1> HIDE DEF S
<1>3. n \in S
  BY <1>1, <1>2, Induction
<1> QED BY <1>3 DEF S, t

\* No escape reaches beyond the first n characters.
NoneGoesOn(s, n) ==
  /\ n >= 1 => ~IsEncodedAt(s, n)
  /\ n >= 2 => ~IsEncodedAt(s, n - 1)

LEMMA PartsJoin ==
  ASSUME NEW s \in Seq(Letter)
  PROVE  /\ TextOf(DecodedParts(s), 0) = <<>>
         /\ \A i \in 0..Len(s) : TextOf(DecodedParts(s), i) \in Seq(Letter)
         /\ \A i \in 1..Len(s) :
              TextOf(DecodedParts(s), i) = TextOf(DecodedParts(s), i - 1) \o DecodedParts(s)[i]
<1>1. Len(s) \in Nat /\ DecodedParts(s) \in [1..Len(s) -> Seq(Letter)]
  BY PartsDecoded
<1> QED BY ONLY <1>1, Flattened, Zenon

LEMMA LetterDecodes ==
  ASSUME NEW s \in Seq(Letter), NEW b \in Nat, b + 1 <= Len(s), s[b + 1] # Percent,
         NoneGoesOn(s, b)
  PROVE  /\ TextOf(DecodedParts(s), b + 1) = TextOf(DecodedParts(s), b) \o <<s[b + 1]>>
         /\ NoneGoesOn(s, b + 1)
<1>1. b + 1 \in 1..Len(s) /\ (b + 1) - 1 = b /\ (b + 1) - 2 = b - 1
  OBVIOUS
<1>2. ~IsEncodedAt(s, b + 1)
  BY Zenon DEF IsEncodedAt
<1>3. NoneGoesOn(s, b + 1)
  BY <1>1, <1>2 DEF NoneGoesOn
<1>4. (b + 1 >= 2 => ~IsEncodedAt(s, (b + 1) - 1)) /\ (b + 1 >= 3 => ~IsEncodedAt(s, (b + 1) - 2))
  BY <1>1 DEF NoneGoesOn
<1>5. DecodedParts(s)[b + 1] = <<s[b + 1]>>
  BY <1>1, <1>2, <1>4, StandsForItself, Zenon
<1>6. TextOf(DecodedParts(s), b + 1) = TextOf(DecodedParts(s), b) \o DecodedParts(s)[b + 1]
  BY <1>1, PartsJoin, Zenon
<1> QED BY <1>3, <1>5, <1>6, Zenon

LEMMA EscapeDecodes ==
  ASSUME NEW s \in Seq(Letter), NEW b \in Nat, b + 3 <= Len(s), s[b + 1] = Percent,
         s[b + 2] \in Hexadecimal, s[b + 3] \in Hexadecimal
  PROVE  /\ TextOf(DecodedParts(s), b + 3) =
              TextOf(DecodedParts(s), b) \o <<NumberedBy(s[b + 2], s[b + 3])>>
         /\ NoneGoesOn(s, b + 3)
<1> DEFINE t(i) == TextOf(DecodedParts(s), i)
           c == NumberedBy(s[b + 2], s[b + 3])
<1>1. /\ b + 1 \in 1..Len(s) /\ b + 2 \in 1..Len(s) /\ b + 3 \in 1..Len(s) /\ b \in 0..Len(s)
      /\ (b + 1) + 1 = b + 2 /\ (b + 1) + 2 = b + 3 /\ (b + 1) - 1 = b /\ (b + 2) - 1 = b + 1
      /\ (b + 2) - 2 = b /\ (b + 3) - 1 = b + 2 /\ (b + 3) - 2 = b + 1
  OBVIOUS
<1>2. Percent \notin Hexadecimal
  BY LettersAre DEF Hexadecimal
<1>3. IsEncodedAt(s, b + 1) /\ ~IsEncodedAt(s, b + 2) /\ ~IsEncodedAt(s, b + 3)
  BY <1>1, <1>2, Zenon DEF IsEncodedAt
<1>4. NoneGoesOn(s, b + 3)
  BY <1>1, <1>3 DEF NoneGoesOn
<1>5. Decoded(s, b + 1) = <<c>>
  BY <1>1, <1>3, Zenon DEF Decoded
<1>6. b + 1 \in DOMAIN s
  BY <1>1
<1>7. Decoded(s, b + 2) = <<>>
  <2>1. b + 1 \in {b, b + 1} \cap DOMAIN s
    BY <1>6
  <2> QED BY <1>1, <1>3, <2>1, Zenon DEF Decoded
<1>8. Decoded(s, b + 3) = <<>>
  <2>1. b + 1 \in {b + 1, b + 2} \cap DOMAIN s
    BY <1>6
  <2> QED BY <1>1, <1>3, <2>1, Zenon DEF Decoded
<1>9. \A i \in 1..Len(s) : DecodedParts(s)[i] = Decoded(s, i)
  BY DEF DecodedParts
<1>10. t(b + 1) = t(b) \o <<c>> /\ t(b + 2) = t(b + 1) \o <<>> /\ t(b + 3) = t(b + 2) \o <<>>
  BY <1>1, <1>5, <1>7, <1>8, <1>9, PartsJoin, Zenon
<1>11. t(b + 1) \in Seq(Letter) /\ t(b + 2) \in Seq(Letter)
  <2>1. b + 1 \in 0..Len(s) /\ b + 2 \in 0..Len(s)
    BY <1>1
  <2> QED BY <2>1, PartsJoin, Zenon
<1>12. t(b + 1) \o <<>> = t(b + 1) /\ t(b + 2) \o <<>> = t(b + 2)
  <2> HIDE DEF t
  <2> QED BY <1>11
<1> QED BY <1>4, <1>10, <1>12, Zenon

\* Each character comes back from its escape.
LEMMA CharacterDecodes ==
  ASSUME NEW s \in Seq(Letter), NEW b \in Nat, NEW c \in Letter, NoneGoesOn(s, b),
         b + Len(Encoded(c)) <= Len(s),
         \A j \in 1..Len(Encoded(c)) : s[b + j] = Encoded(c)[j]
  PROVE  /\ TextOf(DecodedParts(s), b + Len(Encoded(c))) = TextOf(DecodedParts(s), b) \o <<c>>
         /\ NoneGoesOn(s, b + Len(Encoded(c)))
<1>1. CASE c # Percent /\ c # Dquote /\ Encoded(c) = <<c>>
  <2>1. Len(Encoded(c)) = 1 /\ s[b + 1] = c
    BY <1>1
  <2> QED BY <1>1, <2>1, LetterDecodes
<1>2. ASSUME NEW d \in {Two, Five}, Encoded(c) = <<Percent, Two, d>>, c = NumberedBy(Two, d)
      PROVE  /\ TextOf(DecodedParts(s), b + Len(Encoded(c))) = TextOf(DecodedParts(s), b) \o <<c>>
             /\ NoneGoesOn(s, b + Len(Encoded(c)))
  <2>1. Len(Encoded(c)) = 3 /\ s[b + 1] = Percent /\ s[b + 2] = Two /\ s[b + 3] = d
    BY <1>2
  <2>2. s[b + 2] \in Hexadecimal /\ s[b + 3] \in Hexadecimal
    BY <2>1 DEF Hexadecimal
  <2>3. b + 3 <= Len(s)
    BY <2>1
  <2> QED BY <1>2, <2>1, <2>2, <2>3, EscapeDecodes, Zenon
<1>3. NumberedBy(Two, Two) = Dquote /\ NumberedBy(Two, Five) = Percent
  BY DEF NumberedBy, Two, Five
<1> QED BY <1>1, <1>2, <1>3, CharactersAre

\* What was encoded comes back, behind text that holds no percent sign.
LEMMA EncodedDecodes ==
  ASSUME NEW p \in Seq(Letter), NEW path \in Seq(Letter), \A i \in 1..Len(p) : p[i] # Percent
  PROVE  /\ p \o RawUrlEncode(path) \in Seq(Letter)
         /\ RawUrlDecode(p \o RawUrlEncode(path)) = p \o path
<1> DEFINE E == Escapes(path)
           e(k) == TextOf(E, k)
           U == p \o RawUrlEncode(path)
           t(k) == TextOf(DecodedParts(U), k)
           M == Len(path)
           at(k) == Len(p) + Len(e(k))
<1>1. M \in Nat /\ E \in [1..M -> Seq(Letter)] /\ RawUrlEncode(path) = e(M)
  BY EscapesAre
<1>2. LaidOut(Letter, E, M)
  BY ONLY <1>1, Located, Zenon
<1>3. /\ e(0) = <<>> /\ \A k \in 0..M : e(k) \in Seq(Letter) /\ Len(e(k)) <= Len(e(M))
      /\ \A k \in 1..M : Len(e(k)) = Len(e(k - 1)) + Len(E[k])
      /\ \A k \in 1..M : \A j \in 1..Len(E[k]) : e(M)[Len(e(k - 1)) + j] = E[k][j]
  BY <1>2, Zenon DEF LaidOut
<1>4. e(M) \in Seq(Letter) /\ Len(e(M)) \in Nat /\ Len(p) \in Nat
  <2> HIDE DEF e
  <2> QED BY <1>1, <1>3
<1>5. /\ U \in Seq(Letter) /\ Len(U) = Len(p) + Len(e(M)) /\ \A i \in 1..Len(p) : U[i] = p[i]
      /\ \A i \in 1..Len(e(M)) : U[Len(p) + i] = e(M)[i]
  <2>1. U = p \o e(M)
    BY <1>1
  <2> HIDE DEF e, U
  <2> QED BY <1>4, <2>1
<1>6. Len(U) = Len(p) + Len(e(M))
  BY <1>5, Zenon
<1> DEFINE Behind(k) == t(at(k)) = p \o SubSeq(path, 1, k) /\ NoneGoesOn(U, at(k))
           S == {k \in Nat : k <= M => Behind(k)}
<1> HIDE DEF U, t
<1>7. Behind(0)
  <2>1. at(0) = Len(p) /\ Len(p) \in 0..Len(U)
    <3> HIDE DEF e
    <3>1. Len(e(0)) = 0
      BY <1>3
    <3> QED BY <1>4, <1>5, <3>1
  <2>2. \A i \in 1..Len(p) : ~IsEncodedAt(U, i)
    BY <1>5 DEF IsEncodedAt
  <2>3. SubSeq(U, 1, Len(p)) = p
    BY <1>4, <1>5
  <2>4. t(Len(p)) = p
    BY <1>5, <2>1, <2>2, <2>3, PlainDecodes, Zenon DEF t
  <2>5. p \o SubSeq(path, 1, 0) = p
    OBVIOUS
  <2>6. NoneGoesOn(U, Len(p))
    BY <1>4, <2>2 DEF NoneGoesOn
  <2> HIDE DEF at
  <2> QED BY <2>1, <2>4, <2>5, <2>6, Zenon
<1>8. ASSUME NEW k \in Nat, k + 1 <= M, Behind(k)
      PROVE  Behind(k + 1)
  <2> DEFINE c == path[k + 1]
             b == at(k)
             n == Len(Encoded(c))
  <2>2. k + 1 \in 1..M /\ (k + 1) - 1 = k /\ k \in 0..M /\ k + 1 \in 0..M /\ c \in Letter
    BY <1>1, <1>8
  <2>3. E[k + 1] = Encoded(c)
    BY <2>2 DEF Escapes
  <2>4. Encoded(c) \in Seq(Letter) /\ n \in Nat
    <3>1. Encoded(c) \in Seq(Letter)
      BY <2>2, CharactersAre, Zenon
    <3> QED BY <3>1
  <2>5. Len(e(k)) \in Nat /\ Len(e(k + 1)) = Len(e(k)) + n /\ Len(e(k + 1)) <= Len(e(M))
    <3>1. e(k) \in Seq(Letter)
      BY <1>3, <2>2, Zenon
    <3>2. Len(e(k)) \in Nat
      <4> HIDE DEF e
      <4> QED BY <3>1
    <3> QED BY <1>3, <2>2, <2>3, <3>2, Zenon
  <2>6. b \in Nat /\ at(k + 1) = b + n /\ b + n <= Len(U)
    <3>1. Len(e(M)) \in Nat /\ Len(p) \in Nat /\ n \in Nat
      BY <1>4, <2>4, Zenon
    <3> DEFINE l == Len(p)   x == Len(e(k))   y == Len(e(k + 1))   top == Len(e(M))
    <3>2. l \in Nat /\ x \in Nat /\ n \in Nat /\ top \in Nat /\ y = x + n /\ y <= top
      BY <2>5, <3>1, Zenon
    <3> HIDE DEF n, e, U, l, x, y, top
    <3>3. l + x \in Nat /\ l + y = (l + x) + n /\ (l + x) + n <= l + top
      BY ONLY <3>2
    <3>4. Len(U) = l + top /\ b = l + x /\ at(k + 1) = l + y
      BY <1>6, Zenon DEF l, x, y, top
    <3> QED BY <3>3, <3>4, Zenon
  <2>7. ASSUME NEW j \in 1..n
        PROVE  U[b + j] = Encoded(c)[j]
    <3>1. e(M)[Len(e(k)) + j] = Encoded(c)[j]
      BY <1>3, <2>2, <2>3, Zenon
    <3> HIDE DEF n, e, U
    <3>2. Len(e(k)) + j \in 1..Len(e(M))
      BY <1>4, <2>4, <2>5
    <3>3. U[Len(p) + (Len(e(k)) + j)] = Encoded(c)[j]
      BY <1>5, <3>1, <3>2, Zenon
    <3>4. Len(p) + (Len(e(k)) + j) = b + j
      BY <1>4, <2>4, <2>5
    <3> QED BY <3>3, <3>4, Zenon
  <2> HIDE DEF at
  <2>8. t(b) = p \o SubSeq(path, 1, k) /\ NoneGoesOn(U, b)
    BY <1>8, Zenon
  <2>9. t(b + n) = t(b) \o <<c>> /\ NoneGoesOn(U, b + n)
    BY <1>5, <2>2, <2>6, <2>7, <2>8, CharacterDecodes, Zenon DEF t
  <2>10. (p \o SubSeq(path, 1, k)) \o <<c>> = p \o SubSeq(path, 1, k + 1)
    <3>1. SubSeq(path, 1, k + 1) = SubSeq(path, 1, k) \o <<c>>
      BY <2>2, OneMoreOf, Zenon
    <3>2. SubSeq(path, 1, k) \in Seq(Letter) /\ <<c>> \in Seq(Letter)
      BY <2>2
    <3>3. (p \o SubSeq(path, 1, k)) \o <<c>> = p \o (SubSeq(path, 1, k) \o <<c>>)
      BY <3>2, LettersJoin, Zenon
    <3> QED BY <3>1, <3>3, Zenon
  <2> QED BY <2>6, <2>8, <2>9, <2>10, Zenon
<1> HIDE DEF Behind
<1>9. M \in S
  <2>1. 0 \in S /\ \A k \in Nat : k \in S => k + 1 \in S
    BY <1>1, <1>7, <1>8
  <2> HIDE DEF S
  <2> QED BY <1>1, <2>1, Induction
<1>10. t(at(M)) = p \o SubSeq(path, 1, M)
  BY <1>1, <1>9 DEF Behind
<1> QED
  <2>1. at(M) = Len(U)
    BY <1>5
  <2>2. SubSeq(path, 1, M) = path
    OBVIOUS
  <2>3. RawUrlDecode(U) = t(Len(U))
    BY <1>5, PartsDecoded, Zenon DEF t
  <2>4. RawUrlDecode(U) = p \o path
    BY <1>10, <2>1, <2>2, <2>3, Zenon
  <2> QED BY <1>5, <2>4 DEF U
-----------------------------------------------------------------------------
IsJoined(s, p, q, S) ==
  /\ s \in Seq(S) /\ Len(s) = Len(p) + Len(q)
  /\ \A i \in 1..Len(p) : s[i] = p[i]
  /\ \A i \in 1..Len(q) : s[Len(p) + i] = q[i]

LEMMA JoinIs ==
  ASSUME NEW S, NEW p \in Seq(S), NEW q \in Seq(S)
  PROVE  IsJoined(p \o q, p, q, S)
BY DEF IsJoined

(* The URL of a name.                                                         *)
LEMMA SchemeIs ==
  /\ FileUrl \in Seq(Letter) /\ Len(FileUrl) = 4
  /\ \A i \in 1..4 : FileUrl[i] # Percent /\ FileUrl[i] # BackSlash
<1> DEFINE f == "file"
<1>1. f \in Letter /\ Colon \in Letter /\ Slash \in Letter /\ f # Percent /\ f # BackSlash
      /\ Colon # Percent /\ Colon # BackSlash /\ Slash # Percent /\ Slash # BackSlash
  BY LettersAre DEF Colon, BackSlash
<1>2. FileUrl = <<f, Colon>> \o <<Slash, Slash>>
  BY DEF FileUrl, FileScheme
<1> HIDE DEF f
<1> QED BY ONLY <1>1, <1>2

\* What follows file:// is taken out.
LEMMA SchemeTaken ==
  ASSUME NEW rest \in Seq(Letter)
  PROVE  HasScheme(FileUrl \o rest) /\ AfterScheme(FileUrl \o rest) = rest
<1> DEFINE s == FileUrl \o rest
<1>0. FileUrl \in Seq(Letter) /\ Len(FileUrl) = 4
  BY SchemeIs, Zenon
<1>1. /\ s \in Seq(Letter) /\ Len(s) = 4 + Len(rest) /\ SubSeq(s, 1, Len(s)) = s
      /\ SubSeq(s, 1, 4) = FileUrl /\ SubSeq(s, 5, Len(s)) = rest
  <2> DEFINE f == FileUrl
  <2>1. f \in Seq(Letter) /\ Len(f) = 4 /\ s = f \o rest
    BY <1>0
  <2> HIDE DEF s, f
  <2>2. /\ s \in Seq(Letter) /\ Len(s) = 4 + Len(rest)
        /\ \A i \in 1..4 : s[i] = f[i]
        /\ \A i \in 1..Len(rest) : s[4 + i] = rest[i]
    <3>1. IsJoined(f \o rest, f, rest, Letter)
      BY <2>1, JoinIs, Zenon
    <3>2. IsJoined(s, f, rest, Letter)
      BY <2>1, <3>1, Zenon
    <3> QED BY ONLY <2>1, <3>2 DEF IsJoined
  <2>3. SubSeq(s, 1, Len(s)) = s
    BY ONLY <2>2
  <2>4. SubSeq(s, 1, 4) = f
    BY ONLY <2>1, <2>2, rest \in Seq(Letter)
  <2>5. SubSeq(s, 5, Len(s)) = rest
    BY ONLY <2>2, rest \in Seq(Letter)
  <2> QED BY <2>2, <2>3, <2>4, <2>5 DEF f
<1> HIDE DEF s
<1>2. Len(s) \in Nat /\ 1 \in 1..Len(s) /\ 4 <= Len(s)
  BY <1>1
<1>3. HasPrefix(SubSeq(s, 1, Len(s)), FileUrl)
  BY <1>1, <1>2, SchemeIs DEF HasPrefix
<1>4. HasScheme(s)
  BY <1>2, <1>3, Zenon DEF HasScheme
<1> DEFINE IsAt(i) == /\ HasPrefix(SubSeq(s, i, Len(s)), FileUrl)
                      /\ \A j \in 1..(i - 1) : ~HasPrefix(SubSeq(s, j, Len(s)), FileUrl)
           at == CHOOSE i \in 1..Len(s) : IsAt(i)
<1>5. IsAt(1)
  BY <1>3
<1>6. at \in 1..Len(s) /\ IsAt(at)
  BY <1>2, <1>5, Zenon
<1>7. at = 1
  <2> HIDE DEF at
  <2>1. 1 \notin 1..(at - 1)
    BY <1>3, <1>6, Zenon
  <2> QED BY <1>2, <1>6, <2>1
<1>8. AfterScheme(s) = SubSeq(s, at + 4, Len(s))
  BY Zenon DEF AfterScheme
<1>9. AfterScheme(s) = rest
  <2> HIDE DEF at
  <2>1. at + 4 = 5
    BY <1>7
  <2> QED BY <1>1, <1>8, <2>1, Zenon
<1> QED BY <1>4, <1>9, Zenon DEF s

\* A URL without backslashes is left as it is.
LEMMA NothingReplaced ==
  ASSUME NEW url \in Seq(Letter), \A i \in 1..Len(url) : url[i] # BackSlash
  PROVE  [i \in DOMAIN url |-> IF url[i] = BackSlash THEN Slash ELSE url[i]] = url
OBVIOUS

LEMMA NoBackSlash ==
  ASSUME NEW path \in Seq(Letter), \A i \in 1..Len(path) : path[i] # BackSlash
  PROVE  /\ RawUrlEncode(path) \in Seq(Letter)
         /\ \A i \in 1..Len(RawUrlEncode(path)) : RawUrlEncode(path)[i] # BackSlash
<1> DEFINE C == Letter \ {BackSlash}
<1>1. Percent \in C /\ Two \in C /\ Five \in C
  BY LettersAre DEF Two, Five, BackSlash
<1>2. ASSUME NEW i \in 1..Len(path)
      PROVE  Encoded(path[i]) \in Seq(C)
  <2>1. path[i] \in C /\ path[i] \in Letter
    OBVIOUS
  <2> HIDE DEF C
  <2>2. \/ Encoded(path[i]) = <<path[i]>>
        \/ Encoded(path[i]) = <<Percent, Two, Two>>
        \/ Encoded(path[i]) = <<Percent, Two, Five>>
    BY <2>1, CharactersAre, Zenon
  <2>3. <<path[i]>> \in Seq(C) /\ <<Percent, Two, Two>> \in Seq(C) /\ <<Percent, Two, Five>> \in Seq(C)
    BY <1>1, <2>1
  <2> QED BY <2>2, <2>3, Zenon
<1>3. Escapes(path) \in [1..Len(path) -> Seq(C)] /\ Len(path) \in Nat
  <2> HIDE DEF C
  <2> QED BY <1>2 DEF Escapes
<1>4. TextOf(Escapes(path), Len(path)) \in Seq(C)
  <2>1. Len(path) \in 0..Len(path)
    OBVIOUS
  <2> QED BY ONLY <1>3, <2>1, Flattened, Zenon
<1>5. RawUrlEncode(path) \in Seq(C)
  BY <1>4, EscapesAre, Zenon
<1> HIDE DEF C
<1>6. \A i \in 1..Len(RawUrlEncode(path)) : RawUrlEncode(path)[i] \in C
  BY <1>5
<1>7. RawUrlEncode(path) \in Seq(Letter)
  <2>1. \A x : x \in Seq(C) => x \in Seq(Letter)
    BY DEF C
  <2> QED BY <1>5, <2>1, Zenon
<1> QED BY <1>6, <1>7, Zenon DEF C

\* A URL that begins with file:// and then decodes to the rest.
LEMMA UrlDecodes ==
  ASSUME NEW url \in Seq(Letter), NEW rest \in Seq(Letter), RawUrlDecode(url) = FileUrl \o rest
  PROVE  PathFromUrl(url) = IF Len(rest) > 2 /\ rest[1] = Slash /\ rest[3] = Colon
                            THEN Tail(rest) ELSE rest
<1>1. HasScheme(FileUrl \o rest) /\ AfterScheme(FileUrl \o rest) = rest
  BY SchemeTaken
<1> QED BY <1>1, Zenon DEF PathFromUrl

LEMMA FullPathIs ==
  ASSUME NEW path \in Seq(STRING), path # <<>>
  PROVE  path \in Seq(Letter) /\ InWorkingDir(path) \in Seq(Letter) /\ FullPath(path) \in Seq(Letter)
<1>1. path \in Seq(Letter) /\ WorkingDir \in Seq(Letter) /\ <<Slash>> \in Seq(Letter)
  BY LettersAre, SourcesAssumption
<1>2. InWorkingDir(path) \in Seq(Letter)
  BY <1>1 DEF InWorkingDir
<1> QED BY <1>1, <1>2 DEF FullPath

\* An encoded path, behind a prefix of plain characters.
LEMMA EncodedUrl ==
  ASSUME NEW path \in Seq(Letter), \A i \in 1..Len(path) : path[i] # BackSlash,
         NEW p \in Seq(Letter), \A i \in 1..Len(p) : p[i] # Percent /\ p[i] # BackSlash
  PROVE  /\ p \o RawUrlEncode(path) \in Seq(Letter)
         /\ \A i \in 1..Len(p \o RawUrlEncode(path)) : (p \o RawUrlEncode(path))[i] # BackSlash
         /\ RawUrlDecode(p \o RawUrlEncode(path)) = p \o path
<1>1. RawUrlEncode(path) \in Seq(Letter)
      /\ \A i \in 1..Len(RawUrlEncode(path)) : RawUrlEncode(path)[i] # BackSlash
  BY NoBackSlash
<1>2. RawUrlDecode(p \o RawUrlEncode(path)) = p \o path
  BY EncodedDecodes, Zenon
<1> DEFINE E == RawUrlEncode(path)
<1> HIDE DEF E
<1> DEFINE U == p \o E
<1>3. /\ E \in Seq(Letter) /\ U = p \o E /\ \A i \in 1..Len(E) : E[i] # BackSlash
  BY <1>1 DEF E
<1> HIDE DEF U
<1>4. /\ U \in Seq(Letter) /\ Len(U) = Len(p) + Len(E) /\ \A i \in 1..Len(p) : U[i] = p[i]
      /\ \A i \in 1..Len(E) : U[Len(p) + i] = E[i]
  BY ONLY <1>3, p \in Seq(Letter)
<1>5. ASSUME NEW i \in 1..Len(U)
      PROVE  U[i] # BackSlash
  <2>1. CASE i \in 1..Len(p)
    BY <1>4, <2>1, Zenon
  <2>2. CASE i \notin 1..Len(p)
    <3> DEFINE j == i - Len(p)
    <3>1. j \in 1..Len(E) /\ i = Len(p) + j
      BY ONLY <1>3, <1>4, <2>2, i \in 1..Len(U), p \in Seq(Letter)
    <3> HIDE DEF j
    <3> QED BY <1>3, <1>4, <3>1, Zenon
  <2> QED BY <2>1, <2>2
<1> QED BY <1>2, <1>4, <1>5, Zenon DEF E, U

LEMMA RootedUrl ==
  ASSUME NEW path \in Seq(STRING), path # <<>>, ~AlteredByUrl(path), ~IsWrapper(path), ~NoRoot(path)
  PROVE  PathFromUrl(PathToUrl(path)) = path
<1> DEFINE E == RawUrlEncode(path)
<1>1. /\ path \in Seq(Letter) /\ FullPath(path) = path /\ ~IsUnc(path)
      /\ \A i \in 1..Len(path) : path[i] # BackSlash
      /\ path[1] # BackSlash /\ ~(path[1] = Slash /\ Len(path) > 2 /\ path[3] = Colon)
  <2>1. FullPath(path) = path
    BY DEF FullPath
  <2>2. path \in Seq(Letter)
    BY LettersAre
  <2>3. DOMAIN path = 1..Len(path) /\ 1 \in 1..Len(path)
    BY <2>2
  <2> QED BY <2>1, <2>2, <2>3, Zenon DEF AlteredByUrl
<1>2. CASE path[1] = Slash
  <2>1. FileUrl \o E \in Seq(Letter)
        /\ (\A i \in 1..Len(FileUrl \o E) : (FileUrl \o E)[i] # BackSlash)
        /\ RawUrlDecode(FileUrl \o E) = FileUrl \o path
    BY <1>1, EncodedUrl, SchemeIs, Zenon
  <2>2. PathToUrl(path) = [i \in DOMAIN (FileUrl \o E) |->
          IF (FileUrl \o E)[i] = BackSlash THEN Slash ELSE (FileUrl \o E)[i]]
    <3>1. path[1] \in {Slash, BackSlash}
      BY <1>2
    <3> QED BY <1>1, <3>1, Zenon DEF PathToUrl
  <2>3. PathToUrl(path) = FileUrl \o E
    BY <2>1, <2>2, NothingReplaced, Zenon
  <2>4. PathFromUrl(FileUrl \o E) = path
    BY <1>1, <1>2, <2>1, UrlDecodes, Zenon
  <2> QED BY <2>3, <2>4, Zenon
<1>3. CASE path[1] # Slash
  <2> DEFINE p == FileUrl \o <<Slash>>
             rest == <<Slash>> \o path
  <2>1. Second(path) = Colon /\ Len(path) > 1 /\ path[2] = Colon
    <3>1. Second(path) = Colon
      BY <1>1, <1>3, Zenon DEF NoRoot
    <3>2. "end" # Colon
      BY DEF Colon
    <3> QED BY <1>1, <3>1, <3>2 DEF Second
  <2>2. p \in Seq(Letter) /\ \A i \in 1..Len(p) : p[i] # Percent /\ p[i] # BackSlash
    <3> DEFINE f == FileUrl
    <3>1. f \in Seq(Letter) /\ Len(f) = 4 /\ \A i \in 1..4 : f[i] # Percent /\ f[i] # BackSlash
      BY SchemeIs, Zenon
    <3>2. Slash \in Letter /\ Slash # Percent /\ Slash # BackSlash
      BY LettersAre
    <3> HIDE DEF f
    <3>3. p = f \o <<Slash>>
      BY DEF f
    <3> HIDE DEF p
    <3>4. <<Slash>> \in Seq(Letter) /\ Len(<<Slash>>) = 1 /\ <<Slash>>[1] = Slash
      BY <3>2
    <3>5. /\ p \in Seq(Letter) /\ Len(p) = 4 + Len(<<Slash>>) /\ \A i \in 1..4 : p[i] = f[i]
          /\ \A i \in 1..Len(<<Slash>>) : p[4 + i] = <<Slash>>[i]
      <4>1. IsJoined(f \o <<Slash>>, f, <<Slash>>, Letter)
        BY <3>1, <3>4, JoinIs, Zenon
      <4>2. IsJoined(p, f, <<Slash>>, Letter)
        BY <3>3, <4>1, Zenon
      <4> DEFINE z == <<Slash>>
      <4> HIDE DEF z
      <4>3. /\ p \in Seq(Letter) /\ Len(p) = 4 + Len(z) /\ \A i \in 1..4 : p[i] = f[i]
            /\ \A i \in 1..Len(z) : p[4 + i] = z[i]
        <5>1. IsJoined(p, f, z, Letter)
          BY <4>2 DEF z
        <5> QED BY ONLY <3>1, <5>1 DEF IsJoined
      <4> QED BY <4>3, Zenon DEF z
    <3>6. Len(p) = 5 /\ p[5] = Slash
      BY ONLY <3>4, <3>5
    <3> QED BY ONLY <3>1, <3>2, <3>5, <3>6
  <2>3. /\ rest \in Seq(Letter) /\ Len(rest) > 2 /\ rest[1] = Slash /\ rest[3] = Colon
        /\ Tail(rest) = path
    <3>1. Slash \in Letter
      BY LettersAre
    <3> QED BY <1>1, <2>1, <3>1
  <2>4. p \o path = FileUrl \o rest
    <3>1. FileUrl \in Seq(Letter) /\ <<Slash>> \in Seq(Letter) /\ path \in Seq(Letter)
      BY <1>1, SchemeIs, LettersAre
    <3> QED BY <3>1, LettersJoin, Zenon
  <2>5. PathToUrl(path) = [i \in DOMAIN (p \o E) |->
          IF (p \o E)[i] = BackSlash THEN Slash ELSE (p \o E)[i]]
    <3>1. path[1] \notin {Slash, BackSlash}
      BY <1>1, <1>3
    <3> QED BY <1>1, <3>1, Zenon DEF PathToUrl
  <2> HIDE DEF p, rest
  <2>6. p \o E \in Seq(Letter) /\ (\A i \in 1..Len(p \o E) : (p \o E)[i] # BackSlash)
        /\ RawUrlDecode(p \o E) = p \o path
    BY <1>1, <2>2, EncodedUrl, Zenon
  <2>7. PathToUrl(path) = p \o E
    BY <2>5, <2>6, NothingReplaced, Zenon
  <2>8. PathFromUrl(p \o E) = Tail(rest)
    BY <2>3, <2>4, <2>6, UrlDecodes, Zenon
  <2> QED BY <2>3, <2>7, <2>8, Zenon
<1> QED BY <1>2, <1>3

LEMMA RelativeUrl ==
  ASSUME NEW path \in Seq(STRING), path # <<>>, ~AlteredByUrl(path), ~IsWrapper(path), NoRoot(path)
  PROVE  PathFromUrl(PathToUrl(path)) = FullPath(path)
<1> DEFINE full == InWorkingDir(path)
           url == FileUrl \o full
<1>1. full \in Seq(Letter)
  BY FullPathIs
<1>2. /\ FullPath(path) = full
      /\ \A i \in 1..Len(full) : full[i] # BackSlash /\ ~IsEncodedAt(full, i)
      /\ ~(full[1] = Slash /\ Len(full) > 2 /\ full[3] = Colon)
  <2>1. FullPath(path) = full
    BY DEF FullPath
  <2>2. DOMAIN full = 1..Len(full)
    BY <1>1
  <2> HIDE DEF full
  <2> QED BY <2>1, <2>2, Zenon DEF AlteredByUrl
<1>3. PathToUrl(path) = [i \in DOMAIN url |-> IF url[i] = BackSlash THEN Slash ELSE url[i]]
  BY Zenon DEF PathToUrl
<1> HIDE DEF full
<1>4. /\ url \in Seq(Letter) /\ Len(url) = 4 + Len(full) /\ \A i \in 1..4 : url[i] = FileUrl[i]
      /\ \A i \in 1..Len(full) : url[4 + i] = full[i]
  <2> DEFINE f == FileUrl
  <2>1. f \in Seq(Letter) /\ Len(f) = 4 /\ url = f \o full
    BY SchemeIs
  <2> HIDE DEF url, f
  <2>2. /\ url \in Seq(Letter) /\ Len(url) = 4 + Len(full) /\ \A i \in 1..4 : url[i] = f[i]
        /\ \A i \in 1..Len(full) : url[4 + i] = full[i]
    <3>1. IsJoined(f \o full, f, full, Letter)
      BY <1>1, <2>1, JoinIs, Zenon
    <3>2. IsJoined(url, f, full, Letter)
      BY <2>1, <3>1, Zenon
    <3> QED BY ONLY <2>1, <3>2 DEF IsJoined
  <2> QED BY <2>2, Zenon DEF f
<1> DEFINE L == Len(full)
<1>0. L \in Nat /\ Len(url) = 4 + L
  BY <1>1, <1>4
<1> HIDE DEF url
<1>5. ASSUME NEW i \in 1..Len(url)
      PROVE  url[i] # BackSlash /\ ~IsEncodedAt(url, i)
  <2>1. CASE i \in 1..4
    BY <1>4, <2>1, SchemeIs, Zenon DEF IsEncodedAt
  <2>2. CASE i \notin 1..4
    <3> DEFINE j == i - 4
    <3>1. j \in 1..Len(full) /\ i = 4 + j /\ full[j] # BackSlash /\ ~IsEncodedAt(full, j)
          /\ url[i] = full[j]
      <4> HIDE DEF L
      <4>1. j \in 1..L /\ i = 4 + j
        BY ONLY <1>0, <2>2, i \in 1..Len(url)
      <4> HIDE DEF j
      <4> QED BY <1>2, <1>4, <4>1, Zenon DEF L
    <3>2. ASSUME IsEncodedAt(url, i)
          PROVE  FALSE
      <4>1. i + 2 <= Len(url)
        BY <3>2, Zenon DEF IsEncodedAt
      <4>2. j + 1 \in 1..Len(full) /\ j + 2 \in 1..Len(full) /\ i + 1 = 4 + (j + 1)
            /\ i + 2 = 4 + (j + 2) /\ j + 2 <= Len(full)
        <5>1. j \in 1..L
          BY <3>1
        <5> HIDE DEF L
        <5>2. /\ j + 1 \in 1..L /\ j + 2 \in 1..L /\ i + 1 = 4 + (j + 1)
              /\ i + 2 = 4 + (j + 2) /\ j + 2 <= L
          BY ONLY <1>0, <3>1, <5>1, <4>1
        <5> QED BY <5>2 DEF L
      <4>3. url[i + 1] = full[j + 1] /\ url[i + 2] = full[j + 2]
        <5>1. url[4 + (j + 1)] = full[j + 1] /\ url[4 + (j + 2)] = full[j + 2]
          BY <1>4, <4>2, Zenon
        <5> QED BY <4>2, <5>1, Zenon
      <4> QED BY <3>1, <3>2, <4>2, <4>3, Zenon DEF IsEncodedAt
    <3> QED BY <3>1, <3>2
  <2> QED BY <2>1, <2>2
<1>6. PathToUrl(path) = url
  BY <1>3, <1>4, <1>5, NothingReplaced, Zenon
<1>7. RawUrlDecode(url) = url
  <2>1. Len(url) \in 0..Len(url) /\ SubSeq(url, 1, Len(url)) = url
    BY <1>4
  <2>2. TextOf(DecodedParts(url), Len(url)) = SubSeq(url, 1, Len(url))
    BY <1>4, <1>5, <2>1, PlainDecodes, Zenon
  <2> QED BY <1>4, <2>1, <2>2, PartsDecoded, Zenon
<1>8. PathFromUrl(url) = full
  <2>1. RawUrlDecode(url) = FileUrl \o full
    BY <1>7 DEF url
  <2> QED BY <1>1, <1>2, <1>4, <2>1, UrlDecodes, Zenon
<1> QED BY <1>2, <1>6, <1>8, Zenon

LEMMA UrlsLeadBack ==
  ASSUME NEW path \in Seq(STRING), path # <<>>
  PROVE  UrlLeadsBack(path)
<1> SUFFICES ASSUME ~AlteredByUrl(path)
             PROVE  PathFromUrl(PathToUrl(path)) = FullPath(path)
  BY Zenon DEF UrlLeadsBack
<1>1. CASE IsWrapper(path)
  <2>1. FullPath(path) = path /\ path \in Seq(Letter)
    BY <1>1, LettersAre DEF FullPath
  <2>2. ~TakenForUrl(path) /\ \A i \in 1..Len(path) : path[i] # BackSlash
    <3>1. DOMAIN path = 1..Len(path)
      OBVIOUS
    <3> QED BY <1>1, <2>1, <3>1, Zenon DEF AlteredByUrl
  <2>3. PathToUrl(path) = [i \in DOMAIN path |-> IF path[i] = BackSlash THEN Slash ELSE path[i]]
    BY <1>1, Zenon DEF PathToUrl
  <2>4. PathToUrl(path) = path
    BY <2>1, <2>2, <2>3, NothingReplaced, Zenon
  <2>5. PathFromUrl(path) = path
    BY <2>2, Zenon DEF PathFromUrl, TakenForUrl
  <2> QED BY <2>1, <2>4, <2>5, Zenon
<1>2. CASE ~IsWrapper(path) /\ NoRoot(path)
  BY <1>2, RelativeUrl, Zenon
<1>3. CASE ~IsWrapper(path) /\ ~NoRoot(path)
  <2>1. FullPath(path) = path
    BY <1>3 DEF FullPath
  <2> QED BY <1>3, <2>1, RootedUrl, Zenon
<1> QED BY <1>1, <1>2, <1>3

-----------------------------------------------------------------------------
(* The lines of a file.  StreamAfter is the stream after m of them were asked  *)
(* for, and EndsAt how many it takes to come to its end.                       *)
IsFile(S, file) == file.lines \in Seq(S) \ {<<>>} /\ file.early \in BOOLEAN

EndsAt(file) == IF file.early THEN Len(file.lines) ELSE Len(file.lines) + 1
LineAt(file, m) == IF m \in 1..Len(file.lines) THEN <<file.lines[m]>> ELSE <<>>
StreamAfter(file, m) ==
  [at |-> Lower(m, Len(file.lines)), line |-> LineAt(file, m), eof |-> m >= EndsAt(file)]

LEMMA FileIs ==
  ASSUME NEW S, NEW file, IsFile(S, file)
  PROVE  /\ file.lines \in Seq(S) /\ Len(file.lines) \in Nat /\ Len(file.lines) >= 1
         /\ EndsAt(file) \in {Len(file.lines), Len(file.lines) + 1}
         /\ EndsAt(file) = Len(file.lines) <=> file.early
<1>1. file.lines \in Seq(S) /\ Len(file.lines) \in Nat /\ Len(file.lines) >= 1
  BY DEF IsFile
<1> QED BY <1>1 DEF IsFile, EndsAt

LEMMA GetsNext ==
  ASSUME NEW S, NEW file, IsFile(S, file), NEW m \in Nat
  PROVE  Gets(file, StreamAfter(file, m)) = StreamAfter(file, m + 1)
<1> DEFINE L == Len(file.lines)
           s == StreamAfter(file, m)
<1>1. L \in Nat /\ L >= 1 /\ EndsAt(file) \in {L, L + 1} /\ (EndsAt(file) = L <=> file.early)
      /\ file.early \in BOOLEAN
  BY FileIs, Zenon DEF IsFile
<1> DEFINE top == EndsAt(file)
<1>2. s.at = Lower(m, L) /\ s = [at |-> Lower(m, L), line |-> LineAt(file, m), eof |-> m >= top]
  BY DEF StreamAfter
<1> HIDE DEF L, s, top
<1>3. CASE m < L
  <2>1. s.at = m /\ m + 1 \in 1..L /\ Lower(m + 1, L) = m + 1
    BY <1>1, <1>2, <1>3 DEF Lower
  <2>2. LineAt(file, m + 1) = <<file.lines[m + 1]>>
    BY <2>1, Zenon DEF LineAt, L
  <2>3. (m + 1 >= top) = (m + 1 = L /\ file.early)
    BY ONLY <1>1, <1>3, m \in Nat DEF top
  <2>4. Gets(file, s) = [at |-> m + 1, line |-> <<file.lines[m + 1]>>, eof |-> m + 1 = L /\ file.early]
    <3>1. s.at < L
      BY <1>3, <2>1
    <3> QED BY <2>1, <3>1, Zenon DEF Gets, L
  <2>5. StreamAfter(file, m + 1) = [at |-> m + 1, line |-> <<file.lines[m + 1]>>, eof |-> m + 1 >= top]
    BY <2>1, <2>2, Zenon DEF StreamAfter, L, top
  <2> QED BY <2>3, <2>4, <2>5, Zenon DEF s
<1>4. CASE ~(m < L)
  <2>1. /\ Lower(m, L) = L /\ Lower(m + 1, L) = L /\ m + 1 \notin 1..L /\ (m + 1 >= top) = TRUE
        /\ ~(s.at < L)
    BY <1>1, <1>2, <1>4 DEF Lower, top
  <2>2. LineAt(file, m + 1) = <<>>
    BY <2>1, Zenon DEF LineAt, L
  <2>3. Gets(file, s) = [at |-> s.at, line |-> <<>>, eof |-> TRUE]
    BY <2>1, Zenon DEF Gets, L
  <2>4. s.at = L
    BY <1>2, <2>1
  <2>5. StreamAfter(file, m + 1) = [at |-> L, line |-> <<>>, eof |-> TRUE]
    BY <2>1, <2>2, Zenon DEF StreamAfter, L, top
  <2> QED BY <2>3, <2>4, <2>5, Zenon DEF s
<1> QED BY <1>3, <1>4

\* The loop that skips lines.
LEMMA SkipLoop ==
  ASSUME NEW file, NEW N \in Nat, NEW w, w[0] = Opened(N),
         \A n \in 1..N : w[n] = Skipping(file, w[n - 1])
  PROVE  SkippedTo(file, N) = w[N]
<1> DEFINE G(f) == [n \in 0..N |-> IF n = 0 THEN Opened(N) ELSE Skipping(file, f[n - 1])]
           e == CHOOSE f : f = G(f)
           h == [n \in 0..N |-> w[n]]
<1>1. SkippedTo(file, N) = e[N]
  BY Zenon DEF SkippedTo
<1>2. h = G(h)
  <2> SUFFICES ASSUME NEW n \in 0..N
               PROVE  h[n] = IF n = 0 THEN Opened(N) ELSE Skipping(file, h[n - 1])
    BY Zenon
  <2>1. h[n] = w[n] /\ (n # 0 => n \in 1..N /\ h[n - 1] = w[n - 1])
    OBVIOUS
  <2> HIDE DEF h
  <2>2. CASE n = 0
    BY <2>1, <2>2
  <2>3. CASE n # 0
    BY <2>1, <2>3, Zenon
  <2> QED BY <2>2, <2>3
<1>3. e = G(e)
  <2> HIDE DEF G, h
  <2> QED BY <1>2, Zenon
<1>4. \A n \in 0..N : e[n] = IF n = 0 THEN Opened(N) ELSE Skipping(file, e[n - 1])
  <2> HIDE DEF e
  <2> QED BY <1>3, Zenon
<1> HIDE DEF e, G, h
<1> DEFINE S == {n \in Nat : n <= N => e[n] = w[n]}
<1>5. 0 \in S
  <2>1. 0 \in 0..N /\ 0 \in Nat
    OBVIOUS
  <2>2. e[0] = w[0]
    BY <1>4, <2>1, Zenon
  <2> QED BY <2>1, <2>2, Zenon
<1>6. ASSUME NEW n \in Nat, n \in S
      PROVE  n + 1 \in S
  <2> SUFFICES ASSUME n + 1 <= N
               PROVE  e[n + 1] = w[n + 1]
    OBVIOUS
  <2>1. /\ n + 1 \in 0..N /\ n + 1 \in 1..N /\ n + 1 # 0 /\ (n + 1) - 1 = n /\ e[n] = w[n]
    BY <1>6
  <2> QED BY <1>4, <2>1, Zenon
<1> HIDE DEF S
<1>7. N \in S
  BY <1>5, <1>6, Induction
<1> QED BY <1>1, <1>7 DEF S

LEMMA SkippedIs ==
  ASSUME NEW S, NEW file, IsFile(S, file), NEW b \in Nat
  PROVE  LET m == Lower(b, EndsAt(file))
         IN  SkippedTo(file, b) = [stream |-> StreamAfter(file, m), left |-> b - m]
<1> DEFINE top == EndsAt(file)
           State(m) == [stream |-> StreamAfter(file, m), left |-> b - m]
           w == [n \in 0..b |-> State(Lower(n, top))]
<1>1. top \in Nat /\ top >= 1
  BY FileIs
<1>2. w[0] = Opened(b)
  <2>1. Lower(0, top) = 0 /\ (0 >= top) = FALSE
    BY <1>1 DEF Lower
  <2>2. Lower(0, Len(file.lines)) = 0 /\ LineAt(file, 0) = <<>>
    BY FileIs DEF Lower, LineAt
  <2>3. StreamAfter(file, 0) = [at |-> 0, line |-> <<>>, eof |-> FALSE]
    BY <2>1, <2>2, Zenon DEF StreamAfter
  <2>4. 0 \in 0..b /\ b - 0 = b
    OBVIOUS
  <2>5. w[0] = State(Lower(0, top))
    BY <2>4, Zenon
  <2> QED BY <2>1, <2>3, <2>4, <2>5, Zenon DEF Opened
<1>3. ASSUME NEW n \in 1..b
      PROVE  w[n] = Skipping(file, w[n - 1])
  <2> DEFINE m == Lower(n - 1, top)
  <2>1. n \in 0..b /\ n - 1 \in 0..b
    OBVIOUS
  <2>2. w[n] = State(Lower(n, top)) /\ w[n - 1] = State(m)
    <3> HIDE DEF State
    <3> QED BY <2>1, Zenon
  <2> HIDE DEF w
  <2>3. m \in Nat /\ (m >= top) \in BOOLEAN /\ State(m).stream = StreamAfter(file, m) /\ State(m).left = b - m
        /\ StreamAfter(file, m).eof = (m >= top)
    BY <1>1 DEF Lower, StreamAfter
  <2> HIDE DEF top
  <2>4. CASE m >= top
    <3>1. Lower(n, top) = m
      BY <1>1, <2>4 DEF Lower
    <3>2. Skipping(file, State(m)) = State(m)
      <4> HIDE DEF State, m
      <4> QED BY <2>3, <2>4, Zenon DEF Skipping
    <3> QED BY <2>2, <3>1, <3>2, Zenon
  <2>5. CASE ~(m >= top)
    <3>1. Lower(n, top) = m + 1
      BY <1>1, <2>5 DEF Lower
    <3>2. (b - m) - 1 = b - (m + 1)
      BY <2>3
    <3>3. Gets(file, StreamAfter(file, m)) = StreamAfter(file, m + 1)
      <4> HIDE DEF m
      <4> QED BY <2>3, GetsNext, Zenon
    <3>4. Skipping(file, State(m)) = [stream |-> Gets(file, State(m).stream), left |-> State(m).left - 1]
      <4> HIDE DEF State, m
      <4> QED BY <2>3, <2>5, Zenon DEF Skipping
    <3>5. Skipping(file, State(m)) = [stream |-> StreamAfter(file, m + 1), left |-> b - (m + 1)]
      <4> HIDE DEF State, m
      <4> QED BY <2>3, <3>2, <3>3, <3>4, Zenon
    <3> QED BY <2>2, <3>1, <3>5, Zenon
  <2> QED BY <2>4, <2>5
<1> HIDE DEF w
<1>5. SkippedTo(file, b) = w[b]
  BY <1>2, <1>3, SkipLoop, Zenon
<1> QED
  <2>1. b \in 0..b
    OBVIOUS
  <2> QED BY <1>5, <2>1, Zenon DEF w

\* The loop that reads them.
LEMMA ReadLoop ==
  ASSUME NEW file, NEW skipped, NEW count, NEW N \in Nat, N = Higher(count - skipped.left, 1),
         NEW w, w[0] = ToRead(skipped), \A n \in 1..N : w[n] = Reading(file, w[n - 1], count)
  PROVE  ReadOn(file, skipped, count) = w[N].text
<1> DEFINE G(f) == [n \in 0..N |-> IF n = 0 THEN ToRead(skipped) ELSE Reading(file, f[n - 1], count)]
           e == CHOOSE f : f = G(f)
           h == [n \in 0..N |-> w[n]]
<1>1. ReadOn(file, skipped, count) = e[N].text
  BY Zenon DEF ReadOn
<1>2. h = G(h)
  <2> SUFFICES ASSUME NEW n \in 0..N
               PROVE  h[n] = IF n = 0 THEN ToRead(skipped) ELSE Reading(file, h[n - 1], count)
    BY Zenon
  <2>1. h[n] = w[n] /\ (n # 0 => n \in 1..N /\ h[n - 1] = w[n - 1])
    OBVIOUS
  <2> HIDE DEF h
  <2>2. CASE n = 0
    BY <2>1, <2>2
  <2>3. CASE n # 0
    BY <2>1, <2>3, Zenon
  <2> QED BY <2>2, <2>3
<1>3. e = G(e)
  <2> HIDE DEF G, h
  <2> QED BY <1>2, Zenon
<1>4. \A n \in 0..N : e[n] = IF n = 0 THEN ToRead(skipped) ELSE Reading(file, e[n - 1], count)
  <2> HIDE DEF e
  <2> QED BY <1>3, Zenon
<1> HIDE DEF e, G, h
<1> DEFINE S == {n \in Nat : n <= N => e[n] = w[n]}
<1>5. 0 \in S
  <2>1. 0 \in 0..N /\ 0 \in Nat
    OBVIOUS
  <2>2. e[0] = w[0]
    BY <1>4, <2>1, Zenon
  <2> QED BY <2>1, <2>2, Zenon
<1>6. ASSUME NEW n \in Nat, n \in S
      PROVE  n + 1 \in S
  <2> SUFFICES ASSUME n + 1 <= N
               PROVE  e[n + 1] = w[n + 1]
    OBVIOUS
  <2>1. /\ n + 1 \in 0..N /\ n + 1 \in 1..N /\ n + 1 # 0 /\ (n + 1) - 1 = n /\ e[n] = w[n]
    BY <1>6
  <2> QED BY <1>4, <2>1, Zenon
<1> HIDE DEF S
<1>7. N \in S
  BY <1>5, <1>6, Induction
<1> QED BY <1>1, <1>7 DEF S

\* Lines from m on: none for m = 0, which is before the first one.
LinesBehind(file, m, t) == SubSeq(file.lines, Higher(m, 1), Lower(m + t - 1, Len(file.lines)))

LEMMA NextLine ==
  ASSUME NEW S, NEW file, IsFile(S, file), NEW m \in Nat, NEW t \in Nat
  PROVE  LinesBehind(file, m, t) \o LineAt(file, m + t) = LinesBehind(file, m, t + 1)
<1> DEFINE L == Len(file.lines)
           lines == file.lines
           a == Higher(m, 1)
           z == Lower(m + t - 1, L)
<1>1. lines \in Seq(S) /\ L \in Nat /\ L >= 1 /\ L = Len(lines)
  BY FileIs
<1>2. a \in Nat \ {0} /\ z \in Int /\ z <= L
  BY <1>1 DEF Higher, Lower
<1>3. LinesBehind(file, m, t) = SubSeq(lines, a, z)
  BY Zenon DEF LinesBehind
<1>4. LinesBehind(file, m, t + 1) = SubSeq(lines, a, Lower(m + t, L))
  <2>1. m + (t + 1) - 1 = m + t
    OBVIOUS
  <2> QED BY <2>1, Zenon DEF LinesBehind
<1>5. CASE m + t \in 1..L
  <2>1. z = m + t - 1 /\ Lower(m + t, L) = z + 1 /\ z + 1 = m + t /\ a <= z + 1 /\ z + 1 <= L
    BY <1>1, <1>5 DEF Lower, Higher
  <2>2. LineAt(file, m + t) = <<lines[z + 1]>>
    BY <1>5, <2>1, Zenon DEF LineAt
  <2> HIDE DEF lines, L, a, z
  <2>3. SubSeq(lines, a, z + 1) = SubSeq(lines, a, z) \o <<lines[z + 1]>>
    BY ONLY <1>1, <1>2, <2>1
  <2> QED BY <1>3, <1>4, <2>1, <2>2, <2>3, Zenon
<1>6. CASE m + t \notin 1..L
  <2>1. LineAt(file, m + t) = <<>>
    BY <1>6, Zenon DEF LineAt
  <2>2. SubSeq(lines, a, Lower(m + t, L)) = SubSeq(lines, a, z)
    <3>1. CASE m + t = 0
      <4>1. Lower(m + t, L) = 0 /\ z = -1 /\ a = 1
        BY <1>1, <3>1 DEF Lower, Higher
      <4> HIDE DEF lines, L, a, z
      <4>2. SubSeq(lines, 1, 0) = <<>> /\ SubSeq(lines, 1, -1) = <<>>
        BY ONLY <1>1
      <4> QED BY <4>1, <4>2, Zenon
    <3>2. CASE m + t > L
      <4>1. Lower(m + t, L) = L /\ z = L
        BY <1>1, <3>2 DEF Lower
      <4> HIDE DEF lines, L, a, z
      <4> QED BY <4>1, Zenon
    <3>3. m + t = 0 \/ m + t > L
      <4> HIDE DEF L
      <4> QED BY <1>1, <1>6
    <3> QED BY <3>1, <3>2, <3>3, Zenon
  <2>3. SubSeq(lines, a, z) \in Seq(S)
    <3> HIDE DEF lines, L, a, z
    <3> QED BY ONLY <1>1, <1>2
  <2>4. SubSeq(lines, a, z) \o <<>> = SubSeq(lines, a, z)
    <3> HIDE DEF lines, L, a, z
    <3> QED BY ONLY <2>3
  <2> QED BY <1>3, <1>4, <2>1, <2>2, <2>4, Zenon
<1> QED BY <1>5, <1>6

\* What the loop has read after t turns that began at m, and when it is done.
IsLastTurn(file, m, t, N) == t >= 1 /\ (t >= N \/ (file.early /\ m + t - 1 >= Len(file.lines)))
AfterTurns(file, m, l, t, N) ==
  [text |-> LinesBehind(file, m, t), done |-> IsLastTurn(file, m, t, N),
   stream |-> StreamAfter(file, m + t), i |-> l + t]

Turning(S, file, m, t, l, count, N) ==
  /\ IsFile(S, file) /\ m \in Nat /\ t \in Nat /\ l \in Nat /\ count \in Int
  /\ N \in Nat /\ N = Higher(count - l, 1) /\ t < N
  /\ file.early => m + t <= Len(file.lines)

LEMMA TurnReads ==
  ASSUME NEW S, NEW file, NEW m, NEW t, NEW l, NEW count, NEW N, Turning(S, file, m, t, l, count, N)
  PROVE  /\ ~IsLastTurn(file, m, t, N)
         /\ Reading(file, AfterTurns(file, m, l, t, N), count) = AfterTurns(file, m, l, t + 1, N)
<1> DEFINE L == Len(file.lines)
           r == AfterTurns(file, m, l, t, N)
           s == StreamAfter(file, m + t)
<1>0. /\ IsFile(S, file) /\ m \in Nat /\ t \in Nat /\ l \in Nat /\ count \in Int
      /\ N \in Nat /\ N = Higher(count - l, 1) /\ t < N
      /\ file.early => m + t <= Len(file.lines)
  BY Zenon DEF Turning
<1>1. L \in Nat /\ L >= 1 /\ EndsAt(file) \in {L, L + 1} /\ (EndsAt(file) = L <=> file.early)
      /\ file.early \in BOOLEAN
  BY <1>0, FileIs, Zenon DEF IsFile
<1>2. ~IsLastTurn(file, m, t, N)
  BY <1>0, <1>1 DEF IsLastTurn
<1>3. r.text = LinesBehind(file, m, t) /\ r.done = IsLastTurn(file, m, t, N) /\ r.stream = s /\ r.i = l + t
  <2> HIDE DEF s
  <2>1. r = [text |-> LinesBehind(file, m, t), done |-> IsLastTurn(file, m, t, N), stream |-> s, i |-> l + t]
    BY Zenon DEF AfterTurns, s
  <2> HIDE DEF r
  <2> QED BY ONLY <2>1
<1>4. s.line = LineAt(file, m + t) /\ s.eof = (m + t >= EndsAt(file))
  BY DEF StreamAfter
<1> HIDE DEF r, s
<1>5. ((s.line # <<>> /\ s.eof) \/ r.i + 1 >= count) = IsLastTurn(file, m, t + 1, N)
  <2>1. s.line # <<>> <=> m + t \in 1..L
    <3>1. CASE m + t \in 1..L
      <4>1. s.line = <<file.lines[m + t]>>
        BY <1>4, <3>1, Zenon DEF LineAt
      <4> QED BY <3>1, <4>1
    <3>2. CASE m + t \notin 1..L
      <4>1. s.line = <<>>
        BY <1>4, <3>2, Zenon DEF LineAt
      <4> QED BY <3>2, <4>1
    <3> QED BY <3>1, <3>2
  <2>2. r.i + 1 >= count <=> t + 1 >= N
    BY <1>0, <1>3 DEF Higher
  <2> DEFINE top == EndsAt(file)
  <2> HIDE DEF L, top
  <2>3. m + t \in 1..L /\ m + t >= top <=> file.early /\ m + (t + 1) - 1 >= L
    <3>1. /\ L \in Nat /\ L >= 1 /\ top \in {L, L + 1} /\ (top = L <=> file.early) /\ file.early \in BOOLEAN
      BY <1>1, Zenon DEF L, top
    <3>2. m \in Nat /\ t \in Nat /\ (file.early => m + t <= L)
      BY <1>0, Zenon DEF L
    <3>3. CASE file.early
      <4>1. top = L /\ m + t <= L
        BY <3>1, <3>2, <3>3, Zenon
      <4>2. m + t \in 1..L /\ m + t >= top <=> m + (t + 1) - 1 >= L
        BY ONLY <3>1, <3>2, <4>1
      <4> QED BY <3>3, <4>2, Zenon
    <3>4. CASE ~file.early
      <4>1. top = L + 1
        BY <3>1, <3>4, Zenon
      <4>2. ~(m + t \in 1..L /\ m + t >= top)
        BY ONLY <3>1, <3>2, <4>1
      <4> QED BY <3>4, <4>2, Zenon
    <3> QED BY <3>3, <3>4, Zenon
  <2>4. IsLastTurn(file, m, t + 1, N) <=> (t + 1 >= N \/ (file.early /\ m + (t + 1) - 1 >= L))
    <3>1. t + 1 >= 1
      BY <1>0
    <3> QED BY <3>1, Zenon DEF IsLastTurn, L
  <2>5. s.eof <=> m + t >= top
    BY <1>4 DEF top
  <2>6. ((s.line # <<>> /\ s.eof) \/ r.i + 1 >= count) <=> IsLastTurn(file, m, t + 1, N)
    BY <2>1, <2>2, <2>3, <2>4, <2>5, Zenon
  <2>7. IsLastTurn(file, m, t + 1, N) \in BOOLEAN
    BY Zenon DEF IsLastTurn
  <2> QED BY <2>6, <2>7
<1>6. Gets(file, s) = StreamAfter(file, m + (t + 1))
  <2>1. (m + t) + 1 = m + (t + 1) /\ m + t \in Nat
    BY <1>0
  <2>2. Gets(file, s) = StreamAfter(file, (m + t) + 1)
    BY <1>0, <2>1, GetsNext, Zenon DEF s
  <2> QED BY <2>1, <2>2, Zenon
<1>7. r.text \o s.line = LinesBehind(file, m, t + 1)
  <2>1. LinesBehind(file, m, t) \o LineAt(file, m + t) = LinesBehind(file, m, t + 1)
    BY <1>0, NextLine, Zenon
  <2> QED BY <1>3, <1>4, <2>1, Zenon
<1>8. r.i + 1 = l + (t + 1)
  BY <1>0, <1>3
<1>9. Reading(file, r, count) = [text |-> LinesBehind(file, m, t + 1), done |-> IsLastTurn(file, m, t + 1, N),
                                 stream |-> StreamAfter(file, m + (t + 1)), i |-> l + (t + 1)]
  <2>1. ~r.done
    BY <1>2, <1>3, Zenon
  <2>2. Reading(file, r, count) =
          [text |-> r.text \o r.stream.line,
           done |-> (r.stream.line # <<>> /\ r.stream.eof) \/ r.i + 1 >= count,
           stream |-> Gets(file, r.stream), i |-> r.i + 1]
    BY <2>1, Zenon DEF Reading
  <2> QED BY <1>3, <1>5, <1>6, <1>7, <1>8, <2>2, Zenon
<1> QED BY <1>2, <1>9, Zenon DEF r, AfterTurns

Reads(file, m, l, count) ==
  ReadOn(file, [stream |-> StreamAfter(file, m), left |-> l], count)
    = LinesBehind(file, m, Higher(count - l, 1))

LEMMA ReadIs ==
  ASSUME NEW S, NEW file, IsFile(S, file), NEW m \in Nat, m <= EndsAt(file), NEW l \in Nat,
         NEW count \in Int
  PROVE  Reads(file, m, l, count)
<1> DEFINE N == Higher(count - l, 1)
           L == Len(file.lines)
           skipped == [stream |-> StreamAfter(file, m), left |-> l]
           top == IF file.early THEN L - m + 1 ELSE N
           T(n) == Lower(n, top)
           After(t) == AfterTurns(file, m, l, t, N)
           w == [n \in 0..N |-> After(T(n))]
<1>1. /\ L \in Nat /\ L >= 1 /\ EndsAt(file) \in {L, L + 1} /\ (EndsAt(file) = L <=> file.early)
      /\ file.early \in BOOLEAN /\ file.lines \in Seq(S)
  BY FileIs, Zenon DEF IsFile
<1>2. N \in Nat /\ N >= 1 /\ skipped.left = l /\ skipped.stream = StreamAfter(file, m)
  BY DEF Higher
<1>3. top \in Nat /\ top >= 1 /\ (file.early => m <= L /\ top = L - m + 1) /\ (~file.early => top = N)
  <2>1. file.early => m <= L
    BY <1>1
  <2> HIDE DEF N, L
  <2> QED BY <1>1, <1>2, <2>1
<1> HIDE DEF N, L, skipped, top, After
<1>4. w[0] = ToRead(skipped)
  <2>1. T(0) = 0 /\ 0 \in 0..N
    BY <1>2, <1>3 DEF Lower
  <2>2. LinesBehind(file, m, 0) = <<>>
    <3> DEFINE z == Lower(m + 0 - 1, L)
               a == Higher(m, 1)
               lines == file.lines
    <3>1. lines \in Seq(S) /\ z \in Int /\ a \in Nat \ {0} /\ z < a
      BY <1>1 DEF Lower, Higher
    <3>2. LinesBehind(file, m, 0) = SubSeq(lines, a, z)
      BY Zenon DEF LinesBehind, L
    <3> HIDE DEF z, a, lines
    <3>3. SubSeq(lines, a, z) = <<>>
      BY ONLY <3>1
    <3> QED BY <3>2, <3>3, Zenon
  <2>3. IsLastTurn(file, m, 0, N) = FALSE
    BY DEF IsLastTurn
  <2>4. m + 0 = m /\ l + 0 = l
    OBVIOUS
  <2>5. w[0] = After(T(0))
    BY <2>1, Zenon
  <2> HIDE DEF w
  <2> QED BY <1>2, <2>1, <2>2, <2>3, <2>4, <2>5, Zenon DEF ToRead, After, AfterTurns
<1>5. ASSUME NEW n \in 1..N
      PROVE  w[n] = Reading(file, w[n - 1], count)
  <2> DEFINE t == T(n - 1)
  <2>1. n \in 0..N /\ n - 1 \in 0..N
    BY <1>2
  <2>2. w[n] = After(T(n)) /\ w[n - 1] = After(t)
    BY <2>1, Zenon
  <2>3. t \in Nat /\ t <= n - 1 /\ t < N
    BY <1>2, <1>3 DEF Lower
  <2> HIDE DEF w
  <2>4. CASE n - 1 < top
    <3>1. T(n) = t + 1 /\ (file.early => m + t <= L)
      BY <1>1, <1>2, <1>3, <2>4 DEF Lower
    <3> HIDE DEF t
    <3>2. Reading(file, After(t), count) = After(t + 1)
      <4>1. N = Higher(count - l, 1)
        BY DEF N
      <4>2. file.early => m + t <= Len(file.lines)
        BY <3>1 DEF L
      <4>3. Reading(file, AfterTurns(file, m, l, t, N), count) = AfterTurns(file, m, l, t + 1, N)
        <5>1. /\ IsFile(S, file) /\ m \in Nat /\ t \in Nat /\ l \in Nat /\ count \in Int
              /\ N \in Nat /\ t < N
          BY <1>2, <2>3
        <5>2. Turning(S, file, m, t, l, count, N)
          BY ONLY <4>1, <4>2, <5>1, Zenon DEF Turning
        <5> QED BY <5>2, TurnReads
      <4> QED BY <4>3, Zenon DEF After
    <3> QED BY <2>2, <3>1, <3>2, Zenon
  <2>5. CASE ~(n - 1 < top)
    <3>1. T(n) = top /\ t = top /\ file.early
      BY <1>2, <1>3, <2>5 DEF Lower
    <3>2. IsLastTurn(file, m, top, N)
      <4>1. m + top - 1 >= L
        BY <1>1, <1>3, <3>1
      <4> QED BY <1>3, <3>1, <4>1 DEF IsLastTurn, L
    <3>3. After(top).done
      BY <3>2 DEF After, AfterTurns
    <3>4. Reading(file, After(top), count) = After(top)
      BY <3>3, Zenon DEF Reading
    <3> HIDE DEF T
    <3> QED BY <2>2, <3>1, <3>4, Zenon
  <2> QED BY <1>3, <2>4, <2>5
<1>6. ReadOn(file, skipped, count) = w[N].text
  <2> HIDE DEF w
  <2>1. N = Higher(count - skipped.left, 1)
    BY <1>2 DEF N
  <2> QED BY <1>2, <1>4, <1>5, <2>1, ReadLoop
<1>7. w[N].text = LinesBehind(file, m, T(N))
  <2>1. w[N] = After(T(N))
    <3>1. N \in 0..N
      BY <1>2
    <3> QED BY <3>1, Zenon
  <2> HIDE DEF w, T
  <2> QED BY <2>1 DEF After, AfterTurns
<1>8. LinesBehind(file, m, T(N)) = LinesBehind(file, m, N)
  <2>1. Lower(m + T(N) - 1, L) = Lower(m + N - 1, L)
    BY <1>1, <1>2, <1>3 DEF Lower
  <2> HIDE DEF T
  <2> QED BY <2>1, Zenon DEF LinesBehind, L
<1> QED BY <1>6, <1>7, <1>8, Zenon DEF Reads, skipped, N

\* What is asked for of a file.
GivesOf(file, answer, begin, end) ==
  IF begin <= Len(file.lines) THEN answer = Text(LinesOf(file.lines, begin, end, 1))
  ELSE answer \in {Text(<<>>), Text(<<Last(file.lines)>>)}

LEMMA OneOf ==
  ASSUME NEW S, NEW q \in Seq(S), NEW n \in 1..Len(q)
  PROVE  SubSeq(q, n, n) = <<q[n]>>
<1> DEFINE x == SubSeq(q, n, n)   y == <<q[n]>>
<1>1. x \in Seq(S) /\ Len(x) = 1 /\ x[1] = q[n]
  OBVIOUS
<1>2. y \in Seq(S) /\ Len(y) = 1 /\ y[1] = q[n]
  OBVIOUS
<1> HIDE DEF x, y
<1>3. x = y
  BY ONLY <1>1, <1>2
<1> QED BY <1>3, Zenon DEF x, y

LEMMA LastIs ==
  ASSUME NEW S, NEW q \in Seq(S), q # <<>>
  PROVE  SubSeq(q, Len(q), Len(q)) = <<Last(q)>>
<1>1. Len(q) \in 1..Len(q)
  OBVIOUS
<1> QED BY <1>1, OneOf, Zenon DEF Last

LEMMA FileGives ==
  ASSUME NEW S, NEW file, IsFile(S, file), NEW begin \in Int, NEW end \in Nat
  PROVE  GivesOf(file, FileSource(file, begin, end), begin, end)
<1> DEFINE L == Len(file.lines)
           top == EndsAt(file)
           b == IF begin < 0 THEN 0 ELSE begin
           m == Lower(b, top)
           l == b - m
           count == end + 1 - b
           N == Higher(count - l, 1)
<1>1. L \in Nat /\ L >= 1 /\ top \in {L, L + 1} /\ file.lines \in Seq(S)
  BY FileIs, Zenon
<1> HIDE DEF L, top
<1>2. /\ b \in Nat /\ m \in Nat /\ m <= top /\ l \in Nat /\ count \in Int /\ N \in Nat
  BY <1>1 DEF Lower, Higher
<1>3. FileSource(file, begin, end) = Text(LinesBehind(file, m, N))
  <2>1. SkippedTo(file, b) = [stream |-> StreamAfter(file, m), left |-> l]
    <3> HIDE DEF b
    <3> QED BY <1>2, SkippedIs, Zenon DEF top
  <2> HIDE DEF l, m, count, b
  <2>2. ReadOn(file, [stream |-> StreamAfter(file, m), left |-> l], count) = LinesBehind(file, m, N)
    <3>1. m <= EndsAt(file)
      BY <1>2, Zenon DEF top
    <3>2. Reads(file, m, l, count)
      BY ONLY <1>2, <3>1, IsFile(S, file), ReadIs, Zenon
    <3> QED BY <3>2, Zenon DEF Reads
  <2>3. FileSource(file, begin, end) = Text(ReadOn(file, SkippedTo(file, b), count))
    BY Zenon DEF FileSource, b, count
  <2> HIDE DEF N
  <2> QED BY <2>1, <2>2, <2>3, Zenon
<1>4. LinesBehind(file, m, N) = SubSeq(file.lines, Higher(m, 1), Lower(m + N - 1, L))
  <2> HIDE DEF m, N
  <2> QED BY Zenon DEF LinesBehind, L
<1>5. CASE begin <= L
  <2>1. m = b /\ l = 0
    BY <1>1, <1>5 DEF Lower
  <2>2. Higher(m, 1) = Higher(begin, 1) + 1 - 1
    BY <2>1 DEF Higher
  <2>3. m + N - 1 = Higher(end, begin)
    <3>1. N = Higher(end + 1 - b, 1)
      BY <2>1
    <3> HIDE DEF N, m
    <3> QED BY <2>1, <3>1 DEF Higher
  <2>4. Lower(Higher(end, begin), L + 1 - 1) + 1 - 1 = Lower(Higher(end, begin), L)
    BY <1>1 DEF Lower, Higher
  <2> HIDE DEF m, N
  <2>5. LinesBehind(file, m, N) = LinesOf(file.lines, begin, end, 1)
    BY <1>4, <2>2, <2>3, <2>4, Zenon DEF LinesOf, L
  <2> QED BY <1>3, <1>5, <2>5, Zenon DEF GivesOf, L
<1>6. CASE ~(begin <= L)
  <2> DEFINE lines == file.lines
  <2>1. m = top /\ N >= 1 /\ N \in Nat
    BY <1>1, <1>6 DEF Lower, Higher
  <2> HIDE DEF m, N
  <2>2. CASE top = L
    <3>1. Higher(m, 1) = L /\ Lower(m + N - 1, L) = L
      BY <1>1, <2>1, <2>2 DEF Higher, Lower
    <3>2. LinesBehind(file, m, N) = SubSeq(lines, L, L)
      BY <1>4, <3>1, Zenon
    <3>3. lines \in Seq(S) /\ L = Len(lines)
      BY <1>1 DEF L
    <3> HIDE DEF lines
    <3>4. SubSeq(lines, L, L) = <<Last(lines)>>
      <4>1. lines # <<>>
        BY <1>1, <3>3
      <4> QED BY <3>3, <4>1, LastIs, Zenon
    <3>5. FileSource(file, begin, end) = Text(<<Last(lines)>>)
      BY <1>3, <3>2, <3>4, Zenon
    <3> QED BY <1>6, <3>5, Zenon DEF GivesOf, L, lines
  <2>3. CASE top = L + 1
    <3>1. Higher(m, 1) = L + 1 /\ Lower(m + N - 1, L) = L
      BY <1>1, <2>1, <2>3 DEF Higher, Lower
    <3>2. LinesBehind(file, m, N) = SubSeq(lines, L + 1, L)
      BY <1>4, <3>1, Zenon
    <3>3. lines \in Seq(S)
      BY <1>1
    <3> HIDE DEF lines
    <3>4. SubSeq(lines, L + 1, L) = <<>>
      BY ONLY <1>1, <3>3
    <3>5. FileSource(file, begin, end) = Text(<<>>)
      BY <1>3, <3>2, <3>4, Zenon
    <3> QED BY <1>6, <3>5, Zenon DEF GivesOf, L
  <2> QED BY <1>1, <2>2, <2>3
<1> QED BY <1>5, <1>6

\* The text of single lines is the lines.
Singles(q) == [i \in 1..Len(q) |-> <<q[i]>>]

LEMMA SinglesJoin ==
  ASSUME NEW S, NEW q \in Seq(S)
  PROVE  FlattenSeq(Singles(q)) = q
<1> DEFINE N == Len(q)
           t(k) == TextOf(Singles(q), k)
           A == {k \in Nat : k <= N => t(k) = SubSeq(q, 1, k)}
<1>1. N \in Nat /\ Singles(q) \in [1..N -> Seq(S)]
  BY DEF Singles
<1>2. t(0) = <<>> /\ \A k \in 1..N : t(k) = t(k - 1) \o Singles(q)[k]
  <2> HIDE DEF N
  <2> QED BY ONLY <1>1, Flattened, Zenon
<1> HIDE DEF t
<1>3. 0 \in A
  <2>1. SubSeq(q, 1, 0) = <<>>
    OBVIOUS
  <2> QED BY <1>2, <2>1
<1>4. ASSUME NEW k \in Nat, k \in A
      PROVE  k + 1 \in A
  <2> SUFFICES ASSUME k + 1 <= N
               PROVE  t(k + 1) = SubSeq(q, 1, k + 1)
    OBVIOUS
  <2>1. t(k) = SubSeq(q, 1, k) /\ k + 1 \in 1..N /\ (k + 1) - 1 = k
    BY <1>1, <1>4
  <2>2. Singles(q)[k + 1] = <<q[k + 1]>>
    BY <2>1 DEF Singles
  <2>3. t(k + 1) = t(k) \o Singles(q)[k + 1]
    BY <1>2, <2>1, Zenon
  <2>4. SubSeq(q, 1, k + 1) = SubSeq(q, 1, k) \o <<q[k + 1]>>
    BY <2>1
  <2> QED BY <2>1, <2>2, <2>3, <2>4, Zenon
<1> HIDE DEF A
<1>5. N \in A
  BY <1>1, <1>3, <1>4, Induction
<1>6. t(N) = SubSeq(q, 1, N)
  BY <1>5 DEF A
<1>7. SubSeq(q, 1, N) = q
  OBVIOUS
<1>8. t(N) = FlattenSeq(Singles(q))
  <2>1. [i \in 1..N |-> Singles(q)[i]] = Singles(q)
    BY Zenon DEF Singles
  <2> QED BY <2>1, Zenon DEF t, TextOf
<1> QED BY <1>6, <1>7, <1>8, Zenon

\* What is asked for of eval'd code.
LEMMA EvalGives ==
  ASSUME NEW S, NEW lines \in Seq(S), lines # <<>>, NEW begin \in Int, NEW end \in Nat
  PROVE  EvalSource(lines, begin, end)
           = Text(LinesOf(lines, Lower(begin, Lower(end, Len(lines) - 1)), end, 0))
<1> DEFINE L == Len(lines)
           limit == end + 2
           longest == IF limit = -1 THEN L - 1 ELSE IF limit > 2 THEN limit - 1 ELSE 1
           splits == IF longest < L - 1 THEN longest ELSE L - 1
           first == [i \in 1..splits |-> <<lines[i]>>]
           behind == SubSeq(lines, splits + 1, L)
           parts == Exploded(lines, limit)
           b == IF begin < 0 THEN 0 ELSE begin
           e == Lower(end, L - 1)
           q == SubSeq(lines, b + 1, e)
<1>1. L \in Nat /\ L >= 1
  OBVIOUS
<1> HIDE DEF L
<1>2. splits = Lower(end + 1, L - 1) /\ splits \in Nat /\ splits <= L - 1
  <2>1. longest = end + 1
    OBVIOUS
  <2> HIDE DEF longest
  <2> QED BY <1>1, <2>1 DEF Lower
<1>3. parts = first \o <<behind>>
  BY Zenon DEF Exploded, L
<1> HIDE DEF splits, longest
<1>4. first \in Seq(Seq(S)) /\ Len(first) = splits /\ \A i \in 1..splits : first[i] = <<lines[i]>>
  <2>1. \A i \in 1..splits : <<lines[i]>> \in Seq(S)
    BY <1>1, <1>2 DEF L
  <2> DEFINE Single(i) == <<lines[i]>>
  <2>2. \A i \in 1..splits : Single(i) \in Seq(S)
    BY <2>1, Zenon
  <2>3. first = [i \in 1..splits |-> Single(i)]
    BY Zenon
  <2> HIDE DEF Single, first
  <2>4. /\ first \in Seq(Seq(S)) /\ Len(first) = splits
        /\ \A i \in 1..splits : first[i] = Single(i)
    BY ONLY <1>2, <2>2, <2>3
  <2> QED BY <2>4, Zenon DEF Single
<1>5. <<behind>> \in Seq(Seq(S)) /\ Len(<<behind>>) = 1 /\ <<behind>>[1] = behind
  <2>1. behind \in Seq(S)
    BY <1>1, <1>2 DEF L
  <2> HIDE DEF behind
  <2> QED BY <2>1
<1> HIDE DEF first, parts
<1>6. /\ parts \in Seq(Seq(S)) /\ Len(parts) = splits + 1 /\ parts[splits + 1] = behind
      /\ \A i \in 1..splits : parts[i] = <<lines[i]>>
  <2> DEFINE z == <<behind>>
  <2> HIDE DEF z, behind
  <2>1. z \in Seq(Seq(S)) /\ Len(z) = 1 /\ z[1] = behind /\ parts = first \o z
    BY <1>3, <1>5, Zenon DEF z
  <2>2. IsJoined(parts, first, z, Seq(S))
    BY <1>4, <2>1, JoinIs, Zenon
  <2>3. /\ parts \in Seq(Seq(S)) /\ Len(parts) = splits + 1
        /\ \A i \in 1..splits : parts[i] = first[i]
        /\ parts[splits + 1] = z[1]
    BY ONLY <1>2, <1>4, <2>1, <2>2 DEF IsJoined
  <2> QED BY <1>4, <2>1, <2>3, Zenon
<1>7. e \in Nat /\ e <= splits /\ e <= L - 1 /\ b \in Nat /\ e <= end
      /\ (e = splits => splits = L - 1)
  BY <1>1, <1>2 DEF Lower
<1>8. (IF end > Len(parts) - 1 THEN Len(parts) - 1 ELSE end) = e
  <2>1. Len(parts) - 1 = splits
    BY <1>2, <1>6
  <2> HIDE DEF parts
  <2> QED BY <1>1, <1>2, <2>1 DEF Lower
<1> HIDE DEF e
<1>9. parts[e + 1] = <<lines[e + 1]>>
  <2>1. CASE e < splits
    <3>1. e + 1 \in 1..splits
      BY <1>2, <1>7, <2>1
    <3> QED BY <1>6, <3>1, Zenon
  <2>2. CASE e = splits
    <3>1. splits + 1 = L /\ lines[L] = Last(lines)
      BY <1>7, <1>1, <2>2 DEF L, Last
    <3>2. behind = <<lines[L]>>
      <4>1. SubSeq(lines, L, L) = <<Last(lines)>>
        BY LastIs, Zenon DEF L
      <4> QED BY <3>1, <4>1, Zenon
    <3> HIDE DEF behind
    <3> QED BY <1>6, <2>2, <3>1, <3>2, Zenon
  <2> QED BY <1>2, <1>7, <2>1, <2>2
<1> HIDE DEF behind
<1>10. SubSeq(parts, b + 1, e) = Singles(q)
  <2>1. q \in Seq(S)
    BY <1>1, <1>7 DEF L
  <2>2. CASE b >= e
    <3>1. SubSeq(parts, b + 1, e) = <<>>
      BY <1>6, <1>7, <2>2
    <3>2. q = <<>>
      BY <1>7, <2>2
    <3>3. Singles(<<>>) = <<>>
      BY DEF Singles
    <3> QED BY <3>1, <3>2, <3>3, Zenon
  <2>3. CASE ~(b >= e)
    <3>1. Len(q) = e - b /\ \A i \in 1..(e - b) : q[i] = lines[b + i]
      BY <1>1, <1>7, <2>3 DEF L
    <3>2. /\ SubSeq(parts, b + 1, e) = [i \in 1..(e - b) |-> parts[b + i]]
      BY <1>6, <1>7, <2>3
    <3>3. \A i \in 1..(e - b) : b + i \in 1..splits
      BY <1>2, <1>7
    <3> HIDE DEF q, b
    <3>4. \A i \in 1..(e - b) : parts[b + i] = <<q[i]>>
      BY <1>6, <3>1, <3>3, Zenon
    <3>5. [i \in 1..(e - b) |-> parts[b + i]] = [i \in 1..(e - b) |-> <<q[i]>>]
      BY <3>4, Zenon
    <3> QED BY <3>1, <3>2, <3>5, Zenon DEF Singles
  <2> QED BY <2>2, <2>3
<1>11. FlattenSeq(SubSeq(parts, b + 1, e)) = q
  <2>1. q \in Seq(S)
    BY <1>1, <1>7 DEF L
  <2> HIDE DEF q, b
  <2> QED BY <1>10, <2>1, SinglesJoin, Zenon
<1>12. EvalSource(lines, begin, end) = Text(q \o <<lines[e + 1]>>)
  <2>1. EvalSource(lines, begin, end) = Text(FlattenSeq(SubSeq(parts, b + 1, e)) \o parts[e + 1])
    <3> HIDE DEF b
    <3> QED BY <1>8, Zenon DEF EvalSource, parts, b
  <2> HIDE DEF q, b
  <2> QED BY <1>9, <1>11, <2>1, Zenon
<1>13. q \o <<lines[e + 1]>> = SubSeq(lines, Lower(b, e) + 1, e + 1)
  <2>1. CASE b <= e
    <3>1. Lower(b, e) = b
      BY <1>7, <2>1 DEF Lower
    <3>2. \A i, j \in Nat : i <= j /\ j < Len(lines) =>
             SubSeq(lines, i + 1, j) \o <<lines[j + 1]>> = SubSeq(lines, i + 1, j + 1)
      <4> HIDE DEF b, q
      <4> QED BY ONLY lines \in Seq(S)
    <3>3. e < Len(lines)
      BY <1>1, <1>7 DEF L
    <3> HIDE DEF b
    <3> QED BY <1>7, <2>1, <3>1, <3>2, <3>3, Zenon
  <2>2. CASE ~(b <= e)
    <3>1. Lower(b, e) = e /\ q = <<>>
      BY <1>7, <2>2 DEF Lower
    <3>2. <<>> \o <<lines[e + 1]>> = <<lines[e + 1]>>
      BY <1>1, <1>7 DEF L
    <3>3. SubSeq(lines, e + 1, e + 1) = <<lines[e + 1]>>
      <4>1. e + 1 \in 1..Len(lines)
        BY <1>1, <1>7 DEF L
      <4> QED BY <4>1, OneOf, Zenon
    <3> HIDE DEF q, b
    <3> QED BY <3>1, <3>2, <3>3, Zenon
  <2> QED BY <2>1, <2>2
<1>14. SubSeq(lines, Lower(b, e) + 1, e + 1) = LinesOf(lines, Lower(begin, e), end, 0)
  <2>1. Higher(Lower(begin, e), 0) + 1 - 0 = Lower(b, e) + 1
    BY <1>7 DEF Higher, Lower
  <2>2. Lower(Higher(end, Lower(begin, e)), L + 0 - 1) + 1 - 0 = e + 1
    <3>1. Higher(end, Lower(begin, e)) = end
      BY <1>7 DEF Higher, Lower
    <3>2. L + 0 - 1 = L - 1
      BY <1>1
    <3>3. Lower(end, L - 1) + 1 - 0 = e + 1
      BY <1>7 DEF e
    <3> QED BY <3>1, <3>2, <3>3, Zenon
  <2> HIDE DEF b
  <2> QED BY <2>1, <2>2, Zenon DEF LinesOf, L
<1> QED
  <2> HIDE DEF q, b
  <2> QED BY <1>12, <1>13, <1>14, Zenon DEF e, L
-----------------------------------------------------------------------------
(* The program and the ids of its eval'd code.  What a place holds is what is   *)
(* recorded for its id, and a name has the last of the ids that were given to   *)
(* it.                                                                          *)
IsSequence(s) == s \in Seq({s[i] : i \in DOMAIN s})

IsEntered(lines, file, id, byId) ==
  id \in 1..Len(byId) /\ byId[id].name = file /\ byId[id].lines = lines

InAFile(place) ==
  \E path \in DOMAIN SourceFiles :
    place.file = OfFile(path) /\ place.contents = SourceFiles[path] /\ place.eval = 0
InAnEval(place, byId) ==
  /\ place.file.kind = "eval"
  /\ \E lines \in EvalTexts : place.contents = Text(lines)
  /\ place.eval = 0 \/ IsEntered(place.contents.lines, place.file, place.eval, byId)
IsPlace(place, byId) == InAFile(place) \/ InAnEval(place, byId)

\* The last id of a name.
IsLatest(id, file, byId) ==
  /\ id \in 1..Len(byId) /\ byId[id].name = file
  /\ \A later \in 1..Len(byId) : later > id => byId[later].name # file
AreIds(known) ==
  /\ IsSequence(known.byId)
  /\ \A e \in known.byFile : IsLatest(e.id, e.file, known.byId)
  /\ \A id \in 1..Len(known.byId) : \E e \in known.byFile : e.file = known.byId[id].name

SourcesInv ==
  /\ named \in PathsNamed
  /\ IsSequence(sites) /\ sites # <<>>
  /\ AreIds(evals)
  /\ IsPlace(running, evals.byId)
  /\ \A i \in 1..Len(sites) : IsPlace(sites[i], evals.byId)

LEMMA KindsAre ==
  /\ \A path : OfFile(path).kind = "file" /\ OfFile(path).path = path
  /\ \A place : OfEval(place).kind = "eval"
  /\ "file" # "eval" /\ "dbgp" # "url"
BY DEF OfFile, OfEval

LEMMA PlacesAre ==
  \A file, line, contents, eval :
    /\ PlaceAt(file, line, contents, eval).file = file /\ PlaceAt(file, line, contents, eval).line = line
    /\ PlaceAt(file, line, contents, eval).contents = contents /\ PlaceAt(file, line, contents, eval).eval = eval
BY DEF PlaceAt

Lengthens(t, s, x) ==
  /\ IsSequence(t) /\ Len(s) \in Nat /\ DOMAIN s = 1..Len(s)
  /\ Len(t) = Len(s) + 1 /\ t[Len(s) + 1] = x
  /\ \A i \in 1..Len(s) : t[i] = s[i]

LEMMA SequencesAre ==
  ASSUME NEW s, IsSequence(s), NEW x
  PROVE  Lengthens(Append(s, x), s, x)
<1> DEFINE S == {s[i] : i \in DOMAIN s}
           t == Append(s, x)
           T == {t[i] : i \in DOMAIN t}
<1>1. s \in Seq(S)
  BY DEF IsSequence
<1> HIDE DEF S
<1>2. /\ Len(s) \in Nat /\ DOMAIN s = 1..Len(s)
      /\ Len(t) = Len(s) + 1 /\ t[Len(s) + 1] = x /\ \A i \in 1..Len(s) : t[i] = s[i]
      /\ DOMAIN t = 1..Len(t) /\ t = [i \in 1..Len(t) |-> t[i]] /\ Len(t) \in Nat
  <2>1. s \in Seq(S \cup {x}) /\ x \in S \cup {x}
    BY <1>1
  <2>2. t \in Seq(S \cup {x})
    BY <2>1
  <2>3. Len(s) \in Nat /\ DOMAIN s = 1..Len(s)
        /\ Len(t) = Len(s) + 1 /\ t[Len(s) + 1] = x /\ \A i \in 1..Len(s) : t[i] = s[i]
    BY <2>1
  <2> HIDE DEF t
  <2>4. DOMAIN t = 1..Len(t) /\ t = [i \in 1..Len(t) |-> t[i]] /\ Len(t) \in Nat
    BY <2>2
  <2> QED BY <2>3, <2>4
<1> HIDE DEF t
<1>3. t \in Seq(T)
  <2>1. \A i \in 1..Len(t) : t[i] \in T
    BY <1>2, Zenon
  <2> HIDE DEF T
  <2>2. [i \in 1..Len(t) |-> t[i]] \in Seq(T)
    BY <1>2, <2>1
  <2> QED BY <1>2, <2>2, Zenon
<1> QED BY <1>2, <1>3, Zenon DEF Lengthens, IsSequence, T, t

\* A place stays one as ids are added.
LEMMA StaysPlace ==
  ASSUME NEW byId, IsSequence(byId), NEW x, NEW place, IsPlace(place, byId)
  PROVE  IsPlace(place, Append(byId, x))
<1>1. /\ Len(byId) \in Nat /\ Len(Append(byId, x)) = Len(byId) + 1
      /\ \A i \in 1..Len(byId) : Append(byId, x)[i] = byId[i]
  <2>1. Lengthens(Append(byId, x), byId, x)
    BY SequencesAre, Zenon
  <2> QED BY <2>1, Zenon DEF Lengthens
<1>2. \A i : i \in 1..Len(byId) => i \in 1..Len(Append(byId, x))
  BY <1>1
<1>3. ASSUME InAnEval(place, byId)
      PROVE  InAnEval(place, Append(byId, x))
  <2>1. \A lines, file, id : IsEntered(lines, file, id, byId) => IsEntered(lines, file, id, Append(byId, x))
    BY <1>1, <1>2, Zenon DEF IsEntered
  <2> QED BY <1>3, <2>1, Zenon DEF InAnEval
<1> QED BY <1>3, Zenon DEF IsPlace

\* Without ids: what a program is at before it is connected.
LEMMA ForgottenPlace ==
  ASSUME NEW place, NEW byId, NEW others, IsPlace(place, byId)
  PROVE  IsPlace(Forgotten(place), others)
<1>1. /\ Forgotten(place).file = place.file /\ Forgotten(place).contents = place.contents
      /\ Forgotten(place).eval = 0
  BY PlacesAre DEF Forgotten
<1>2. CASE InAFile(place)
  BY <1>1, <1>2, Zenon DEF InAFile, IsPlace
<1>3. CASE InAnEval(place, byId)
  <2>1. InAnEval(Forgotten(place), others)
    BY <1>1, <1>3, Zenon DEF InAnEval
  <2> QED BY <2>1, Zenon DEF IsPlace
<1> QED BY <1>2, <1>3, Zenon DEF IsPlace

LEMMA CallingIsPlace ==
  ASSUME NEW path \in DOMAIN SourceFiles, NEW line, NEW byId
  PROVE  IsPlace(InFile(path, line), byId) /\ IsPlace(Calling(path), byId)
<1>1. \A l : InAFile(InFile(path, l))
  <2>1. \A l : /\ InFile(path, l).file = OfFile(path) /\ InFile(path, l).contents = SourceFiles[path]
               /\ InFile(path, l).eval = 0
    BY PlacesAre DEF InFile
  <2> QED BY <2>1, Zenon DEF InAFile
<1> QED BY <1>1, Zenon DEF Calling, IsPlace

\* The name of an eval gets the id of the eval.
LEMMA Registered ==
  ASSUME NEW file, NEW lines \in EvalTexts, AreIds(evals)
  PROVE  /\ AreIds(RegisterEval(file, lines))
         /\ RegisterEval(file, lines).byId = Append(evals.byId, [name |-> file, lines |-> lines])
<1> DEFINE ids == evals.byId
           new == [name |-> file, lines |-> lines]
           more == Append(ids, new)
           last == [file |-> file, id |-> Len(ids) + 1]
           others == {e \in evals.byFile : e.file # file}
           r == RegisterEval(file, lines)
<1>1. r.byId = more /\ r.byFile = others \cup {last}
  BY DEF RegisterEval
<1>2. /\ IsSequence(ids)
      /\ \A e \in evals.byFile : IsLatest(e.id, e.file, ids)
      /\ \A id \in 1..Len(ids) : \E e \in evals.byFile : e.file = ids[id].name
  BY Zenon DEF AreIds
<1>3. /\ IsSequence(more) /\ Len(ids) \in Nat /\ Len(more) = Len(ids) + 1
      /\ more[Len(ids) + 1] = new /\ \A i \in 1..Len(ids) : more[i] = ids[i]
  <2>1. Lengthens(more, ids, new)
    <3> HIDE DEF ids, new
    <3> QED BY <1>2, SequencesAre, Zenon
  <2> HIDE DEF ids, new, more
  <2> QED BY <2>1, Zenon DEF Lengthens
<1>4. new.name = file /\ last.file = file /\ last.id = Len(ids) + 1
  OBVIOUS
<1> DEFINE n == Len(ids)
<1> HIDE DEF new, last, more, r, n
<1>5. n \in Nat /\ Len(more) = n + 1 /\ more[n + 1].name = file /\ last.id = n + 1
  BY <1>3, <1>4, Zenon DEF n
<1>6. ASSUME NEW e \in others
      PROVE  IsLatest(e.id, e.file, more)
  <2>1. e.file # file /\ IsLatest(e.id, e.file, ids)
    BY <1>2
  <2>2. /\ e.id \in 1..n /\ ids[e.id].name = e.file
        /\ \A later \in 1..n : later > e.id => ids[later].name # e.file
    BY <2>1, Zenon DEF IsLatest, n
  <2>3. e.id \in 1..Len(more)
    BY <1>5, <2>2
  <2>4. more[e.id].name = e.file
    BY <1>3, <2>2, Zenon DEF n
  <2>5. ASSUME NEW later \in 1..Len(more), later > e.id
        PROVE  more[later].name # e.file
    <3>1. later \in 1..n \/ later = n + 1
      BY <1>5
    <3>2. CASE later \in 1..n
      BY <1>3, <2>2, <2>5, <3>2, Zenon DEF n
    <3>3. CASE later = n + 1
      BY <1>5, <2>1, <3>3, Zenon
    <3> QED BY <3>1, <3>2, <3>3
  <2> QED BY <2>3, <2>4, <2>5, Zenon DEF IsLatest
<1>7. IsLatest(last.id, last.file, more)
  <2>1. n + 1 \in 1..Len(more) /\ \A later \in 1..Len(more) : ~(later > n + 1)
    BY <1>5
  <2> QED BY <1>4, <1>5, <2>1, Zenon DEF IsLatest
<1>8. ASSUME NEW id \in 1..Len(more)
      PROVE  \E e \in r.byFile : e.file = more[id].name
  <2>1. id \in 1..n \/ id = n + 1
    BY <1>5
  <2>2. CASE more[id].name = file
    <3>1. last \in r.byFile
      BY <1>1
    <3> QED BY <1>4, <2>2, <3>1, Zenon
  <2>3. CASE more[id].name # file
    <3>1. id \in 1..n
      BY <1>5, <2>1, <2>3, Zenon
    <3>2. more[id] = ids[id]
      BY <1>3, <3>1, Zenon DEF n
    <3>3. PICK e \in evals.byFile : e.file = ids[id].name
      BY <1>2, <3>1, Zenon DEF n
    <3>4. e \in others
      BY <2>3, <3>2, <3>3, Zenon
    <3>5. e \in r.byFile
      BY <1>1, <3>4
    <3> QED BY <3>2, <3>3, <3>5, Zenon
  <2> QED BY <2>2, <2>3
<1>9. \A e \in r.byFile : IsLatest(e.id, e.file, more)
  <2>1. \A e \in r.byFile : e \in others \/ e = last
    BY <1>1
  <2> QED BY <1>6, <1>7, <2>1, Zenon
<1> QED BY <1>1, <1>3, <1>8, <1>9, Zenon DEF AreIds, r, more, new

LEMMA IsOne ==
  ASSUME NEW s, NEW n \in Nat, s = [i \in 1..n |-> s[i]]
  PROVE  IsSequence(s) /\ Len(s) = n /\ DOMAIN s = 1..n
<1> DEFINE S == {s[i] : i \in DOMAIN s}
<1>1. DOMAIN s = 1..n
  OBVIOUS
<1>2. \A i \in 1..n : s[i] \in S
  BY <1>1, Zenon
<1> HIDE DEF S
<1>3. [i \in 1..n |-> s[i]] \in Seq(S)
  BY <1>2
<1>4. s \in Seq(S)
  BY <1>3, Zenon
<1>5. Len(s) = n
  BY <1>1, <1>4
<1> QED BY <1>1, <1>4, <1>5, Zenon DEF IsSequence, S

\* Without the last one, and each one changed.
LEMMA FrontIs ==
  ASSUME NEW s, IsSequence(s), Len(s) > 1
  PROVE  /\ Len(s) \in Nat /\ Len(s) \in 1..Len(s)
         /\ IsSequence(Front(s)) /\ Len(Front(s)) = Len(s) - 1 /\ Front(s) # <<>>
         /\ \A i \in 1..Len(Front(s)) : i \in 1..Len(s) /\ Front(s)[i] = s[i]
<1> DEFINE n == Len(s) - 1
           f == Front(s)
<1>1. Len(s) \in Nat
  BY DEF IsSequence
<1>2. n \in Nat /\ n >= 1 /\ Len(s) \in 1..Len(s) /\ \A i \in 1..n : i \in 1..Len(s)
  BY <1>1
<1>3. f = [i \in 1..n |-> s[i]]
  <2>1. s \in Seq({s[i] : i \in DOMAIN s})
    BY Zenon DEF IsSequence
  <2> DEFINE S == {s[i] : i \in DOMAIN s}
  <2> HIDE DEF S
  <2>2. s \in Seq(S)
    BY <2>1 DEF S
  <2> QED BY <1>2, <2>2 DEF Front
<1> HIDE DEF f, n
<1>4. f = [i \in 1..n |-> f[i]] /\ \A i \in 1..n : f[i] = s[i]
  BY <1>3
<1>5. IsSequence(f) /\ Len(f) = n
  BY <1>2, <1>4, IsOne, Zenon
<1>6. f # <<>>
  BY <1>2, <1>5
<1> QED BY <1>1, <1>2, <1>4, <1>5, <1>6, Zenon DEF f, n

AllForgotten(t, s) ==
  /\ IsSequence(t) /\ Len(t) = Len(s) /\ t # <<>>
  /\ \A i \in 1..Len(s) : t[i] = Forgotten(s[i])

LEMMA MappedIs ==
  ASSUME NEW s, IsSequence(s), s # <<>>
  PROVE  AllForgotten([i \in DOMAIN s |-> Forgotten(s[i])], s)
<1> DEFINE t == [i \in DOMAIN s |-> Forgotten(s[i])]
<1>1. Len(s) \in Nat /\ DOMAIN s = 1..Len(s) /\ Len(s) >= 1
  BY DEF IsSequence
<1>2. t = [i \in 1..Len(s) |-> t[i]] /\ \A i \in 1..Len(s) : t[i] = Forgotten(s[i])
  BY <1>1
<1> HIDE DEF t
<1>3. IsSequence(t) /\ Len(t) = Len(s)
  BY <1>1, <1>2, IsOne, Zenon
<1>4. t # <<>>
  BY <1>1, <1>3
<1> QED BY <1>2, <1>3, <1>4, Zenon DEF AllForgotten, t

LEMMA NoneAreIds == AreIds(NoEvals)
<1>1. NoEvals.byId = <<>> /\ NoEvals.byFile = {}
  BY DEF NoEvals
<1>2. IsSequence(<<>>) /\ Len(<<>>) = 0
  BY DEF IsSequence
<1> QED BY <1>1, <1>2 DEF AreIds

LEMMA SourcesInvInit == SourcesInit => SourcesInv
<1> SUFFICES ASSUME SourcesInit
             PROVE  SourcesInv
  OBVIOUS
<1>1. PICK path \in DOMAIN SourceFiles : sites = <<InFile(path, 0)>> /\ running = Calling(path)
  BY Zenon DEF SourcesInit
<1>2. IsPlace(running, evals.byId) /\ IsPlace(InFile(path, 0), evals.byId)
  BY <1>1, CallingIsPlace, Zenon
<1> DEFINE x == InFile(path, 0)
<1> HIDE DEF x
<1>3. sites = <<x>>
  BY <1>1 DEF x
<1>4. IsSequence(sites) /\ sites # <<>> /\ Len(sites) = 1 /\ sites[1] = x
  BY <1>3 DEF IsSequence
<1>5. \A i \in 1..Len(sites) : IsPlace(sites[i], evals.byId)
  <2>1. \A i \in 1..Len(sites) : sites[i] = x
    BY <1>4
  <2> QED BY <1>2, <2>1, Zenon DEF x
<1>6. named \in PathsNamed /\ evals = NoEvals
  BY Zenon DEF SourcesInit
<1>7. AreIds(NoEvals)
  BY NoneAreIds
<1> QED BY <1>2, <1>4, <1>5, <1>6, <1>7, Zenon DEF SourcesInv

LEMMA SourcesInvNext == SourcesInv /\ [SourcesNext]_sourceVars => SourcesInv'
<1> SUFFICES ASSUME SourcesInv, [SourcesNext]_sourceVars
             PROVE  SourcesInv'
  OBVIOUS
<1> DEFINE ids == evals.byId
<1>1. /\ named \in PathsNamed /\ IsSequence(sites) /\ sites # <<>> /\ AreIds(evals)
      /\ IsPlace(running, ids) /\ \A i \in 1..Len(sites) : IsPlace(sites[i], ids)
  BY Zenon DEF SourcesInv
<1>2. IsSequence(ids)
  BY <1>1, Zenon DEF AreIds
\* The program goes on at another place, called from the one it was at.
<1>3. ASSUME named' = named, AreIds(evals'), sites' = Append(sites, running), IsPlace(running', evals'.byId),
             \A place : IsPlace(place, ids) => IsPlace(place, evals'.byId)
      PROVE  SourcesInv'
  <2>1. Lengthens(sites', sites, running)
    BY <1>1, <1>3, SequencesAre, Zenon
  <2>2. /\ IsSequence(sites') /\ Len(sites) \in Nat /\ Len(sites') = Len(sites) + 1
        /\ sites'[Len(sites) + 1] = running /\ \A i \in 1..Len(sites) : sites'[i] = sites[i]
    BY <2>1, Zenon DEF Lengthens
  <2>3. sites' # <<>>
    BY <2>2
  <2>4. ASSUME NEW i \in 1..Len(sites')
        PROVE  IsPlace(sites'[i], evals'.byId)
    <3>1. i \in 1..Len(sites) \/ i = Len(sites) + 1
      BY <2>2
    <3>2. sites'[i] = running \/ (i \in 1..Len(sites) /\ sites'[i] = sites[i])
      BY <2>2, <3>1, Zenon
    <3>3. IsPlace(sites'[i], ids)
      BY <1>1, <3>2, Zenon
    <3> QED BY <1>3, <3>3, Zenon
  <2> QED BY <1>1, <1>3, <2>2, <2>3, <2>4, Zenon DEF SourcesInv
<1>4. CASE CallsFunction
  <2>1. PICK path \in DOMAIN SourceFiles :
          /\ sites' = Append(sites, running) /\ running' = Calling(path)
          /\ evals' = evals /\ named' = named
    BY <1>4, Zenon DEF CallsFunction
  <2>2. IsPlace(running', evals'.byId)
    BY <2>1, CallingIsPlace, Zenon
  <2>3. AreIds(evals')
    BY <1>1, <2>1, Zenon
  <2>4. \A place : IsPlace(place, ids) => IsPlace(place, evals'.byId)
    BY <2>1, Zenon
  <2> QED BY <1>3, <2>1, <2>2, <2>3, <2>4, Zenon
<1>5. CASE Evaluates
  <2> DEFINE file == OfEval(running)
  <2>1. PICK lines \in EvalTexts :
          /\ sites' = Append(sites, running)
          /\ running' = PlaceAt(file, 1, Text(lines), IF connected THEN Len(ids) + 1 ELSE 0)
          /\ evals' = IF connected THEN RegisterEval(file, lines) ELSE evals
          /\ named' = named
    BY <1>5, Zenon DEF Evaluates
  <2> DEFINE eval == IF connected THEN Len(ids) + 1 ELSE 0
  <2>2. /\ running'.file = file /\ running'.contents = Text(lines) /\ running'.eval = eval
        /\ running'.contents.lines = lines
    <3>1. Text(lines).lines = lines
      BY DEF Text
    <3> HIDE DEF eval, file
    <3>2. running' = PlaceAt(file, 1, Text(lines), eval)
      BY <2>1, Zenon DEF eval
    <3>3. running'.file = file /\ running'.contents = Text(lines) /\ running'.eval = eval
      BY <3>2, PlacesAre
    <3> QED BY <3>1, <3>3, Zenon
  <2>3. file.kind = "eval"
    BY KindsAre
  <2> HIDE DEF file
  <2>4. CASE connected
    <3> DEFINE new == [name |-> file, lines |-> lines]
    <3>1. AreIds(evals') /\ evals'.byId = Append(ids, new)
      <4>1. evals' = RegisterEval(file, lines)
        BY <2>1, <2>4, Zenon
      <4>2. AreIds(RegisterEval(file, lines)) /\ RegisterEval(file, lines).byId = Append(ids, new)
        BY <1>1, Registered, Zenon
      <4> QED BY <4>1, <4>2, Zenon
    <3>2. new.name = file /\ new.lines = lines
      OBVIOUS
    <3> HIDE DEF new
    <3>3. \A place : IsPlace(place, ids) => IsPlace(place, evals'.byId)
      BY <1>2, <3>1, StaysPlace, Zenon
    <3>4. IsEntered(lines, file, Len(ids) + 1, evals'.byId)
      <4>1. Lengthens(evals'.byId, ids, new)
        <5> HIDE DEF ids
        <5> QED BY <1>2, <3>1, SequencesAre, Zenon
      <4>2. Len(ids) \in Nat /\ Len(evals'.byId) = Len(ids) + 1 /\ evals'.byId[Len(ids) + 1] = new
        BY <4>1, Zenon DEF Lengthens
      <4>3. Len(ids) + 1 \in 1..Len(evals'.byId)
        <5> HIDE DEF ids
        <5> QED BY ONLY <4>2
      <4> QED BY <3>2, <4>2, <4>3, Zenon DEF IsEntered
    <3>5. IsPlace(running', evals'.byId)
      <4>1. running'.eval = Len(ids) + 1
        BY <2>2, <2>4, Zenon
      <4>2. InAnEval(running', evals'.byId)
        BY <2>2, <2>3, <3>4, <4>1, Zenon DEF InAnEval
      <4> QED BY <4>2, Zenon DEF IsPlace
    <3> QED BY <1>3, <2>1, <3>1, <3>3, <3>5, Zenon
  <2>5. CASE ~connected
    <3>1. evals' = evals /\ running'.eval = 0
      BY <2>1, <2>2, <2>5, Zenon
    <3>2. InAnEval(running', evals'.byId)
      BY <2>2, <2>3, <3>1, Zenon DEF InAnEval
    <3>3. IsPlace(running', evals'.byId)
      BY <3>2, Zenon DEF IsPlace
    <3>4. AreIds(evals')
      BY <1>1, <3>1, Zenon
    <3>5. \A place : IsPlace(place, ids) => IsPlace(place, evals'.byId)
      BY <3>1, Zenon
    <3> QED BY <1>3, <2>1, <3>3, <3>4, <3>5, Zenon
  <2> QED BY <2>4, <2>5
<1>6. CASE Returns
  <2>1. /\ Len(sites) > 1 /\ running' = Last(sites) /\ sites' = Front(sites)
        /\ evals' = evals /\ named' = named
    BY <1>6, Zenon DEF Returns
  <2>2. /\ Len(sites) \in Nat /\ Len(sites) \in 1..Len(sites)
        /\ IsSequence(sites') /\ Len(sites') = Len(sites) - 1 /\ sites' # <<>>
        /\ \A i \in 1..Len(sites') : i \in 1..Len(sites) /\ sites'[i] = sites[i]
    BY <1>1, <2>1, FrontIs, Zenon
  <2>3. IsPlace(running', ids)
    <3>1. running' = sites[Len(sites)]
      BY <2>1, Zenon DEF Last
    <3> QED BY <1>1, <2>2, <3>1, Zenon
  <2>4. \A i \in 1..Len(sites') : IsPlace(sites'[i], ids)
    BY <1>1, <2>2, Zenon
  <2> QED BY <1>1, <2>1, <2>2, <2>3, <2>4, Zenon DEF SourcesInv
<1>7. CASE Connects
  <2>1. /\ evals' = NoEvals /\ running' = Forgotten(running) /\ named' = named
        /\ sites' = [i \in DOMAIN sites |-> Forgotten(sites[i])]
    BY <1>7, Zenon DEF Connects
  <2>2. /\ IsSequence(sites') /\ Len(sites') = Len(sites) /\ sites' # <<>>
        /\ \A i \in 1..Len(sites) : sites'[i] = Forgotten(sites[i])
    <3>1. AllForgotten(sites', sites)
      BY <1>1, <2>1, MappedIs, Zenon
    <3> QED BY <3>1, Zenon DEF AllForgotten
  <2>3. AreIds(evals')
    BY <2>1, NoneAreIds, Zenon
  <2>4. IsPlace(running', evals'.byId)
    BY <1>1, <2>1, ForgottenPlace, Zenon
  <2>5. \A i \in 1..Len(sites') : IsPlace(sites'[i], evals'.byId)
    <3>1. ASSUME NEW i \in 1..Len(sites)
          PROVE  IsPlace(sites'[i], evals'.byId)
      <4>1. IsPlace(sites[i], ids) /\ sites'[i] = Forgotten(sites[i])
        BY <1>1, <2>2, Zenon
      <4>2. IsPlace(Forgotten(sites[i]), evals'.byId)
        BY <4>1, ForgottenPlace, Zenon
      <4> QED BY <4>1, <4>2, Zenon
    <3> QED BY <2>2, <3>1, Zenon
  <2> QED BY <1>1, <2>1, <2>2, <2>3, <2>4, <2>5, Zenon DEF SourcesInv
<1>8. CASE UNCHANGED <<sites, running, evals, named>>
  <2>1. sites' = sites /\ running' = running /\ evals' = evals /\ named' = named
    BY <1>8
  <2> QED BY <1>1, <2>1, Zenon DEF SourcesInv
<1>9. CASE Disconnects
  BY <1>8, <1>9, Zenon DEF Disconnects
<1>10. CASE UNCHANGED sourceVars
  BY <1>8, <1>10 DEF sourceVars
<1> QED BY <1>4, <1>5, <1>6, <1>7, <1>9, <1>10, Zenon DEF SourcesNext

\* The id a client is shown for a name is the last one of that name.
LEMMA ShownId ==
  ASSUME NEW file, AreIds(evals), HasId(file)
  PROVE  IsLatest(EvalId(file), file, evals.byId)
<1> DEFINE e == CHOOSE e \in evals.byFile : e.file = file
<1>1. \E x \in evals.byFile : x.file = file
  BY Zenon DEF HasId
<1>2. e \in evals.byFile /\ e.file = file
  BY <1>1, Zenon
<1>3. EvalId(file) = e.id
  BY Zenon DEF EvalId
<1> HIDE DEF e
<1> QED BY <1>2, <1>3, Zenon DEF AreIds

LEMMA OneLatest ==
  ASSUME NEW byId, NEW file, NEW x, NEW y, IsLatest(x, file, byId), IsLatest(y, file, byId)
  PROVE  x = y
<1>1. x \in Int /\ y \in Int
  BY DEF IsLatest
<1>2. ~(x > y) /\ ~(y > x)
  BY Zenon DEF IsLatest
<1> QED BY <1>1, <1>2

\* A file that is named by a URL or as it is.
LEMMA FileShown ==
  ASSUME NEW place, InAFile(place), NEW path, place.file = OfFile(path),
         NEW begin \in Int, NEW end \in Nat
  PROVE  GivesLines(SourceOfFile(path, begin, end), place, begin, end)
<1>1. PICK p \in DOMAIN SourceFiles : place.file = OfFile(p) /\ place.contents = SourceFiles[p]
  BY Zenon DEF InAFile
<1>2. p = path
  <2>1. OfFile(p).path = p /\ OfFile(path).path = path
    BY KindsAre
  <2> QED BY <1>1, <2>1, Zenon
<1> DEFINE file == SourceFiles[path]
<1>3. IsFile(STRING, file)
  BY <1>1, <1>2, SourcesAssumption, Zenon DEF IsFile
<1> HIDE DEF file
<1>4. GivesOf(file, FileSource(file, begin, end), begin, end)
  BY <1>3, FileGives, Zenon
<1>5. SourceOfFile(path, begin, end) = FileSource(file, begin, end)
  BY <1>1, <1>2, Zenon DEF SourceOfFile, file
<1>6. place.file.kind # "eval" /\ place.contents = file
  BY <1>1, <1>2, KindsAre, Zenon DEF file
<1> QED BY <1>4, <1>5, <1>6, Zenon DEF GivesLines, GivesOf

LEMMA RootedIs ==
  ASSUME NEW path \in DOMAIN SourceFiles, ~AlteredByUrl(path)
  PROVE  PathFromUrl(PathToUrl(path)) = path
<1>1. path \in Seq(STRING) /\ path # <<>> /\ path[1] = Slash
  BY SourcesAssumption, Zenon
<1>2. ~NoRoot(path)
  BY <1>1, Zenon DEF NoRoot
<1>3. FullPath(path) = path
  BY <1>2, Zenon DEF FullPath
<1>4. UrlLeadsBack(path)
  BY <1>1, UrlsLeadBack, Zenon
<1> QED BY <1>3, <1>4, Zenon DEF UrlLeadsBack

\* What is shown of a place.
LEMMA FileDescribed ==
  ASSUME NEW place, InAFile(place)
  PROVE  \E path \in DOMAIN SourceFiles :
           /\ place.file = OfFile(path) /\ place.file.kind = "file" /\ place.file.path = path
           /\ place.eval = 0
           /\ Described(place).type = "file" /\ Described(place).lineno = place.line
           /\ \A begin, end : Source(Described(place).filename, begin, end)
                                = SourceOfFile(PathFromUrl(PathToUrl(path)), begin, end)
<1>1. PICK path \in DOMAIN SourceFiles : place.file = OfFile(path) /\ place.eval = 0
  BY Zenon DEF InAFile
<1>2. place.file.kind = "file" /\ place.file.path = path
  BY <1>1, KindsAre, Zenon
<1> DEFINE name == [url |-> PathToUrl(path)]
           shown == [type |-> "file", filename |-> name, lineno |-> place.line]
<1>3. Described(place) = shown
  <2>1. Described(place) = [type |-> "file", filename |-> [url |-> PathToUrl(place.file.path)], lineno |-> place.line]
    BY <1>2, KindsAre, Zenon DEF Described
  <2> QED BY <1>2, <2>1, Zenon
<1>4. shown.type = "file" /\ shown.lineno = place.line /\ shown.filename = name
  <2> HIDE DEF name
  <2> QED OBVIOUS
<1>5. name.url = PathToUrl(path) /\ "dbgp" \notin DOMAIN name /\ "url" \in DOMAIN name
  BY KindsAre
<1> HIDE DEF name, shown
<1>6. \A begin, end : Source(name, begin, end) = SourceOfFile(PathFromUrl(name.url), begin, end)
  <2> SUFFICES ASSUME NEW begin, NEW end
               PROVE  Source(name, begin, end) = SourceOfFile(PathFromUrl(name.url), begin, end)
    OBVIOUS
  <2>1. ("dbgp" \in DOMAIN name) = FALSE /\ ("url" \in DOMAIN name) = TRUE
    BY <1>5
  <2> QED BY <2>1, Zenon DEF Source
<1>7. \A begin, end : Source(name, begin, end) = SourceOfFile(PathFromUrl(PathToUrl(path)), begin, end)
  BY <1>5, <1>6, Zenon
<1>8. Described(place).type = "file" /\ Described(place).lineno = place.line /\ Described(place).filename = name
  BY <1>3, <1>4, Zenon
<1> QED BY <1>1, <1>2, <1>7, <1>8, Zenon

LEMMA EvalDescribed ==
  ASSUME NEW place, place.file.kind = "eval"
  PROVE  /\ Described(place).lineno = place.line
         /\ HasId(place.file) =>
              /\ Described(place).filename.dbgp = EvalId(place.file)
              /\ \A begin, end : EvalId(place.file) \in DOMAIN evals.byId =>
                   Source(Described(place).filename, begin, end)
                     = EvalSource(evals.byId[EvalId(place.file)].lines, begin, end)
         /\ ~HasId(place.file) => Described(place).type = "file"
<1> DEFINE file == place.file
           name == [dbgp |-> EvalId(file)]
           shown == [type |-> "eval", filename |-> name, lineno |-> place.line]
           other == [type |-> "file", filename |-> [of |-> file], lineno |-> place.line]
<1>1. file.kind # "file" /\ file.kind = "eval"
  BY KindsAre
<1>2. CASE HasId(file)
  <2>1. Described(place) = shown
    BY <1>1, <1>2, Zenon DEF Described
  <2>2. shown.lineno = place.line /\ shown.filename = name
    <3> HIDE DEF name
    <3> QED OBVIOUS
  <2>3. name.dbgp = EvalId(file) /\ "dbgp" \in DOMAIN name
    OBVIOUS
  <2> HIDE DEF name, shown
  <2>4. \A begin, end : EvalId(file) \in DOMAIN evals.byId =>
          Source(name, begin, end) = EvalSource(evals.byId[EvalId(file)].lines, begin, end)
    <3>1. \A begin, end : name.dbgp \in DOMAIN evals.byId =>
            Source(name, begin, end) = EvalSource(evals.byId[name.dbgp].lines, begin, end)
      BY <2>3, Zenon DEF Source
    <3> QED BY <2>3, <3>1, Zenon
  <2> QED BY <1>2, <2>1, <2>2, <2>3, <2>4, Zenon
<1>3. CASE ~HasId(file)
  <2>1. Described(place) = other
    BY <1>1, <1>3, Zenon DEF Described
  <2>2. other.lineno = place.line /\ other.type = "file"
    OBVIOUS
  <2> HIDE DEF other
  <2> QED BY <1>3, <2>1, <2>2, Zenon
<1> QED BY <1>2, <1>3

\* A frame of eval'd code.
LEMMA EvalShown ==
  ASSUME NEW place, InAnEval(place, evals.byId), AreIds(evals)
  PROVE  /\ StillNamed(place) =>
              \A begin \in Int, end \in Nat :
                GivesLines(Source(Described(place).filename, begin, end), place, begin, end)
         /\ ~StillNamed(place) /\ Described(place).type = "eval" =>
              Described(place).filename.dbgp # place.eval
<1> DEFINE file == place.file
           ids == evals.byId
           id == EvalId(file)
           lines == place.contents.lines
<1>1. file.kind = "eval" /\ file.kind # "file"
  BY KindsAre, Zenon DEF InAnEval
<1>2. lines \in EvalTexts
  <2>1. PICK t \in EvalTexts : place.contents = Text(t)
    BY Zenon DEF InAnEval
  <2>2. Text(t).lines = t
    BY DEF Text
  <2> QED BY <2>1, <2>2, Zenon
<1>3. place.eval = 0 \/ IsEntered(lines, file, place.eval, ids)
  BY Zenon DEF InAnEval
<1>4. Len(ids) \in Nat /\ DOMAIN ids = 1..Len(ids)
  <2>1. IsSequence(ids)
    BY Zenon DEF AreIds
  <2> QED BY <2>1 DEF IsSequence
<1>5. StillNamed(place) <=> place.eval # 0 /\ IsLatest(place.eval, file, ids)
  <2>1. StillNamed(place) <=> place.eval # 0 /\ \A later \in 1..Len(ids) : later > place.eval => ids[later].name # file
    BY <1>1, <1>4, Zenon DEF StillNamed
  <2> QED BY <1>3, <2>1, Zenon DEF IsLatest, IsEntered
<1>6. ASSUME HasId(file)
      PROVE  IsLatest(id, file, ids)
  BY <1>6, ShownId, Zenon
<1>7. ASSUME StillNamed(place)
      PROVE  HasId(file) /\ id = place.eval /\ id \in DOMAIN ids /\ ids[id].lines = lines
  <2>1. place.eval \in 1..Len(ids) /\ ids[place.eval].name = file /\ ids[place.eval].lines = lines
        /\ IsLatest(place.eval, file, ids)
    BY <1>3, <1>5, <1>7, Zenon DEF IsEntered
  <2>2. HasId(file)
    BY <2>1, Zenon DEF AreIds, HasId
  <2>3. id = place.eval
    BY <1>6, <2>1, <2>2, OneLatest, Zenon
  <2> QED BY <1>4, <2>1, <2>2, <2>3, Zenon
<1> HIDE DEF id
<1>8. ASSUME StillNamed(place), NEW begin \in Int, NEW end \in Nat
      PROVE  GivesLines(Source(Described(place).filename, begin, end), place, begin, end)
  <2>1. Source(Described(place).filename, begin, end) = EvalSource(lines, begin, end)
    <3>1. HasId(file) /\ id \in DOMAIN ids /\ ids[id].lines = lines
      BY <1>7, <1>8, Zenon
    <3>2. Source(Described(place).filename, begin, end) = EvalSource(ids[id].lines, begin, end)
      BY <1>1, <3>1, EvalDescribed, Zenon DEF id
    <3> QED BY <3>1, <3>2, Zenon
  <2>2. lines \in Seq(STRING) /\ lines # <<>>
    BY <1>2, SourcesAssumption
  <2> HIDE DEF lines
  <2>3. EvalSource(lines, begin, end)
          = Text(LinesOf(lines, Lower(begin, Lower(end, Len(lines) - 1)), end, 0))
    BY <2>2, EvalGives, Zenon
  <2> QED BY <1>1, <2>1, <2>3, Zenon DEF GivesLines, lines
<1>9. ASSUME ~StillNamed(place), Described(place).type = "eval"
      PROVE  Described(place).filename.dbgp # place.eval
  <2>1. HasId(file)
    BY <1>1, <1>9, EvalDescribed, KindsAre, Zenon
  <2>2. Described(place).filename.dbgp = id
    BY <1>1, <2>1, EvalDescribed, Zenon DEF id
  <2>3. IsLatest(id, file, ids)
    BY <1>6, <2>1, Zenon
  <2>4. 0 \notin 1..Len(ids)
    OBVIOUS
  <2>5. id # 0
    BY <2>3, <2>4, Zenon DEF IsLatest
  <2> QED BY <1>5, <1>9, <2>2, <2>3, <2>5, Zenon
<1> QED BY <1>8, <1>9, Zenon

\* A frame of a file.
LEMMA FileFrameShown ==
  ASSUME NEW place, InAFile(place)
  PROVE  /\ StillNamed(place) =>
              \A begin \in Int, end \in Nat :
                GivesLines(Source(Described(place).filename, begin, end), place, begin, end)
         /\ Described(place).type # "eval"
<1>1. PICK path \in DOMAIN SourceFiles :
           /\ place.file = OfFile(path) /\ place.file.kind = "file" /\ place.file.path = path
           /\ place.eval = 0
           /\ Described(place).type = "file" /\ Described(place).lineno = place.line
           /\ \A begin, end : Source(Described(place).filename, begin, end)
                                = SourceOfFile(PathFromUrl(PathToUrl(path)), begin, end)
  BY FileDescribed, Zenon
<1>2. ASSUME StillNamed(place), NEW begin \in Int, NEW end \in Nat
      PROVE  GivesLines(Source(Described(place).filename, begin, end), place, begin, end)
  <2>1. ~AlteredByUrl(path)
    BY <1>1, <1>2, Zenon DEF StillNamed
  <2>2. PathFromUrl(PathToUrl(path)) = path
    BY <2>1, RootedIs, Zenon
  <2>3. GivesLines(SourceOfFile(path, begin, end), place, begin, end)
    BY <1>1, FileShown, Zenon
  <2>4. Source(Described(place).filename, begin, end) = SourceOfFile(path, begin, end)
    BY <1>1, <2>2, Zenon
  <2> QED BY <2>3, <2>4, Zenon
<1> QED BY <1>1, <1>2, KindsAre, Zenon

\* source without -f.
LEMMA TailShown ==
  ASSUME NEW place, IsPlace(place, evals.byId), place = Last(sites), place.file.kind = "file",
         ~TakenForUrl(place.file.path), NEW begin \in Int, NEW end \in Nat
  PROVE  GivesLines(SourceOfTail(begin, end), place, begin, end)
<1>1. InAFile(place)
  BY KindsAre, Zenon DEF IsPlace, InAnEval
<1>2. PICK path \in DOMAIN SourceFiles : place.file = OfFile(path) /\ place.file.path = path
  BY <1>1, FileDescribed, Zenon
<1>3. PathFromUrl(path) = path
  BY <1>2, Zenon DEF PathFromUrl, TakenForUrl
<1>4. SourceOfTail(begin, end) = SourceOfFile(path, begin, end)
  BY <1>2, <1>3, Zenon DEF SourceOfTail
<1> QED BY <1>1, <1>2, <1>4, FileShown, Zenon

LEMMA SourceIsServedFrom == SourcesInv => SourceIsServed
<1> SUFFICES ASSUME SourcesInv
             PROVE  SourceIsServed
  OBVIOUS
<1>1. /\ named \in PathsNamed /\ IsSequence(sites) /\ sites # <<>> /\ AreIds(evals)
      /\ IsPlace(running, evals.byId) /\ \A i \in 1..Len(sites) : IsPlace(sites[i], evals.byId)
  BY Zenon DEF SourcesInv
<1>2. UrlLeadsBack(named)
  <2>1. named \in Seq(STRING) /\ named # <<>>
    BY <1>1, SourcesAssumption, Zenon
  <2> QED BY <2>1, UrlsLeadBack, Zenon
<1>3. Len(sites) \in Nat /\ Len(sites) \in 1..Len(sites)
  BY <1>1 DEF IsSequence
<1>4. \A r \in SourceRanges : r[1] \in Int /\ r[2] \in Nat
  BY DEF SourceRanges
<1>5. ASSUME NEW nr \in 0..(Len(sites) - 1)
      PROVE  LET place == Place(nr)  shown == StackFrame(nr)
             IN  /\ shown.lineno = place.line
                 /\ StillNamed(place) =>
                      \A r \in SourceRanges : GivesLines(Source(shown.filename, r[1], r[2]), place, r[1], r[2])
                 /\ ~StillNamed(place) /\ shown.type = "eval" => shown.filename.dbgp # place.eval
                 /\ nr = 1 \/ Len(sites) = 1 =>
                      (Last(sites).file.kind = "file" /\ ~TakenForUrl(Last(sites).file.path) =>
                         \A r \in SourceRanges : GivesLines(SourceOfTail(r[1], r[2]), Last(sites), r[1], r[2]))
  <2> DEFINE place == Place(nr)
             shown == StackFrame(nr)
  <2>1. IsPlace(place, evals.byId)
    <3>1. nr # 0 => Len(sites) - nr + 1 \in 1..Len(sites)
      BY <1>3
    <3> QED BY <1>1, <3>1, Zenon DEF Place
  <2>2. shown = Described(place)
    BY Zenon DEF StackFrame
  <2> HIDE DEF place, shown
  <2>3. ASSUME NEW r \in SourceRanges, Last(sites).file.kind = "file", ~TakenForUrl(Last(sites).file.path)
        PROVE  GivesLines(SourceOfTail(r[1], r[2]), Last(sites), r[1], r[2])
    <3>1. IsPlace(Last(sites), evals.byId)
      BY <1>1, <1>3, Zenon DEF Last
    <3>2. r[1] \in Int /\ r[2] \in Nat
      BY <1>4, Zenon
    <3> QED BY <2>3, <3>1, <3>2, TailShown, Zenon
  <2>4. /\ shown.lineno = place.line
        /\ StillNamed(place) =>
             \A r \in SourceRanges : GivesLines(Source(shown.filename, r[1], r[2]), place, r[1], r[2])
        /\ ~StillNamed(place) /\ shown.type = "eval" => shown.filename.dbgp # place.eval
    <3>1. CASE InAFile(place)
      <4>1. shown.lineno = place.line
        BY <2>2, <3>1, FileDescribed, Zenon
      <4>2. /\ StillNamed(place) =>
                 \A begin \in Int, end \in Nat :
                   GivesLines(Source(shown.filename, begin, end), place, begin, end)
            /\ shown.type # "eval"
        BY <2>2, <3>1, FileFrameShown, Zenon
      <4> QED BY <1>4, <4>1, <4>2, Zenon
    <3>2. CASE InAnEval(place, evals.byId)
      <4>1. shown.lineno = place.line
        BY <2>2, <3>2, EvalDescribed, Zenon DEF InAnEval
      <4>2. /\ StillNamed(place) =>
                 \A begin \in Int, end \in Nat :
                   GivesLines(Source(shown.filename, begin, end), place, begin, end)
            /\ ~StillNamed(place) /\ shown.type = "eval" => shown.filename.dbgp # place.eval
        BY <1>1, <2>2, <3>2, EvalShown, Zenon
      <4> QED BY <1>4, <4>1, <4>2, Zenon
    <3> QED BY <2>1, <3>1, <3>2, Zenon DEF IsPlace
  <2> QED BY <2>3, <2>4, Zenon DEF place, shown
<1> QED BY <1>2, <1>5, Zenon DEF SourceIsServed, FramesShowTheirSource

(* A client that asks for the source of a frame gets the lines of what the     *)
(* frame runs, and the URL of a name leads back to it, for all files, texts,   *)
(* names and ranges, whatever the program calls and evaluates.                 *)
THEOREM SourcesServed == SourcesSpec => []SourceIsServed
<1>1. SourcesInit => SourcesInv
  BY SourcesInvInit
<1>2. SourcesInv /\ [SourcesNext]_sourceVars => SourcesInv'
  BY SourcesInvNext
<1>3. SourcesInv => SourceIsServed
  BY SourceIsServedFrom
<1> QED BY <1>1, <1>2, <1>3, PTL DEF SourcesSpec
=============================================================================
