# Xdebug in TLA+

A model of Xdebug. Its core is the step debugger: the breakpoints a debugging
client sets, the places where running PHP code consults them, and the life of
the connections between PHP processes and the client. Around it stand the
profiler, the traces, code coverage, path maps, the control socket, the decision
to start any of these, and the containers all of them use. Paths below are relative to the source
tree, so `src/debugger/com.c` is the file of that name in the repository.

## The system

| Component | State it keeps | Operations | What makes it correct |
|---|---|---|---|
| Breakpoint registry (`src/debugger/handler_dbgp.c`, `handlers.c`) | table id -> type and key; list of line breakpoints; hashes of function and exception breakpoints | `breakpoint_set`, `_get`, `_update`, `_remove`, `_list` | an id leads to its own breakpoint; no breakpoint without an id; nothing freed is used |
| Stopping the program (`src/debugger/debugger.c`) | `do_break`, `pending_breakpoint`, `has_line_breakpoints` of each frame | statement, call, return, exception, error, `xdebug_break()`, pause | a breakpoint in a frame is not missed; a break is reported once, as what it was; disabled means silent |
| Line resolver (`debugger.c`, `handler_dbgp.c`) | lists of breakable lines by file, unresolved breakpoints | compile a file, run an eval, set a breakpoint | a breakpoint is on the statement its user meant |
| Stepping (`debugger.c`, `handler_dbgp.c`, `frankenphp.c`) | `do_step`, `do_next`, `do_finish`, their levels, numbers and stack; `do_request_reinit` | step commands, run, detach, eval; statements, calls, returns, exceptions, fibers, worker requests | a step stops where it was asked to, and passes nothing it had to stop at |
| Sessions (`src/debugger/com.c`, `handler_dbgp.c`, `debugger.c`) | `remote_connection_enabled`, its pid, socket, `status`, `lasttransid`, `detached` | connect at startup, on error, on `xdebug_break()`, on a signal; command loop; detach; stop; end of request; fork | one process per connection; tables freed once; every continuation answered, once; a lost client is noticed |
| Commands (`handler_dbgp.c`, `src/lib/cmd_parser.c`, `stripcslashes.c`) | the reader's buffer, the parser's state | read a line, parse it | a command gets the values its client wrote; lines arrive whole and in order |
| Inspection (`handler_dbgp.c`, `src/lib/lib.c`, `var.c`, `var_export_xml.c`) | active data, symbol table, stack entry, page, limits | `property_*`, `context_get`, `feature_set`, `eval` | a value is looked up in the frame and context asked for; the name shown leads back to it |
| Sources (`handler_dbgp.c`, `src/lib/usefulstuff.c`) | evals by id and by name | `source`, `stack_get`, file URLs | what is shown is what the frame runs |
| Call stack and observers (`src/base/base.c`, `src/lib/vector.h`) | one vector of frames per fiber | push, pop, fiber switch, end of request | frames pair up; levels are places |
| Control socket (`src/base/ctrl_socket.c`) | listening socket, time of the last look | `ps`, `pause` | a pause reaches the running program; a client is answered once |
| Profiler, traces, GC statistics (`src/profiler/`, `src/tracing/`, `src/gcstats/`, `src/base/filter.c`) | open output, costs and counters per frame | start, call, return, stop | entry and exit pair up and costs add up also when started in the middle |
| Code coverage (`src/coverage/`) | branches and paths of a function, lines of a file | analyse, hit, start, stop | what is reported as run has run, and the other way round |
| Path maps (`src/lib/maps/`) | rules from files to files, line ranges, both directions | parse a map file, look up | ranges map line by line, and back |
| Start decisions (`src/lib/lib.c`, `com.c`) | settings, the variables of a request | triggers, shared secrets, modes | a part starts exactly as documented |
| Output files (`src/lib/usefulstuff.c`, `file.c`) | a name, files, locks | open, write, close, by several processes | nobody empties a file another one writes |
| Containers (`src/lib/llist.c`, `hash.c`, `set.c`, `str.c`) | list, hash, bit sets, string | add, find, remove, grow | each is the list, map, set or text it stands for |
| Development helpers, settings, XML and log (`src/develop/`, `xdebug.c`, `src/lib/log.c`) | settings | formatting | output |

PHP is single threaded, and so is the debugger: at a break the process sits in
the command loop and the client has the turn. What is hard is the rest of the
world. The client may send several commands ahead, in any order, and may go away
at any moment, between any two writes. A process may fork. PHP runs fibers, each
with a stack of its own. Breakpoints are described by keys in one table and by
pointers in another, and pointers are kept across calls that run PHP code or
give the client the turn. `PROJECT.json` lists the hazards at their lines.

The components meet in few places. The observers of `base.c` call the debugger
at each call, return and statement, and the profiler, the traces and the
statistics at each call and return; the debugger asks the registry; a hit calls
`xdebug_dbgp_breakpoint`, which writes a response and runs the command loop;
the commands change the registry, and a continuation returns to the program.
The control socket is looked at in calls and statements and sets a flag of the
debugger.

## Modules

| Module | What it is |
|---|---|
| `Breakpoints` | the registry and the program that consults it, within one session |
| `BreakpointsProofs` | theorems about `Breakpoints` |
| `DebugConnection` | abstract: what a client may rely on in a connection |
| `DbgpSession` | connections, processes, the command loop, requests, fork; implements `DebugConnection` |
| `DbgpSessionProofs` | theorems about `DbgpSession`; that it implements `DebugConnection` |
| `CallStack`, `CallStackProofs` | the vectors of frames, one for each fiber, extended by the next two; lemmas about them |
| `Stepping`, `SteppingProofs` | steps over the call stack, worker requests; theorems |
| `Observers`, `ObserversProofs` | what is recorded of calls, composed of `CallStack`, `Profiler` and `Traces`; theorems |
| `LineReader`, `CommandLine`, `Containers`, `PathMaps`, `CodeCoverage`, `LineCoverage`, `StartDecisions`, `Variables`, `Inspection`, `Sources`, `OutputFiles`, `ControlSocket`, `LineResolver` | the sequential and the small concurrent parts, one module each |
| `LibraryProofs` | theorems about `LineReader`, `CommandLine`, `Containers`, `Inspection`, `LineResolver`, `CodeCoverage` and `LineCoverage` |
| `EnvironmentProofs` | theorems about what is around the session: `OutputFiles`, `ControlSocket`, `StartDecisions`, `PathMaps` and `Sources` |
| `NaturalRecursion` | induction over sets of numbers, for functions that are recursive over numbers; texts that are put together piece by piece |
| `MCBreakpoints`, `MCDbgpSession`, `MCStepping`, `MCObservers` | values of constants for TLC |
| `MCLibrary` | these parts side by side: each behaviour is about one of them, its `subject` |

### Breakpoints

An `xdebug_brk_info` is identified by the id it gets when it is made; ids only
grow, so an id outside `DOMAIN info` is freed memory, and the order of the
linked list is the order of ids. `breakpoint_list` is the table by id with the
entry's type and key. `Fetch` is `breakpoint_brk_info_fetch`, with the scan it
does of the list (`AtKey`), including what it returns when nothing matches.
Each command is an action enabled in the state `break`; each place of the
engine is an action in the state `running`. A key is a record of file and line
instead of the string `file$line`; that file names are compared up to the length
of the shorter one is kept as the relation `PrefixOf`. The PHP program is
arbitrary: any function may be called, any statement reached and anything thrown
whenever it is possible. Conditions evaluate either way. Following a NULL or
freed `xdebug_brk_info` leads to the state `crashed`.

`StatementBreak`, `StatementStep` and `StatementLine` are the tests of
`xdebug_debugger_statement_call` in their order; which statement a step is due
at is left open here. A break inside a return breakpoint shows the client a
stack whose last frame is about to go; the model takes the frame away in the
same step. What a step command and `breakpoint_include_return_value` do at a
return is in `Stepping`. `ResolvedLine` is the result of `LineResolver`.

### DbgpSession

A process is a record of the globals that matter (`enabled` is
`remote_connection_enabled`, `open` says that the socket's descriptor is open)
and of where it is: in PHP code, in the command loop of `xdebug_dbgp_init`, of a
break, or of `xdebug_dbgp_deinit`. One read of the command loop with all it
causes is one step. A write to a client that has gone either is lost or fails
and gives the connection up (`AfterSend`), and both are tried at every write.
Commands are reduced to how the loop treats them: `query` (allowed while
stopping), `inspect` (not), `run` (all continuations), `stop`, `detach`,
`unknown` and `malformed`. `resumed` and `answered` record, for the properties,
which continuations were read and how often the client got an answer. Triggers,
cookies and `XDEBUG_IGNORE` decide whether startup tries to connect, and a try
may fail: both are the choice of `InitDebugger`.

`DebugConnection` knows of a connection only whose turn it is and which
continuations are owed. It says that the turn comes back to the client only
with an answer to all that is owed, and that a closed connection stays closed.
The mapping reads the turn off the place of the process that holds the
connection; a connection has ended when either end of it is closed.

### CallStack, Stepping

A frame has the function, its `level` and its `function_nr`; a vector is named
after the address of its fiber context, which a later fiber may get again.
`resumer` is what the engine keeps: who runs again when a fiber suspends.
`Stepping` follows `xdebug_debugger_statement_call` and the call and return
hooks in their order, with the places at which the client gets the turn in the
middle of them (`resume`). Its history variables are the last step command
(`asked`), the calls that were running when it was given (`anchor`) and what
just happened (`event`): the properties compare where a step stopped, or what it
passed, with the calls of that time. Breakpoints appear only as stops that may
happen anywhere, since `Breakpoints` says where they are. A worker's request
(`WorkerRequest`, `RequestReinit`) resets what `frankenphp.c` resets, at the
first function after it.

### Observers, Profiler, Traces

`Observers` has one action for each event of the engine; `Profiler` and `Traces`
are the handlers it calls, in the order of `base.c`. Time is a clock that
moves between the events and is read where the code reads it. A trace is the
sequence of its lines, by what they show. The costs of flame graphs are `int`s
of `IntBits` bits. The statistics of the collector are the file's being open.

### The library

- `LineReader`: the buffer of `xdebug_fd_read_line_delim` over packets that
  arrive in any pieces, or not at all.
- `CommandLine`: the parser (`cmd_parser.c`), one step for each character of a
  line, over the characters it tells apart, and the loop that takes escapes out
  of a value. `Format` is what a client does to write a command.
- `Containers`: each structure as the code lays it out, beside the value it
  stands for.
- `PathMaps`: the map files of a request, one after another. The parser with
  its prefixes and ranges takes one line in a step; then each rule is copied
  into the first table, and each in reverse into the second, in the order of a
  hash table, which is any. The look-ups are operators; their halving search is
  a function over the turns of its loop.
- `CodeCoverage`: a function is analysed in three stages, then run. In the first
  each step is one turn of the loop of `xdebug_analysis_branch`, or the beginning
  of a call of it, for which the recursive calls become a set of opcodes still to
  be visited; the second is the loop that gives branches their outs, a turn in a
  step; in the third a step goes on with one path. Which call or path is next
  changes nothing of what is found, so `CHOOSE` picks it. The run has one step for
  an opcode, with Xdebug's handlers before it. Functions with `finally` are left
  out: how the engine enters and leaves those blocks is not in this repository.
  The handler of a switch looks for no branch, unlike the others, so a branch that
  begins at one is never seen as entered (`Watched`); the first opcode of a function
  is an `EXT_NOP` or `EXT_STMT` and no switch. One call is run.
  `PathHit` speaks of calls that walk no step between branches twice
  (`StepsDiffer`), since `visited_branches` keeps a step for the whole call, of
  functions whose last opcode is live, and of calls that entered no branch which
  begins at a switch (`AllNoticed`).
- `LineCoverage`: the lines of files, what starts and stops counting them, and the
  table that reports them. `CoverageIsRight` joins both.
- `StartDecisions`: `ModuleStarts` locks the modes that `XDEBUG_MODE` or
  `xdebug.mode` name, `develop` when neither names one; `RequestStarts` decides
  by settings, triggers with their places and old names, shared secrets,
  `XDEBUG_IGNORE` and the session cookie what starts with the request.
- `Variables`: values as trees; the full names the exporter writes and the
  lookup that reads them, with pages and depth; and what a frame's context shows.
- `Inspection`: the calls of the engine, the stack's entries for them, and the
  globals that one command leaves to the next. An entry has the `execute_data` of
  its caller, so the data of a frame are found in the entry one deeper (`DataAt`),
  and the symbol table its call had when it began. A command that reads values has
  a beginning and an end, `-m` holds in between, and code of the program may run
  there: a hook of a property, `__get` or `__debugInfo` that stops at a statement,
  so that commands come while another reads.
- `Sources`: names of files as URLs and back, character by character; `source`,
  whose two loops are functions over their turns; `stack_get`; and the calls,
  evals and connections that give frames their places and eval'd code its ids.
- `OutputFiles`: `xdebug_fopen` with one step for each system call, between
  which other processes run.
- `ControlSocket`: a process and the child it forks, which has the same
  listening socket; `select`, `accept` and the read that waits are steps.
- `LineResolver`: the lists of lines made from the tables of functions and the
  scan that picks a line.

## What is checked

| Run | Result | Bounds |
|---|---|---|
| `breakpoints` | passes | 2 breakpoints, 2 hits, depth 2, a script with one function, class B extends A |
| `breakpoints_any_client` | passes | 2 breakpoints, 1 hit, depth 1, two fibers, a name that begins another, updates that move a line |
| `breakpoints_move` | `EveryIdFindsItsOwn` is violated | `breakpoint_update -n` |
| `breakpoints_temporary` | `TemporaryHitOnce` is violated | exception breakpoints |
| `breakpoints_pending` | `NoCrash` is violated | `breakpoint_details` on |
| `breakpoints_fibers` | `FramesMarked` is violated | two fibers |
| `session` | passes | 2 processes, 2 connections, 2 commands on each |
| `session_live` | passes | 1 process, 2 requests, 2 connections, 2 commands on each, all kinds |
| `stepping` | passes | 2 functions, 2 fibers, depth 3, 3 calls, 2 connections |
| `library` | passes | one part in each behaviour; the inputs `MCLibrary` lists, some 800 000 states |
| `observers` | passes | 2 functions, 2 fibers, depth 3, 3 calls, clock to 10 ns by 5, `int`s of 4 bits |
| `flamegraph_costs` | `NoNegativeCosts` is violated | the same |

Two breakpoints are the least with which a command can reach the wrong one, and
every wrong lookup in the code needs no more: it takes the first match or the
last element. Two frames are what the flag of frames needs, an inner and an
outer one. Two hits tell `==` from the first hit and let a temporary breakpoint
be hit again. The theorems below need no bound but those of the actions.

Two commands on a connection are a continuation and a command that resumes the
program without one, after which a second answer would show. Two connections
allow a reconnect in a request, one in the next request, and one for a forked
child. `session` uses three kinds of command, since each of the two processes
multiplies the states; all kinds are in `session_live`.

`stepping` needs depth 3 for a call beside one that is stepped over, inside one
that is stepped out of, and a fiber that starts in between; three calls let one
take the place of another that has gone. The second connection meets the steps
that the first one left. `observers` needs the same calls for a profile or trace
that is started inside a call and stopped inside another. The clock goes to 10 ns
in pieces of 5 (`WorkTakes`): a call and its callee both take time, each is half a
unit of what a profile is written in, so rounding adds up, and `int`s of 4 bits
let 10 ns be too long for them.

In `library`, names, values and commands are all short ones over the characters
that the code tells apart; op arrays are all with four opcodes that may jump, the
first not in every case, or with two opcodes in a `try` and two in its handlers, or
with a switch in a loop; map files are all of up to three ranges or two
directories, and pairs of files with three rules; three frames and two evals
make a later eval at the place of one whose function still runs; the containers
have two slots for three keys, bytes of two bits and room for three growths; up
to three processes write one file; four calls, counting the commands that read at
the time (`MaxCalls`), make a frame beside one that returned, PHP's own frame
between two, and a command within a command; two clients wait for a process and its child;
a file has three kinds of functions, one within another (`MaxNesting` is 1), and an
eval that may declare a function or a method is beside it.
The bounds were chosen so that each case these properties tell apart occurs.

`CHECK_DEADLOCK FALSE` stands where a run may end: after a crash that such a
client can cause, when all processes have ended or wait for a silent client, and
when a program has used up its calls.

`breakpoints` assumes a client that does not move a line, does not set an
exception breakpoint it already has, and has no file name that is the beginning
of another. `breakpoints_move` shows what the first restriction is for. No run
shows it for the other two: dropping either makes `EveryIdFindsItsOwn` fail after
two commands that set breakpoints, since the second exception shares the key of
the first, and the second name is taken for the first. Both hazards are
therefore excluded and not covered; `breakpoints_any_client` has them only for
what they do to function breakpoints. `breakpoints_pending` shows why
`breakpoints` leaves breakpoint details off, `breakpoints_fibers` why it has one
fiber, and `breakpoints_temporary` why `DisabledStaysSilent` does not speak of
exceptions.

### Fairness

`FairSpec` asks that a process which can read a command, or the end of the
stream, eventually does, and that a request starts and ends. The first two are
the operating system's promise to a blocking `recv`. The last is an assumption
about the PHP program, not about Xdebug: a program that loops forever without a
breakpoint answers nothing, and Xdebug turns its time limit off. The client is
not fair: it may stay silent forever, which is why the properties speak only of
what was sent and of a client that has closed its end. The other modules state
safety only: nothing obliges a program to go on.

### Findings

- After `breakpoint_update -n` the id no longer finds its breakpoint.
- A temporary or disabled exception breakpoint keeps stopping the program.
- A call breakpoint removed before the first statement of the function is
  described after it was freed.
- A line breakpoint set while one fiber runs is not seen in frames other fibers
  have entered already.
- The cost of a call in a flame graph is negative when the call takes more
  nanoseconds than an `int` holds.

Smaller ones are stated as exceptions of a property that holds otherwise:

- A map file that is refused because two rules clash leaves what was copied
  before, although the comment on `xdebug_path_maps_parse_file` says it leaves
  nothing (`FailedFileChangesLittle`). Rules clash (`RulesClash`) in the remote
  path, or in the path they have in the reverse table, with an earlier file or
  with each other. Rules that skip are not compared with the
  ones before, so the halving search may miss ranges after them
  (`SkipsInPlace`).
- Functions that an eval declares get into the list of breakable lines of the
  file compiled next, whose breakpoints may then move to wrong lines, and into
  none for the eval itself; methods it declares are in none
  (`BreakpointsResolve`).
- `step_out` stops in another fiber while the call it should leave is only
  suspended, if that fiber is no deeper: it compares levels, and not vectors of
  frames as `step_over` does (`StopsAreDue`).
- A branch that begins at a switch is never reported as hit, nor are the ways
  into it and out of it; a way through it counts as one past it (`BranchesHit`).
- The lines of a profile may add up to more than its summary, by up to half a
  unit of 10 ns a line, as each is rounded for itself (`ProfileAddsUp`).
- The intermediate value that a frame's context shows has a name the lookup does
  not know, and a variable whose name begins that of a special value is hidden
  by it (`ValuesAreFound`).
- In a frame from which PHP itself has called, no variable is found; a context
  that is being shown goes on in the frame of a command that was answered in the
  middle of it; and a name asked for in the superglobals is first looked for in
  the frame an earlier command left active (`LooksWhereAsked`).
- Some names of values are written in a way the lookup reads otherwise
  (`Misread`), and some names of files do not come back from their URLs
  (`AlteredByUrl`).
- Dead code analysis that is asked for after files were compiled reports all of
  their lines as dead (`LinesAreReported`); a function whose last opcode is dead
  may miss a path (`PathHit`).
- A profile that is stopped in a fiber ends frames without names
  (`CrashNeedsFiber`), and calls made in fibers are charged to the first call of
  a flame graph (`FlameCosts`).
- A failed connection upon an error disables the statement handler that a
  signal to pause relies on (`deafened` in `ControlIsAnswered`); after a fork
  the other process may take the client, and this one waits in `accept`.

## What is proved

`BreakpointsProofs` proves, for all files, functions, fibers, options and bounds:

- `TypeCorrect`: `TypeOK`, including that lists and hashes hold allocated
  breakpoints under the type and place of their key. It is inductive as it is.
- `PendingCorrect`, `FunctionIdsCorrect` and `DisabledSilentCorrect`, for every
  client. The second rests on `KeysHold`: for a call or return breakpoint the id
  and the entry of the hash are made and given up together, and under one key
  there is one id.
- `IdsCorrect`, `NoOrphansCorrect`, `NoCrashCorrect` and `CommandsCorrect`, for a
  client that satisfies `TameClient` (the three restrictions above), and
  `NoCrashCorrect` also without break details. They rest on `OwnEntries`: the
  ids are those of the allocated breakpoints, each entry of the table has the
  type, place and line of its breakpoint, and no two ids have the same line.
  `EveryIdFindsItsOwn` is not inductive: that a search by key ends at the right
  element needs that no other element has the key.

The arguments go action by action. `FetchIsOwn` says where a search ends under
`OwnEntries`; `HitIsSilent` and the `...Types` lemmas say what hits and commands
leave alone.

`DbgpSessionProofs` proves, for any number of processes, connections, commands
and requests, every safety invariant of `DbgpSession`:

- `TypeCorrect`, `ActiveIsConnectedCorrect`, `FreedOnceCorrect` and
  `OneProcessCorrect` from one inductive invariant, `IInv`. Its first part,
  `RecordOK`, speaks of one process: what the functions of `com.c` and
  `xdebug_dbgp_deinit` make of a record keeps it (`NotActiveOK`, `AfterSendOK`,
  `FreeOK`, `LeaveOK`). The second, `PeersOK`, is what ownership needs: an open
  socket belongs to a connection that was made, so a new one has no owner yet.
- `AnsweredOnceCorrect`, from `OnceInv`: a continuation that was not read has no
  answer, and while a process is not stopping, the continuation whose id it
  remembers has none either. While it is stopping it may still remember the one
  that the end of the request has answered, but it never runs again on that
  connection, which is the reason why that is harmless.

`DbgpSessionProofs` also proves `ImplementsCorrect`, that `DbgpSession` implements
`DebugConnection`. `RefInv` adds to `IInv` that nothing is owed while a process
is in a command loop, and otherwise at most the continuation whose id it
remembers. `Seen` replaces the choice of a holder in the refinement mapping by
the process that has the connection; `StepRefines` then covers every step that
makes no connection, `ConnectRefines` the others.

`BreakpointsProofs` ends with `FramesMarkedCorrect` under the two conditions
without which it is false: one fiber, and no update that moves a line. The part
that is not in `FramesMarked` itself is `FramesCompiled`, that only compiled code
has frames: the resolver moves breakpoints of a file when it is compiled, and
then no frame of it exists.

`CallStackProofs` has what every module over the call stack needs.
`CallStackInv`: levels are places, inner frames have greater numbers, and the
fibers that wait for each other are a chain that ends at the main one (`Chain`,
`ResumersLive`), without which a fiber that ends could leave no stack to go back
to. `CallsInv`: no two frames of a request have the same number, but those that
fibers start with.

`SteppingProofs` proves every invariant of `Stepping` from `SteppingInv`, which
adds two layers to `CallStackInv`. `AnchorInv`: the numbers of the calls that were running
at the last step grow inwards and had all been given then, so calls made later
have greater ones; one of these calls that still runs is at the place it had,
also when a later fiber got the address of its vector. `TargetsInv`: the level,
number and stack a step waits for are those of these calls. Of `step_out` only the
level tells anything in another fiber, and `StopsAreDue` asks no more of it there;
in its own fiber a level not above the call's means that the call has gone or is
the one that returns. `StopsAreDue` and
`NothingMissed` then compare numbers and levels of frames that exist.

`ObserversProofs` proves every invariant of `Observers` from `ObserversInv`, for
any functions, fibers and bounds and an `int` of any width:

- `RequestInv`: what is not on has no state, and who has seen no fiber has one
  vector.
- `ProfileInv`. `MeasuredInv` bounds what a frame's callees cost by the time
  until the next frame in its vector began, not by the time until now: only so
  does it survive the frame above. `SumInv` says that the self costs so far and
  what the outermost calls took fit into the time before the outermost call that
  runs. That is about nanoseconds; each line differs from what it is of by half a
  unit at most (`Rounded`), which adds up over the lines (`OneMoreRounded`). The sum is a recursive function over a vector. That a function with
  such an equation exists, and what its values are, is proved by induction over
  a set of numbers (`Induction` and `Iterates` of `NaturalRecursion`), since the set of numbers for which
  a bound holds needs no operator as a parameter.
- `TraceInv`. `CallTimes` orders the calls of a vector by the time they began.
  `TextIs` adds to `TraceMatchesCalls` that calls yet to come are in no line and
  that a built-in function knows whether its first line was written. `FlameIs`
  bounds what a flame graph charges a running call by the time until the call
  above it; it is an `int`'s only while that time is less than `Half`, and the
  number 0, which the first frames of fibers share, is left out once a fiber was
  seen.

`LibraryProofs` proves what seven parts of the library promise:

- `LinesArriveWhole`, from `ReaderInv`: the lines that were read, the buffer and
  what is on the way are the text of the lines sent (`NothingLost`). `FirstLine`
  is the step from text to lines: when a buffer ends in a delimiter, and text
  goes on with it, what is before its first delimiter is the next line and what
  is behind is the beginning of the text that is left.
- `CommandsAreUnderstood`, from `CommandInv`: while the parser is in the middle
  of a line it has stored what the first options mean (`ReadingAt`), and its
  state and pointer are those of one place in the next one (`InOption`), also
  between a backslash and what it protects. `LineOf` says what is where in a
  line, `StripsProtected` that what a client protects is stripped again: every
  turn of that loop takes one character of the value (`TurnTakes`). The values
  may be anything without a NUL, of any length.
- `ContainersAgree`, from one invariant for each container. `ListInv`: the cells
  are those of a sequence without repetitions and each is linked to its
  neighbours (`Linked`); every insertion, in front or behind, at an end or in the
  middle, makes the same change (`HasInserted`), and so does every removal.
  `HashInv`: a chain holds each key of its slot once (`ChainIs`). `SetInv`: bits
  beyond the size of a set are clear, which no test of membership would show but
  a set that grows relies on. `StrInv`: a string without memory has no length.
- `LooksWhereAsked`, from `InspectionInv`. `StackMatches`: an entry is of the call
  at its place and has the data of the one before, or none where PHP itself called,
  and its table is that of the call unless the call got one later. So the entry one
  deeper has the data of the frame asked for, at any depth. `ActiveFitsTheLast`:
  while the last command that reads is undisturbed, what is active is what it made
  active, whatever its code called since. `SizeComesBack`: the first of the properties
  that are read puts back the size the client had set, whatever those within it
  leave. `LookupFits` is the property for
  the last lookup.
- `BreakpointsResolve`, from `ResolverInv`: every function of the table is in a
  list unless an eval declared some, the classes that are in none are those of
  evals, and a breakpoint is where the list of its unit puts it (`IsResolved`).
  `ItemsAreInner` says that a function's items are those of the functions in it,
  however deep, by induction over the depth; `ResolvedIsMeant`, that the item
  with the least span around a line is an innermost function and the scan finds
  its nearest statement (`ScanFinds`). It assumes that statements are within the
  lines of their function, which the engine sees to.
- `CoverageIsExact`, for any function without `finally` and any length of the run,
  from one invariant for the analysis and one for the run. `AnalysisInv`: an opcode
  that was found goes on to opcodes that are found or still to be visited
  (`BranchesInv`), so what the engine executes is live; a branch the second loop has
  passed has the outs of its last opcode, or the branch that starts behind it
  (`LoopInv`), which needs the last opcode to be live; a path that can be taken and
  goes nowhere else is kept, or one of its beginnings is still to be gone on from
  (`PathsInv`). The paths of a function with loops are finite, but the proof never
  counts them: that none is missed does not depend on the search ending. `RunInv`:
  the engine is in the branch `last_branch_nr` (`PlaceInv`); the bits are those of
  the branches entered and the outs taken (`HitsInv`), where `BranchBitsDiffer` says
  that bits of two branches never meet as no branch has more than `highest_out`
  outs; each step walked is an out of the branch before it, or enters a catch block
  (`WalkInv`); and the path of the level is the one walked since the last entry
  (`EndInv`). At the end `LastPathIsWhole` fits the two together.
- `LinesAreReported`, for any files and lines, from `LineInv`: the lines with the
  bit of a hit are those that ran since the last clean-up, and unless dead
  code analysis was asked for late, the lines of a compiled file that are not
  active are dead.

`EnvironmentProofs` proves what the parts around a session promise:

- `FileIsKept`, for any processes. `LocksInv` says who holds the locks;
  `KeptInv`, what a process that began later can be about to do to the file of an
  earlier one; `MetInv`, `WipedInv` and `UnlockedInv`, that the histories record
  it.
- `ControlIsAnswered`, for any clients and length of the queue. `OnePlaceInv`:
  nobody is in the queue twice, or read by two processes, or both; `AloneInv`:
  until a fork there is one process, so nobody takes its client between `select`
  and `accept`.
- `StartsAreDecided`, for any settings and variables: the search through the
  places finds the variable of that name in its foremost place, if there is any,
  and so agrees with what `StartsAsDocumented` says about places and secrets. It
  assumes that a place has a name once (`SituationsAssumption`).
- `PathsTranslate`, from `PathMapsInv`. What the parser accepts is right by
  itself (`ParserInv`, `TablesInv`): a remote range is as long as its local one
  unless that is a single line, and all ranges in their place grow on both sides
  (`RangesFollow`), which `KeptRanges` carries over to those left in reverse. On such ranges
  `SearchFinds` says that the halving search ends at the one that has the line,
  or at none when none has it: a range that has the line stays between the two
  bounds, and each turn brings these closer, by induction over the turns.
  `BeforeInv`, `CopiedInv` and `ReversedInv` say what is in the tables in the
  middle of copying: no remote path of an earlier file is lost, and a table has
  only what it had before and what this file put there. `SkipsInPlace` is the
  condition under which ranges grow, since the parser does not see to it for
  rules that skip.
- `SourceIsServed`, for any files, texts, names and working directory, in three
  steps. `UrlsLeadBack`: each character of an encoded name decodes to itself
  (`CharacterDecodes`) because no escape begins in front of it or goes on behind
  it, and what is decoded is the name, by induction over its characters.
  `FileGives` and `EvalGives`: the loop that skips is at line `i` after `i`
  turns, or at the end, and the loop that reads has what lies between, or the
  last line again. `SourcesInv`: the ids of the evals are their places in the
  list, a name has at most one, which is that of the last eval of that name, and
  a frame's id is that of its own text; a replaced one is therefore named by no
  frame.

The proofs about sessions assume only `SessionAssumption`, those about
breakpoints the assumptions on constants that `Breakpoints` names, and the
others those of their modules.

Only model-checked: the liveness of sessions, since the proof system has no
support for fairness and `ENABLED`; and the names of `Variables`, whose operators
are recursive over trees.

## Not modelled

- The text of values, XML, log and error messages, and the development helpers:
  output without behaviour over time.
- Registration of settings and functions, addresses and socket options, cloud
  sessions, output buffering, names of output files.
- What PHP code does that an evaluation, an assignment or a condition runs,
  other than the globals of the debugger it changes; an evaluation that itself
  stops, the development helpers that use the globals of `Inspection` too, and
  the page that `-p` asks for there.
- More than one call in `CodeCoverage`: what is kept by depth over recursion,
  exceptions that leave a call, and fibers.
- Addresses of frames within a vector that grows, and numbers of descriptors,
  so neither a stale pointer to a frame nor a second `close` of a number shows.
- Case-insensitive comparison of file names: names are equal or not.
- Path maps are not composed with stopping and sources, which use the names PHP
  has; the walk over directories that finds map files is left out, and so is a
  file that is compiled twice in the resolver.
- Assignments, generators, HTML traces and flame graphs of memory; compressed
  names of profiles; opcodes whose jumps are like those of another; the pipes
  that stand for the control socket on Windows, and names of Windows shares.

## Plan

1. `Stepping` composed with `DbgpSession`: one process with frames, steps and a
   connection that is lost in the middle of a step.
2. Path maps where breakpoints are set and frames are shown.
3. Addresses of frames in `CallStack`, for the pointers kept over calls that run
   PHP code.
4. A theorem about names of values, their recursive operators written as steps
   of a walk, as those of `CodeCoverage` are.
5. `finally` blocks in `CodeCoverage`, with an exception that waits while one runs.
