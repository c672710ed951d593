# i3d in TLA+

Specifications, model-checking configurations and proofs for i3d, the i3 window
manager daemon that runs Starlark scripts on window-manager events. Line numbers
are those of `src/`; `PROJECT.json` maps every definition to them.

## The system

i3d is one process. Its parts, the state they keep and what they do:

| part | source | state | operations |
|---|---|---|---|
| main | `cmd/i3d/main.go` | the signal context | read the environment, call `Run`, exit |
| main loop | `internal/daemon/daemon.go` `Run`, `reload`, `dispatch` | the registry in use, the channels | connect with retries, load, select between shutdown, event, receiver error and reload request, join the receiver |
| event receiver | `daemon.go` `receiveEvents`, `adaptEvent` | the event in hand | read an event from go-i3, offer it without blocking, report the end of the stream |
| watch loop | `daemon.go` `watchLoop` | set of changed paths, debounce timer | collect file events, debounce, request a reload without blocking |
| loader, registry | `loader.go`, `registry.go` | handlers per event type | list, read and run the scripts, skip failing ones, sort the handlers |
| IPC client | `starlib/i3client.go` | mutex, connection | request and reply with a deadline, reconnect and retry once, find the socket |
| script runtime | `starlib/runtime.go` | call mutex, tree cache, step limits | call a handler, `init()` or callback within limits; cached tree queries |
| PID watchers | `starlib/pid.go` | a goroutine per watcher | call a script's callback per new process; stop |
| builtins | `starlib/i3.go`, `exec.go`, `time.go`, `jsonconv.go` | none | i3 queries and commands, child processes, conversions |

How they interact:

    i3 --socket--> receiveEvents --eventIn (128), eventErr (1)--> main loop --> handlers
    files --fsnotify--> watchLoop --reloadReq (8)--> main loop --> registry
    handlers, init(), PID callbacks --callMu--> runtime --mutex--> IPC client --> i3

The main goroutine does the initial load, every reload and every dispatch itself:
while it is busy with one, nothing else of its select is served. The receiver and
the watch loop never wait for it; their sends do not block. The context is read by
all of them.

What is hard here: events and file changes that come while main is busy; full
channels; the end of the stream, the signal and the deferred join at the same
time; a file that changes between being listed, read and taken over; an IPC call
that times out while i3 still executes it; callbacks that share a mutex, a thread
and a cache with handlers; processes that change while they are looked at; numbers
that overflow. `PROJECT.json` lists these hazards at their lines.

What makes each part correct:

* main loop: a signal always ends `Run`; the end of the stream ends it with an
  error; a shutdown is never taken for such an error; a dispatch calls all
  handlers of one registry in order, although some fail.
* event path: order is kept, nothing is handed over twice, an event is lost only
  if the bounded queue is full or the subscription breaks, and i3's socket is
  always drained.
* watch loop and reload: no change of a script is forgotten.
* IPC client: a reply belongs to the request, every call returns, a request is
  executed at most twice.
* PID watchers: handlers, `init()` and callbacks do not overlap, each gets its turn,
  a stop function returns and no callback follows.
* script runtime: a limit hits only its own call and every limited call ends; the
  handlers of a dispatch see one tree, no older than what was at hand when it began;
  searches find what they report.
* loader: a script is loaded with all its handlers or not at all.
* process queries: `is_ancestor` says yes only of what was or is a descendant; the poll
  reports exactly the new numbers, and no process twice.

## Modules

| module | role |
|---|---|
| `Context` | event types and the cancelled context |
| `EventReceiver` | i3, the subscription socket, go-i3 and the `receiveEvents` goroutine |
| `Registry` | directories, registries, what a file loads as, handler order |
| `WatchLoop` | file changes, fsnotify, the `watchLoop` goroutine and its timer |
| `Daemon` | the main goroutine; extends and composes the three above; fairness |
| `DaemonProperties` | what the daemon promises; the refinement mapping to `LossyFifo` |
| `LossyFifo` | abstract event path: an ordered queue that may lose in two ways only |
| `DaemonProofs` | theorems about `Daemon`, one of them that it implements `LossyFifo` |
| `I3Client` | the request/reply client against a slow or restarting i3 |
| `I3ClientProofs` | theorems about `I3Client` |
| `PidWatch` | loads, handlers, watcher goroutines and stop functions around the call mutex |
| `PidWatchProofs` | theorems about `PidWatch` |
| `CallLimits` | steps and timer of one call on a Starlark thread |
| `Exec` | the builtin `exec`: child process, captured pipe, context |
| `ScriptCalls` | top level, handlers, `init()` and callbacks of one script; composes the two above |
| `ScriptCallsProofs` | theorems about `ScriptCalls` |
| `TreeCache` | the tree cache between main, handlers and callbacks |
| `TreeCacheProofs` | theorems about `TreeCache` |
| `Processes` | `pid.is_ancestor` over a changing process table |
| `Poll` | the poll of `/proc` and its comparison of two snapshots |
| `ProcessesProofs` | theorems about `Processes` and `Poll` |
| `TreeSearch` | one node in a search: its workspace, matching, reporting, the criteria |
| `TreeWalk` | `i3.find` and the look-ups by id, node by node through the tree |
| `TreeWalkProofs` | theorems about `TreeWalk` |
| `Numbers` | limits, durations, intervals and JSON numbers with their widths |
| `Discovery` | the candidate sockets and the choice among them |
| `Loader` | `loadOne` on a script's globals |
| `BuiltinProperties` | what `Numbers`, `Discovery` and `Loader` promise |
| `BuiltinProofs` | theorems about them |
| `MCDaemon`, `MCPidWatch`, `MCRuntime` | instances for TLC, `MCTrees` with the trees for the last; the others are checked as they are |

Component modules share variables by `EXTENDS`: each declares its variables, its
part of the initial predicate and its actions; `Daemon` adds the main goroutine and
says which variables each step leaves alone. Operators named as mutants in a
comment are plausible bugs of the definition that follows them; no specification
uses them.

### State and actions

*EventReceiver.* `rcv` is the position in `receiveEvents`: `next` (in
`receiver.Next`), `offer` (the non-blocking send), `report` and `sendErr` (after the
loop), `done`. `wire` is what i3 wrote and nobody read; `link` says whether i3 has a
subscriber. `Subscribe`, `GiveUp` and `NextClosed` are what the code relies on from
go-i3: Next reconnects, or returns false when that took too long or when the
receiver is closed. A break of the link loses any number of the newest events on
the wire. The default branch of `adaptEvent` is unreachable for the six subscribed
types and has no action.

*WatchLoop.* `fsq` is everything between the kernel and the watch loop. A file
change and its event are one step. A half-written file is one more change to a
content that does not load. `ModifyUnseen` is a change that met a full kernel
queue: no event, but an overflow error. The timer is `off` when `timerCh` is nil.
The branch for an empty set after the timer fired is unreachable, which
`PendingHasTimer` shows.

*Registry.* A content stands for everything the text of a script decides: whether
it loads (`Loads`), fails (`Fails`) or may do either (in both: an `init()` that
needs i3), its priority and its events. File names are numbers in the order of
base names, so that the tie-breaker is `<`.

*Daemon.* `main` is the position of the main goroutine. A reload is a listing
(`StartLoad`), one step per file (`LoadScript`, in the order of names) and the store
(`FinishLoad`); files may change between any two. A dispatch takes the handlers of
the registry at its start and calls one after the other (`RunHandler`); what a
handler does is not modelled, only whether it fails. `dispatch` loads the registry
once, and nothing replaces it meanwhile. `CloseReceiver` and `Join` are the deferred
function of `Run`. When `main` is `exited` the process is gone.

*I3Client.* `pc` per goroutine, `mu` and `try` as in `roundTrip`. The attempt's errors
are classified as `isRecoverableIPCError` does: dial errors, broken pipe, end of
file, deadline and desync are recoverable, oversized and truncated replies are not.
`inbox` is what the client can read on its connection; requests written to a closed
connection stay in `requests`, and i3 may still execute them. A request that fits
the socket buffer is written in one step. A connection is numbered for the attempt
that dials it (`Dialled`), since each attempt dials at most once.

*PidWatch.* `pc` per goroutine: main is `idle`, in the `toplevel` of a script (which
runs without the call mutex), waiting for the mutex (`initLock`, `lock`) or in a call
(`init`, `call`); a watcher opens its socket or takes its first snapshot (`open`), looks
at its context (`check`), waits for processes (`wait`), and calls back (`lock`, `call`)
once per process of a burst. The polling loop has one `select` where the netlink loop
has a check and a receive: `check` lets it pass, and `PollCancelled` competes with
`Receive` in `wait`. `stopping` is the watcher whose stop function a goroutine is in;
it may be a callback's own. Script code stops only watchers of its own load, whose
stop functions it can know. One script stands for the directory, so that a failed load
leaves no handlers. A stop function called again after it has returned changes nothing
and is no step. What a script's code does otherwise is left out, and so is the end of
the process, for which main does not wait for watchers.

*CallLimits, Exec, ScriptCalls.* One script with its one thread. `reason` is why the
thread is cancelled, `left` what it may still execute, `timer` the timer of the call in
progress and `late` the timers of ended calls that were firing when `Stop` was called.
`child` is where each goroutine is in `exec`; `held` is a child that has exited while a
descendant keeps the captured output open. Code may loop or wait for ever: `Return` has
no fairness, only `Aborts`, a return because of a cancellation, has.

*TreeCache.* `cache` is `Runtime.eventTree` with its three forms; a tree is its version in
i3. An access goes through `checked` (the first read of the pointer), `fetch` (GET_TREE),
`ensure` (a new cache if there is none) and `write` (the pointer is read again), form by
form; `op` says where each goroutine is, so that resets fall between any two. `phase` is
what main does. `crashed` is the goroutine that read a nil pointer.

*Processes.* `is_ancestor` is one walk, read by read, while processes fork, exit, are
reaped, are adopted by process 1 and have their numbers used again. `above`, `chain`,
`exited` and `replaced` are history for the two properties.

*Poll.* `prev` and `snap` are the two snapshots, `against` and `at` the positions in them
(`j` and `i` in the code), and each iteration of the comparison is an action. `news`
are the numbers called back since the tick. The rest is history: `shown`, the snapshot
before `snap` whatever the code keeps in `prev`, and, since a number can pass from one
process to another between two ticks, `heard`, how often the watcher has met the process
that has a number now, and `taken`, the numbers that passed. The parent, read for the
callback, is left out.

*TreeSearch, TreeWalk.* A node is a function from its fields to JSON texts, as the searches
compare them. `TreeWalk` is one search after the tree was fetched: `todo` are the nodes
still to be visited in the order in which the recursion of the code reaches them, and
`above` the argument `curWS` of each of its calls. `FindVisit` is a call of `walk` in
`findInTree`; `AnswerVisit` and `PassVisit` are one of the other walks at the node with the
id and at another, with the early exits at a limit and an answer. The trees are those i3
documents (`Documented`): ids that are positive and differ, and each node in one list of
children, numbered here in document order.

*Numbers, Discovery, Loader.* Pure functions, each written as its code works: wrapping
integers of `2 * Half` values, the sorted candidates, the entries of a dict one after the
other. `BuiltinProperties` has the definitions they are compared with. In `MCRuntime` an
initial state picks one input of a small size, or one of the machines `TreeCache`,
`Processes`, `Poll` and `TreeWalk`.

## Runs

| run | checks | bounds |
|---|---|---|
| `daemon_events` | `DispatchComplete`, `SilentShutdown`, `OrderedDelivery` (the event path implements `LossyFifo`) | 3 events, queue of 1, 2 on the socket, 1 break, 2 scripts, 1 file change |
| `daemon_reload` | `TypeOK`, `NoForgottenChange`, `PendingHasTimer` | 2 scripts, 3 contents, 2 changes, reload queue of 1, 1 overflow, 2 connection attempts |
| `daemon_live` | `ShutdownCompletes`, `ReloadConverges`, `StreamFailureEndsRun`, `SocketDrained` | events without end, 1 script, 2 changes, 1 break, queue and socket of 1, 2 connection attempts with the back-off between them |
| `i3client` | `ClientTypeOK`, `ReplyMatches`, `ExecutedAtMostTwice`, `CallReturns` | 2 callers, 2 calls, 2 restarts |
| `i3client_inflight` | `SingleInFlight`, violated | 2 calls |
| `i3client_truncated` | `BrokenIsRetried`, violated | 2 calls, 1 restart |
| `pidwatch` | `PidTypeOK`, `StoppedStaysSilent`, `StopFunctionReturns`, `CallServed` | 2 watchers, bursts of 2, 2 loads |
| `pidwatch_handler` | `HandlerBounded`, violated | 1 watcher, 1 load |
| `pidwatch_skipped` | `SkippedStaysSilent`, violated | 2 watchers, 2 loads |
| `script_calls` | `CallsTypeOK`, `LimitsAreOwn`, `CallEnds`, `CallEndsAtShutdown` | main and 2 watchers, limits of 1 and 3 steps and none, 2 late timers |
| `runtime` | `CacheTypeOK`, `StaleOnlyFromHand`, `OneTreePerDispatch`, `MainNeverCrashes` | 2 watchers, 3 trees, 2 handlers |
| | `AncestorSound`, `AncestorComplete` | 4 processes, 3 forks during a call |
| | `FindExact`, `FoundAsReported`, `LookupsAgree` | all trees of up to 4 nodes of 6 kinds, limits up to 2 |
| | `PollExact`, `CalledBackOnce` | snapshots of up to 4 processes, any number of ticks, any numbers reused |
| | `LimitsExact`, `IntervalExact`, `JsonNumbersKept` | all numbers of 7 bits, floats of a precision of 16 |
| | `SocketFound` | 3 sockets |
| | `LoadExact` | all kinds of globals, up to 2 entries in the dict |
| `tree_stale` | `TreeFromThisDispatch`, violated | 1 watcher, 2 trees |

Why the bounds are enough. Queues of one element are full after one, so that every
branch for a full queue is reached with two or three elements; three events fill
the queue, the hand and the wire at once. Two scripts are what an order, a listing
and a change elsewhere need; two changes suffice to fill the reload queue and find it
full. One break, overflow or restart separates before and after. Two callers compete
for a mutex, and a second call shows what a first leaves behind; more callers and calls
are left to the proofs. A burst of two has a
callback after a cancellation; main and two watchers are one goroutine that is stopped,
one that holds the mutex and one that wants it, and two loads separate a script from its
replacement. In `daemon_live` events
carry no number, so that a finite state space has runs in which i3 never stops
sending and strong fairness is really needed. A step limit of one is reached at once
and one of three not before a timer; two timers can be late together. Three trees are
one before a dispatch, one in it and one after; two watchers are one that stores an old
tree and one that uses it. Four processes are a chain with a middle to remove and one
to take its number. Trees of four nodes have a root, a workspace, a container and a
window, or siblings; a signed number of 7 bits has every boundary of one of 64, with
units, defaults and precision scaled alike. Two entries of a dict can name one event.

Fairness. `ReceiverFairness`, `WatchFairness` and `MainFairness` say that goroutines
keep running, that timers expire, that go-i3 ends a blocked Next, and that handlers
and loads end, stop functions aside (`pidwatch_handler`). Handlers and `init()` are
limited in steps and time (`README.rst:32-33`, `runtime.go:123-155`; `script_calls` checks that these limits work), except for child
processes, which only the daemon's context ends; that a script's top level ends is
assumed of the script. Go's `select` chooses at random among the ready branches, hence strong fairness
for each branch of the main select. `daemon_live` assumes only
the receiver's fairness from the start: `SocketDrained` has nothing more, so main may hang
in a handler, and the other properties name the fairness they need. In
`I3Client`, Go's mutex is starvation-free (strong fairness of `Lock`) and the deadline
passes (weak fairness of a caller's steps); nothing is assumed of i3. `PidWatch`
assumes the same of its mutex and of the polling `select`, that a receive ends by its
timeout, and that script code ends unless it is in a stop function; the top level of a
script has no limits, so for it this is a condition on scripts. `ScriptCalls` assumes that
instructions execute, that a cancelled thread stops, that timers fire, and that a killed
process goes away; not that code or a child ends by itself.

`StopFunctionReturns` and `CallServed` except one situation, `MutexStuck`: the holder of
the call mutex is in the stop function of a watcher that waits for this mutex, or of the
watcher whose callback it is itself. That they hold says that nothing else blocks a
goroutine for ever; that the exception happens is `pidwatch_handler`.

## Disagreements found

* `i3client_inflight`: after a retry that times out the connection is kept with its
  unanswered request. The next call takes the late reply for its own, and so does
  every call after it, until one fails recoverably (`i3client.go:156-159`).
* `i3client_truncated`: a truncated reply is `io.ErrUnexpectedEOF`, which is not
  `io.EOF`: no retry (`i3client.go:270`).
* `pidwatch_handler`: a handler that stops a watcher waits for ever if the watcher is
  about to call back (`pid.go:107-110`, `runtime.go:124`); the whole daemon stands still,
  and the handler's time limit does not help.
* `pidwatch_skipped`: a watcher started by a script whose load then fails is never
  cancelled (`pid.go:91`); the same holds for watchers of replaced or removed scripts.
* `tree_stale`: a callback that fetched the tree before an event stores it after
  `BeginEvent` has reset the cache, without the call mutex on the side of the reset, and
  the handlers of that event get it (`runtime.go:68-72`, `:180-183`).

Other weak spots the properties had to make an exception of: a change lost in an
overflow of the kernel's event queue causes no reload (`daemon.go:270-274`); a callback
can read a nil cache and end the daemon (`MainNeverCrashes` is about main only); a
top level on a thread that a callback shares can be cut off by the callback's limits,
and a late timer can hit the next call (`LimitsAreOwn`); 2^63 passes for an int in JSON
(`JsonNumbersKept`); a time limit of more milliseconds than a duration holds is shortened or
removed (`LimitsExact`), and a polling interval is shortened (`IntervalExact`); the poll
never reports a process that took the number of another (`CalledBackOnce`); a fraction is searched for as an integer (`FoundAsReported`).

## Proofs

`DaemonProofs` proves for all sizes of queues, sets of scripts, contents and event
types, under the named assumptions of the constants:

* `TypeCorrect`: `TypeOK`. It is inductive together with `AttemptLeft` (a waiting
  attempt is not the last), which the increment of `attempt` needs.
* `ChangesTheorem`: `NoForgottenChange`, inductive given the types. The lemmas follow
  one changed path: a file step leaves an event behind (`CoveredFiles`), the watch
  loop hands it on (`CoveredWatchLoop`), a reload reads the file after it took the
  request (`CoveredMain`).
* `TimerTheorem`: `PendingHasTimer`, inductive.
* `DispatchTheorem`: `DispatchComplete`, inductive given the types: each call appends
  to the called handlers one that precedes all remaining ones.
* `ShutdownTheorem`: `SilentShutdown`, from `ReportInv`: a receiver that main closed
  was closed after the signal, or has terminated already.

`PidWatchProofs` proves for any number of watchers, bursts and loads:

* `CallExclusion`: `PidTypeOK`, whose third part says that exactly the holder of the
  mutex is in a call.
* `StopTheorem`: `StoppedStaysSilent`.

Both follow from the inductive invariant `PidTypeOK /\ WatchInv`. `WatchInv` adds that a
callback belongs to a process left in the burst (else the burst would fall below
zero), that a load in progress has a number, that a goroutine in a stop function has
cancelled the watcher, and that a stop function left only after the watcher's end.

`I3ClientProofs` proves for any number of callers, calls and restarts of i3, which the run
bounds by two each:

* `ClientTypeTheorem`: `ClientTypeOK`, mutual exclusion included.
* `ReplyTheorem`: `ReplyMatches`. The strengthening `CleanInv` says what a connection
  carries that no failed call has left open: nothing between calls, and during one the
  request or its reply.
* `ExecutedTheorem`: `ExecutedAtMostTwice`. `SentInv` counts for each request what i3
  has executed and the connections it waits on, by how far its call is (`Never`, `Once`,
  `Twice`); that an attempt adds one needs connections that are not dialled yet to be
  empty (`FreshInv`), and calls to have different numbers (`CallInv`).

`TreeCacheProofs` proves for any number of watchers, trees and handlers:

* `CacheTypeTheorem`, `MainSafeTheorem`, `StaleTheorem`, `OneTreeTheorem`, from one inductive
  invariant. `HandInv` says when an access has a tree at hand; `MainInv` that main is
  between accesses when it resets; `FloorInv` bounds everything from below by the floor of
  the last reset (`ResetBounds`); `OneInv` says that in a dispatch no callback shares before its
  handlers every tree, cached, at hand or seen, is the raw one in the cache, which is
  fetched only when there is none.

`ScriptCallsProofs` proves for any number of goroutines, any limits and late timers:

* `CallsTypeTheorem`, `LimitsAreOwnTheorem`. `CountInv` keeps the sum of the used and the
  remaining steps of a call, `FreshInv` that a top level without a call beside it has
  a thread without limits, `LateInv` the place of a firing timer.

`DaemonProofs` also proves that the event path implements the abstract queue, for all sizes of
the queues and any number of events, breaks and reloads:

* `DeliveryTheorem`: `OrderedDelivery`, from `TypeCorrect` and `HandInv` (an event is in the
  receiver's hand exactly while it is offered). The queue is mapped to the numbers of the
  events on the socket, in the hand and in `eventIn`. Each kind of step has its
  lemma: i3 writes (`EmitSends`), the link breaks (`BreakLoses`), the receiver reads or sends,
  which moves an event but changes nothing abstract (`MovesStutter`), drops
  (`OfferDrops`), main receives (`SelectHandsOver`); the rest leave the path alone
  (`PathStutter`). Its one hypothesis is `~Unbounded`: with events that carry no number, as
  in `daemon_live`, there is no order to speak of.

`ProcessesProofs` proves for any number of processes and forks:

* `SoundTheorem`, `CompleteTheorem`: both properties of `is_ancestor`, from one inductive
  invariant. `TreeInv` says that parents are processes that have not exited and that no
  process is above itself; `SoundInv` that the walk stays below what was above the
  descendant; `CompleteInv` that it stays on the way to the ancestor while nobody there
  exits. The ancestors of a process are the smallest set with it that is closed
  under parents, so that what holds of them is proved by giving such a set.
* `PollTheorem`, `OnceTheorem`: `PollExact` and `CalledBackOnce`, for snapshots of any size.
  `ComparedInv` says that all that has been compared in one snapshot lies below what has not
  in the other; `HeardInv` that the watcher has met whatever is in the last snapshot or the
  news, but for the numbers that were taken.

`BuiltinProofs` proves of the functions, for every input:

* `LimitsTheorem`, `IntervalTheorem`, `JsonTheorem`: for integers of any width and any unit.
* `SocketTheorem`: for any number of sockets, numbered by their names. The candidates can be
  sorted and the first that answers exists by the lemmas `LeastNumber` and `UpTo`, which
  are the induction over numbers in terms of sets.
* `LoadTheorem`: for any names and any number of entries in the dict (`ScriptGlobals` is the
  set of all globals). `EnteredResult` says what the first `n` entries leave, and that the
  recursive function that enters them exists.

`TreeWalkProofs` proves for trees of any size and depth, any criteria, limits and ids:

* `FindTheorem`, `ReportedTheorem`: `FindExact` and `FoundAsReported`. `PendingInv` says what
  is left of the recursion: `todo` rises, it has exactly the nodes not yet visited whose
  parents are, and each is called with the number of the workspace it is inside of. A step
  then visits the next node in document order (`DescendPending`; that children come before
  the siblings of their parent is where the numbering matters). `FindInv` adds that the
  results are those of the hits before that node, in order (`Results`), of which a hit
  adds one (`ResultsStep`) and which are exact after the last node or at the limit
  (`ResultsExact`). `MatchReported` relates matching to reporting.
* `LookupsTheorem`: `LookupsAgree`. `LookInv` says that no node visited has the id, or that the
  node that has it had no answer and only nodes after it are left, where unique ids keep
  the walk from another answer.

They assume that the trees are `Documented` (`WalkAssumption`) and that the texts of integers
are none of the other values (`SearchAssumption`). `WorkspaceStep` shows that the recursive
number of the code is the number of the nearest enclosing workspace, from the greatest member
of a set of numbers (`GreatestExists`), which replaces the induction over the tree.

Only model-checked: the liveness properties (liveness under fairness is out of the
prover's reach).

## Further work

An abstract request and reply service that `I3Client` implements.

## Not modelled

Starlark itself, beyond what `CallLimits` says of a thread; in particular the tree that
handlers and callbacks share is a Starlark value that is not frozen, which matters only
to a script that changes it. The builtins that pass one request to i3 and convert its
reply, among them `rename_current_workspace` with its read before the command, the
quoting of names, the time module and the values of events: they keep no state.
`focusedNodeInfo`, which only a benchmark calls. Argument unpacking, logging and
formatting, usage texts. The bytes of netlink messages. The default branches for event
types that are not subscribed. A request that is written only in part when the deadline
passes (`i3client.go:181-188`): it would have to fill the buffer of the socket; an attempt
that ends so is retried, or leaves its connection open, like one whose reply is late, but
the beginning of a request that then stays in the stream to i3 is not in `requests`.
`build.sh`, `run.sh`, `profile.sh` and the examples.
