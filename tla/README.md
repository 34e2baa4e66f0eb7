# winsh: a TLA+ verification project

winsh runs commands on, and copies files to and from, Windows hosts over WinRM.
This project models the parts of it whose correctness depends on the order of
events: the control master that shares authenticated connections between
clients, how clients start one and what they report, the remote command that
runs on those connections, and the upload and download of a file. TLC checks the
models on small instances; TLAPS proves the safety properties of all of them for
every number of clients, every queue limit, every size of a file, every set of faults.

Paths below are relative to the repository (`src/`); `server.go` without a
directory is `internal/control/server.go`.

## 1. The system

| component | state it keeps | operations | what makes it correct |
|---|---|---|---|
| master server (`control/server.go`) | active job, queue, `exiting`, `stopped`, listener, idle timer, three wait groups | accept, read frame, check, exit, enqueue, cancel, run, idle expiry, heartbeat, interrupt | one command at a time, in order of admission; every admitted command answered once and truly; refused commands never sent; admission ends once and leads to a stop; lanes closed only when unused; no double close of a channel |
| remote command (`remote/control_runner.go`, `session.go`, `runner.go`) | Shell and command ids, `closed`, receive loop and its result, cleanup budget | Create, Command, Send, Receive loop, Signal, Delete | a Shell that may exist is reported; nothing is replayed; a clean return leaves nothing behind; cancellation ends it within the budget |
| lanes (`remote/persistent.go`, `keepalive.go`, `transport.go`) | mutex, `failed`, `closed`, NTLM sequence | Post, KeepAlive, Close, handshake with retries | one exchange at a time; nothing sent after an uncertain exchange |
| control client (`control/client.go`, `cmd/control.go`) | connection, output writers, deadline | Invoke, half-close, classify errors | result or "unknown", never a wrong success; bounded wait |
| start-up and socket (`control/master_unix.go`, `socket_unix.go`) | lock file, socket, child, bootstrap pipe | StartOrConnect, Serve, Check, Exit, recover stale socket | one master per path; a live socket is never removed; a crash is recovered from |
| upload, download (`remote/upload.go`, `download.go`, `transfer.go`, `localfile.go`) | two sessions, local and remote stages, control record | stream, finalize, commit, clean up | a destination is replaced by a verified file or not at all; commit never replayed; leftovers reported |
| transfer codecs (`remote/transfer_codec.go`) | scanner buffer, bounds of a search | record reader, line splitter, chunk size, path rules | the largest chunk that fits; a stream accepted by its bytes, not by how it is cut |
| remote scripts (`remote/scripts/*.ps1`) | remote stage, control record, destination | receive, send, check and move, fetch, remove | what they leave and what they report agree |
| challenge and sealing (`remote/challenge.go`, `sealing.go`) | none | validate fields, frame messages | no field outside the message; lengths agree |
| configuration, secrets (`config/`, `secret/`) | file | discover, load, select, resolve, use-context | precedence; a concurrent edit is not lost |

Interaction: a client connects to the master's Unix socket and sends one frame.
The master's handler goroutine admits the job; a worker goroutine calls
`remote.RunWithPosters`, which creates a Shell on the host through the command
lane, receives its output in a second goroutine, and deletes the Shell through
the command lane or, after an interruption, the cleanup lane. A heartbeat
goroutine uses both lanes when they are idle. The lanes are closed when `serve`
returns. Without a master, `remote.Run` does the same in one process. A transfer
opens up to three sessions one after the other, each for one script; their only
shared state is on the host, the stage or control record and the destination.

The hard behaviours are listed, with their lines, under `hazards` in
`PROJECT.json`: interleavings under `masterServer.mu`, flags read in one section
and acted on in another, goroutines that must end before lanes close, requests
that arrive after the client gave them up, heartbeats that fail a lane between
two steps of a command, and waits that do not look at a context.

## 2. What is modelled

| module | what it is |
|---|---|
| `MasterServer` | the master: one action per critical section or scheduling point |
| `MasterServerProofs` | its inductive invariant and the theorems |
| `CommandService` | the abstract master: one line of commands, implemented by `MasterServer` |
| `MasterServiceProofs` | that the master implements it |
| `MCMasterServer` | symmetry for TLC, over the proof modules so that their predicates can be run too |
| `Lanes` | `persistentPoster`: mutex, failure, requests in flight |
| `Handshake` | `authenticateConnection`, its retries and the one dial of its transport |
| `Session` | `runWithPosters` / `Run` with `receiveLoop` and the heartbeats, over `Lanes` and `Handshake` |
| `RunContract` | the errors `RunWithPosters` may return: assumed by `MasterServer`, checked of `Session` |
| `RemoteRun` | the abstract call with that contract, implemented by `Session` |
| `MCSession` | the goroutines and lanes of the code, for TLC |
| `SessionProofs` | the inductive invariant of a command, its theorems, and that it implements `RemoteRun` |
| `ControlStart` | `StartOrConnect`, `launchMaster`, `serveWithAuth`: lock, socket, children, crashes |
| `ControlClient` | `Invoke` and the reports of `runControlled`, over `ControlStart` and an abstract master |
| `ControlStartProofs`, `ControlClientProofs` | their invariants and theorems |
| `TransferSession` | the sessions of a transfer, exchange by exchange, and the host |
| `Upload`, `Download` | `uploadLanes`, `downloadLanes` and the scripts they run |
| `Transfer` | a transfer in either direction, its report and its properties |
| `Replacement` | the abstract transfer: one file exchanged for another, and a report of it, implemented by `Transfer` |
| `TransferProofs` | the inductive invariant of both directions, the theorems, and that it implements `Replacement` |
| `ChunkSize`, `ChunkSizeProofs` | the search for the chunk size of an upload, and that it is right |
| `LineScanner`, `LineScannerProofs` | the framing of a download, and that it is exact |
| `TransferCodec` | the two algorithms in one run |

### MasterServer

An element of `Clients` is a connection, its handler goroutine and, for a
request, its `commandJob`: a connection carries one frame. Variables carry the
names of the code; `handler`, `worker`, `serve` and `beat` are the places of the
goroutines, `done` and `stopped` count the closes of the channels, so that a
double close (a panic) is a visible state. `fired` counts expiries of the idle
timer whose goroutine has not got the mutex: `Timer.Stop` cannot take these back.

| code | actions |
|---|---|
| `serve`, its `AfterFunc` | `Accept`, `AcceptFails`, `ServeWaits`, `Interrupt`, `ctxStop` |
| `stopIfIdle`, the timer | `IdleFires`, `stopIfIdle` |
| `keepAlive` | `beatWatch`, `beatTick`, `beatReturns`, `beatPong`, `beatFails` |
| `handle` | `readFrame`, `check`, `exitSection`, `exitAnswers`, `enqueueRefuses`, `enqueueAccepts`, `jobCtxEnds`, `cancelQueued`, `jobAnswers` |
| `run` | `runStarts`, `executeSends`, `executeReturns`, `runStops`, `runContinues` |

`execute` is `RunWithPosters` seen from outside: it may send (`executeSends`) and
returns any set of sentinel errors `RunContract` allows. Strings, output frames
and their byte format are left out: a frame is what it asks for and how its
target compares with the master's. Of the loop at the end of `run` a single
action takes the whole effect, since it runs under the mutex; its `k` is the
number of queued jobs it skips because their contexts have ended.

### Lanes, Handshake and Session

A call of `Post` is a record per goroutine: waiting for the lane's mutex, on the
wire, or ended with an outcome. A request written is in `net` until the host
processes it, which may be after the client abandoned it. The host is external:
it performs a request or answers it with a fault. `mode` is the caller: a
master (heartbeats independent of the command, no fallback) or `Run` (heartbeats
end with the caller's context, a third connection for an unsent Delete).

`closeWith` is split at its exchanges; its first part (`closed`, `lifecycleDone`,
`sendMu`, `cancel`, aborting pipes) is one step with the decision to close,
because `runWithPosters` sends and closes from one goroutine. Errors are sets of
the sentinels `errors.Is` would find, `"other"` standing for an error without
one. The recorded `recvErr` of a loop ended by `closeWith` itself is never read.

Run opens its two lanes before the command, and a third for a Delete that no other
lane could send; the lanes of a master are open. `shake` is the handshake in
progress: its lane, its next leg and the attempts so far. `sock` is the TCP
connection of a lane, whether the transport has dialed, and whether the connection
carries the lane's security context. `carriers` is external: net/http uses the
connection it has, or dials when the server has closed it. A leg with its answer is
one step, since a leg given up is never waited for. `RunMayReturn` is about
`RunWithPosters`: a Run that could not open its lanes ends in `unopened` before it
calls that.

| code | actions |
|---|---|
| `NewPersistentPosters`, `transport.post` | `lanesOpen`, `lanesOpened`, `freshOpened` |
| `authenticateConnection` | `discovered`, `negotiated`, `authenticated`, `legFails` |
| `Post`, `postLocked` | `mainPosts`, `recvPosts`, `exchangeEnds` |
| `startSessionLanes`, `send`, `receive`, `closeWith` | `mainStarts`, `mainReturns` |
| `receiveLoop` | `recvPolls`, `recvReturns`, `recvWrites` |
| `keepLanesAlive`, `keepAlive` | `beatTick`, `beatRound` |

### ControlStart and ControlClient

A client runs `StartOrConnect` and then `Invoke`. `start` is its place in the
first, `call` in the second. The master it launches is named after it, since a
client launches one at most. The lock is a `flock` on an open file description
that the child inherits: `LockFree` holds when no client has it open and no child
is alive. A socket file outlives its process, so `path` may name a master that is
gone; an initial state may have such a socket from before. A probe may be
answered, refused or missed at any time, which stands for every timing.

The start's actions are one per system call or exchange, so that two starters,
a draining master and a crash meet at every point. `startup` is the start's
context; the password may take longer than it allows.

In `ControlClient` the master of a connection is reduced to what the connection
sees: a request waits, runs and is answered by one final frame after any number
of output frames. What that frame may say is the contract that `MasterServer`
and `Session` are checked for. A frame may be cut when the connection's deadline
passes while it is written. Reports are the classes of `controlFailure`: exit
code, not started, unknown, other failure. `shows` is a writer that may never take
what it is given. A client that crashes in `Invoke` has the effect of one that
closes its connection.

| code | actions |
|---|---|
| `StartOrConnect` | `looks`, `probes`, `triesLock`, `probesAgain`, `removes`, `resolves` |
| `launchMaster` | `launches`, `awaits` |
| `serveWithAuth` | `boots`, `binds`, `becomesReady`, `stops` |
| `invokeConn` | `dials`, `halfCloses`, `writesRequest`, `readsFrame`, `readsNothing`, `shows`, `stopsShowing` |
| `masterServer` | `admits`, `begins`, `executes`, `outputs`, `answers`, `serverStops` |

### TransferSession, Upload, Download, Transfer

Here a session is seen at the level of its exchanges. The main goroutine has a
`role`, the session it is in, and a `step` of it; `x` is the state of its exchange
and `net` the requests the host has not processed, which include those that were
given up. `unsent` means that no lane could send the request: lanes and the retry
of a Delete are in `Session`. The receive loop of each session and the copy to the
local stage run beside it.

The host's side is external, except for the scripts: `ReceiverOpens`,
`FinalizerMoves`, `SenderWrites`, `Cleans` and so on follow the `.ps1` files. A file
is a number of chunks; `lost` says that its bytes were altered on the way, `mixed`
that a chunk was read after the source had changed. `dest` tells the old bytes,
those of the source, and any others apart.

Abstractions: a budget (five seconds for a close or a removal) may expire at any
time; the failure of `chunkSize`, which depends on two fixed texts, is in
`ChunkSize` only; the local stage, which every return removes, is modelled by what
it holds; a change of the source shows in its size, identity or time; nothing
alters the stage between the hash and the move of `control.ps1`, which holds no
lock on it; `download.ps1` has the source open against writers.

### ChunkSize, LineScanner

`chunkSize` is a loop over `lo` and `hi`, for every function `length` that does not
decrease. `splitCRLFLines` is the operator `outcome` on the buffer; `bufio.Scanner`
is external and modelled by when it reads, how much its buffer holds and when it
gives up. The stream and every way to cut it into reads are chosen by TLC, and
`WellFormed` is the reference definition that does not look at cuts.

## 3. What the runs check

Passing runs, with the number of distinct states:

| run | instance | properties |
|---|---|---|
| `master_faults` (680,000) | 2 connections, queue of 1, every frame, fault and sentinel | type, `NoDoubleClose`, `SerialExecution`, `NoLostJob`, `IdleTimerCovers`, `ExitReachesStop`, `RefusedNeverSent`, `QuietBeforeLanesClose`, `AnswerFinal`, `ImplementsService` |
| `master_queue` (2.8 million) | 3 connections, queue of 2, requests and exits, failing heartbeat | `AdmissionOrder`, `LanesNotReused`, `ExitWaits` |
| `master_liveness` | 2 connections, under `FairSpec` | `JobsAnswered`, `ExitAnswered`, `MasterReturns` |
| `session_faults` (2.3 million) | both callers, handshakes with two retries, every fault | type, `NoOrphan`, `NoReplay`, `SequenceIntact`, `CleanReturn`, `ImplementsContract` |
| `session_liveness` (357,000) | both callers, silent host, blocked writer | `CancelReturns` |
| `transfer` (766,000) | both directions, 2 chunks, every fault | type, `OutcomeHonest`, `CommittedIsSource`, `LeftoversReported`, `UploadTellsOrphans`, `ImplementsReplacement`, `TransferReturns` |
| `control` (344,000) | 2 clients of one path, one command each | types, `OneMaster`, `LiveSocketKept`, `PasswordNeeded`, `ClientHonest`, `CommandReturns` |
| `codec` (86,000) | envelopes up to 5, every growing length; streams up to 8 bytes, lines up to 2 | `LargestFits`, `CutsDoNotMatter`, `LinesArrive`, `LoopsEnd` |

What the properties of these components say:

* `SequenceIntact`: no request is written on a lane after an exchange with an
  uncertain outcome, or on a connection other than the one the lane was
  authenticated on, whatever net/http dials.
* `OutcomeHonest`: after "done" the destination has the new file, after a failure
  it does not and never will, also when the host still processes a request that
  was given up; only "finalization outcome unknown" leaves both open.
* `CommittedIsSource`: no truncated, mixed or altered bytes reach the destination.
* `LeftoversReported`: the file a transfer may leave on the host is named when it
  returns; `UploadTellsOrphans`: a Shell that one of an upload's sessions may leave has
  an error. Neither is about the Shells of a download: `download_cancel` shows one of the
  sender, and `runWithCleanup`, which `temp.ps1` and `fetch.ps1` use, drops the error
  of a close after that of the command. `LeftoversReported` starts when the script is known to run: a
  lost answer to its Command leaves a stage of which the transfer does not know.
* `ImplementsReplacement`: a transfer, seen as its destination, its report and whether
  the host has or may get anything else of it, exchanges the file in one step,
  respects `--force`, reports once, and changes nothing afterwards that the report
  excludes. That includes `NoClobber` (no step replaces an existing file without
  `--force`) and `SuccessLeavesNothing` (after done there is no file, Shell or request
  left), which the proofs also state by themselves.
* `ImplementsService`: the master, seen as the line of commands admitted and not
  answered, the commands that reached the host, the answers and what clients were
  told, is a `CommandService`. That is the order of admission, the limit of the queue,
  one answer per command, the words that fit what became of it, and that nothing
  follows a command that failed on the host, in one specification.
* `OneMaster`, `LiveSocketKept`, `PasswordNeeded`: see section 4.
* `ClientHonest`: an exit code comes after all the output of a command that ended;
  "not started" is never followed by a start; what may still run is "unknown".
* `CutsDoNotMatter`, `LinesArrive`: exactly the well-formed streams are accepted, and
  no line is lost or doubled, however the bytes are cut into reads.

Bounds. Two connections suffice for every race of two handlers, a worker and a
queued job; three for the order of a queue and for a job that is passed over.
`MaxQueue` 1 and 2 stand for the code's 16, the proofs for any value. A refusal for
the limit takes one connection more than these runs have (one command runs, the queue
is full, the next is refused), so no run reaches it: that never more than the limit
wait (`BoundedQueue`), that nothing of a refused command is sent (`RefusalsHold`) and
that `CommandService` is implemented at the limit too (`IsService`) is proved. The
invariants of `MasterServerQueue.cfg` also hold with `MaxQueue = 1`, where it is reached. A
connection carries one frame and a master runs until its connections are used
up, so the state space needs no other bound. A session has a fixed number of
lanes and goroutines and, apart from heartbeats and polls, which are cyclic, a
fixed number of steps. Symmetry over connections is used where no liveness is
checked. Two chunks let a source change, a connection break or data be lost
before, between and after them. Two clients give every race of a starter with
another starter or with a master that listens, drains or has crashed; the proofs
cover any number. One frame of output is enough for a cut frame and
for a dropped one; the proofs hold for any number. In the codec the line is two
bytes and the stream holds two full lines with their CRLF, so that the buffer is
filled, cut at each of its bytes and overrun; the envelope is odd and even.

Fairness. In the master: goroutines that can run do, timers expire, deadlines
pass, a worker whose job's context ended returns (this is `CancelReturns` of the
session), and a heartbeat returns within its two seconds. Nothing makes a client
connect, a command finish or a frame be a good one. In the session: goroutines
run, contexts expire, an HTTP exchange ends once its context has; nothing makes
the host answer or a writer accept output. A lane's mutex is granted with strong
fairness: heartbeats leave a lane alone that was used in the last thirty seconds,
and Go's mutex does not starve a waiter.
In a transfer: the goroutines of the client run, an exchange whose context has
ended returns, a budget expires; nothing makes the host answer. In control mode
only one client, `Observed`, is scheduled: the other one, masters, host and writer
may stop for ever, with the lock held. The codec's loops run on.

Composition. `RunContract!RunMayReturn` is the interface: `executeErrors` of
`MasterServer` is the set of sentinels it allows, and `ImplementsContract`
(`Session` implements `RemoteRun`) shows that the code keeps it, in both modes.
`CommandService` is the other side of the master, what its clients may rely on: so
the chain goes from exchanges on a lane over one command to the line of commands.
Only safety is refined: the three abstract specifications state no fairness.

`ControlClient` extends `ControlStart`, so that a master killed by the client that
launched it, or stopping while another is connected, is what the report of a
command is checked against; `StartIsShared` proves that it implements `StartSpec`.
`Transfer` composes either transfer with the sessions it opens and with the host.

### Disagreements found

* `master_exit`: an interrupt (or a failed Accept) stops the master at once, and
  a client of `control exit` is told so while a command still runs, although the
  documentation says that exit waits for the active command.
* `master_idle`: an expiry of the idle timer that was pending during a command
  stops the master right after it, in a new idle period.
* `session_run_cancel`: `Run` cancels a heartbeat in flight on the cleanup
  connection together with the command, and so fails the connection that its
  comment says carries Signal and Delete. The Delete falls back to a new
  connection. A heartbeat is in flight only on a lane idle for thirty seconds,
  so a long command is needed; the model abstracts that time.

* `download_cancel`: a download closes its session with the caller's context and
  drops the result. After a cancellation the Delete is refused unsent; the close
  has marked the session closed, so the deferred close sends nothing and succeeds.
  The sender's Shell is left on the host and no error says so, although the
  architecture promises an independent cleanup context and reported leftovers.

Not a run, but a disagreement of documents: `docs/architecture.md` says that
standalone commands establish an NTLM session for every exchange; `runner.go`
keeps two persistent connections.

## 4. What is proved

### The master

`MasterServerProofs` assumes only what `MasterServer` says of its constants
(`NoJob` is no connection, `MaxQueue` is a natural number, the sets of kinds,
targets, sentinels and faults are sets of those names), and proves:

* `TypeCorrect`: `TypeOK`;
* `Inductive`: `IndInv`, from which follow
* `ClosesOnce`, `Serial`, `JobsKept`, `TimerCovers`, `NoStuckMaster`,
  `RefusalsHold`, `FailedLanesRest`, `QuietClose`, `BoundedQueue`, and the action
  property `AnswersFinal`;
* `OrderKept`: `AdmissionOrder`, from `OrderInv`: a connection is admitted once, the
  queue is in the order of admission, and what was admitted before the active job,
  or before a job that has a worker, is answered;
* `ExitIsPatient`: `ExitWaits`, if `Faults` has neither the interrupt nor the failed
  Accept (`Undisturbed`). Its invariant `ExitInv` says that a stopped master has no
  active command and that only the channel answers an exit frame.

The safety properties are not inductive: that a job is closed once depends on
where its handler and worker are, on the queue holding it once, and on no other
goroutine having answered it. `IndInv` adds this:

* `QueueInv`: a queued job has a waiting handler, no worker and no answer, is in
  the queue once, and the queue is within its limit and empty without an active
  job;
* `JobInv`: which places of handler and worker, and which counts of `done`, go
  together; a job being run is the active one;
* `ServerInv`: `exiting`, `stopped`, the listener and the timer agree;
* `ServeInv`: what has ended when `serve` has got to each of its waits;
* `SentInv`: a refusal is never the answer of a job that was sent, and after a
  failure on the lanes admission has ended and no worker is left.

One lemma per part (`ServerStep`, `ServeStep`, `QueueStep`, `JobStep`,
`SentStep`) has one step per action that can disturb it; lemmas on the queue
(`WithoutFacts`, `DropFacts`, `RemoveFacts`, `AppendFacts`, `RejectFacts`) state
what each helper does to it. The models use strings where the code has booleans
because the SMT backend does not mix Boolean values with arithmetic.

`MasterServiceProofs` proves `IsService`: `MasterServer` implements `CommandService`.
The refinement mapping (`Line`, `Doors`, `Verdict`, `Told`) takes the active job and
the queue for the line, `exiting` for closed doors, and a job's result for its answer
once `done` is closed. `IndInv` says enough of places and channels, but not of words,
so two invariants are added:

* `SeenInv`: a handler has replied nothing before it is gone, has read no frame before
  its check, and one that asks for a job has a request and a context;
* `LocalInv`: what a worker is about to answer fits how far its command got, and is an
  outcome after which the master may go on unless the worker is to stop it.

Each action of the master is then one step of the service or a stutter: the actions
that answer several jobs at once (`runContinues` with the jobs it passes over,
whatever calls `rejectQueueLocked`) are one `Proceed` or one `Close`.

### The start

`ControlStartProofs` proves `OneMaster`, `LiveSocketKept` and `PasswordNeeded` of
`StartSpec` for any set of clients. `StartInv` adds to them: a client has the lock
open exactly in the places under the lock, its child lives only after the launch
(`PlaceInv`), and client and child are the only ones that hold the lock
(`LockInv`). Whoever removes a socket is then the holder, without a child that
listens, or the only child.

### The client

`StartIsShared` proves that `ControlClient` implements `StartSpec`: the end of a
command's context is the end of the start's context or a stutter, since a start
that has returned has ended it (`StartupInv`). `ClientInductive` proves `ClientInv`
for any number of clients and output frames:

* `FramesOK`: only the last frame on its way is final, and what it claims of the
  host is true; frames are cut only after the deadline;
* `CountOK`: the frames made are shown, with the writer, or on their way, and none
  is dropped before the deadline; this is what makes an exit code complete;
* `Truth`: a report that denies a start or an end comes with an answer of the
  master after which nothing is sent.

`ClientTypeCorrect` and `ClientsHonest` follow. One lemma per kind of step
(`TellKeeps`, `ReadKeeps`, `ClientKeeps`, `FinalKeeps`, `OutputKeeps`, `ServerKeeps`)
shows `CallOK` of the client that moves, and `UnmovedKeeps` that of the others.

### The command

`SessionProofs` proves of `Session`, in both modes, for every set of faults and of
retries: `SessionTypeCorrect`, `OrphansTold`, `NothingReplayed`, `SequenceKept`,
`CleanReturns` and `Implements`, the refinement of `RemoteRun`. It assumes that the
three lanes of the code are among `LaneSet` (`LanesAssumption`) and that `Free` is no
goroutine. None of the properties is inductive: that a Delete is not replayed
depends on which of its exchanges was written, and a Shell is reported because the
request that may create it is still where the client left it. `IndInv` adds:

* `CallInv`: which request each goroutine has in hand, on which lane, at each of its
  places;
* `ShakeInv`: the legs of a handshake answered so far left their trace on the
  connection, and the lane in hand is not used yet;
* `LanesInv`: mutex, exchange, health and connection of a lane agree; a good lane is
  pinned and not torn;
* `WritesInv`: each request is written at most once, and exactly when its exchange
  got beyond the mutex;
* `NetInv`: what a request that is still on the network says about the places of
  the goroutines and about their errors;
* `HostInv`: what the client was told about the host is so;
* `ErrorInv`: what an error, or none, stands for; at the return it is `RunMayReturn`.

The operations on a lane are proved once, for whoever uses it (`LanesIdle`,
`LanesFreed`, `LanesAnswered` and others); each step of the session then has a lemma
with one step per part. In `Implements` a step of the session is a step of the
abstract call when it writes its Create, when its context ends and when it returns, and
a stutter otherwise.

### The transfer

`TransferProofs` proves of `Transfer`, for a source of any number of chunks, both
directions and every set of faults: `TransferTypeCorrect`, `DestinationKnown`
(`OutcomeHonest`), `SourceCommitted`, `LeftoversNamed`, `UploadOrphansTold`,
`NothingLeft`, and the action property `NeverClobbered`. The last one needs no
invariant; the others follow from `IndInv`:

* `RoleInv`: sessions follow each other, and of one that was not started the host
  knows nothing;
* `NetInv`, `NetClean`: a request that was answered is off the network; until
  something has failed, at most the one being waited for is on it;
* `BodyInv`: the result of a session is what its script returned;
* `ShellInv`: a Shell that may be left, of a session that is over, is told;
* `ClosedInv`: only the sender of a download that fails is closed twice;
* `UploadInv`, `DownloadInv`: what each phase has established. A finalizer that may
  run, now or later, has a verified and unmixed stage, and an upload that is not in
  doubt has none on its way;
* `FileInv`: who may still change the file on the host when the cleaner runs or
  the transfer has returned.

`Exchanges` proves that a transfer implements `Replacement`. A step is one of four
kinds for the destination and the report (`Keeps`, `Lets`, `MovesIn`, `Finishes`,
shown by `TransferMoves` of every action); `OutcomeHonest` and `SuccessLeavesNothing`,
before and after the step, exclude a move or a trace after a report that denies it.

`IndInv` has one lemma per action, 49 in all; the parts an action leaves alone are
proved together. `Report` is a case distinction without overlap, so that its value
does not depend on the order in which TLC tries the cases.

### The chunk size

`ChunkIsLargest`: for every envelope and every length that does not decrease.
`ChunkInv` is the invariant of the bisection: nothing above `hi` fits, `lo` does.

### The framing

`FramingExact`: for every limit of the lines and every length of the stream, `done`
means that the stream is well-formed and `error` that it is not. `LineInv` says that
the buffer is what was read and not taken (`BufferInv`), and that what was taken is
whole lines, none too long (`TakenInv`); a stream with an error is then refuted at
the first CR of the buffer or at the line that begins there (`LineTooLong`).
`LinesFromStream` says where the lines handed out are in the stream, by a sequence
of cuts. `LinesWhole` (`LinesArrive`) says the same by concatenation: `FlattenSeq` is
a recursive function, so `FlattenUnique` shows, from the least place where two
solutions of its equation would differ, that it has one solution, and `LinesJoined`
that the pieces of the stream up to each cut are that solution.

### Model-checked only

Liveness (`JobsAnswered`, `ExitAnswered`, `MasterReturns`, `CancelReturns`,
`TransferReturns`, `CommandReturns`, `LoopsEnd`), which is out of this prover's reach,
as is ENABLED. Of the properties a passing run checks, these are all that no theorem
states. Induction theorems take an operator as a parameter, which no backend
instantiates; where a proof needs induction (`MinFacts`, `FlattenUnique`) it takes the
least counterexample from `WFMin`, whose parameters are sets.

## 5. Plan

Done: the master with its proofs and the service it implements; session, lanes and the
contract between them; start and client, transfers with the abstract replacement, and
two codecs, all with their proofs.

Left: `Check` and `Exit` of the control client; a second sender in `Session`, for callers that send and close from two
goroutines, of which the code has none; the record reader of a transfer.

The suite is kept to a dozen runs, so that a component added later shares a run.

## 6. Not modelled

* Messages, flags and output formats (`cmd`), XML, encodings and record texts, path
  rules, NTLM and TLS cryptography and the bounds of a challenge: functions of one
  input without a state, which unit tests reach.
* Configuration and secrets: a file read once. The one race, of `UseContext` with
  another writer between its comparison and its rename, is listed as a hazard.
* File permissions, owners and the runtime directory: taken to be as the code
  checks them.
* The handshake of a master, before it listens: its lanes are open.
* `Check` and `Exit` of the client side; the master's side of both is in
  `MasterServer`.
* Timing: deadlines, timers and budgets are events that may happen at any moment.
* A script that fails after it has moved the stage: `control.ps1` has nothing that
  can fail there but the write of its answer.
* A few error paths whose outcome the models reach in another way, or which cannot
  occur: the error of the close that `upload` drops when no chunk size fits; a close
  of a transfer's session that fails only because its receive loop did not end in time,
  after a Delete that succeeded; a script that succeeds without its acknowledgement or
  with output on stderr, which is told as one whose answer was lost or that failed.

## 7. Running

    tlc -workers 2 -config MasterServerFaults.cfg MCMasterServer
    tlc -workers 2 -config SessionFaults.cfg MCSession
    tlc -workers 2 -config Transfer.cfg Transfer
    tlc -workers 2 -config Control.cfg ControlClient
    tlc -workers 2 -config TransferCodec.cfg TransferCodec
    tlapm MasterServerProofs.tla
    tlapm MasterServiceProofs.tla
    tlapm SessionProofs.tla
    tlapm TransferProofs.tla
    tlapm ControlStartProofs.tla
    tlapm ControlClientProofs.tla
    tlapm ChunkSizeProofs.tla
    tlapm LineScannerProofs.tla
