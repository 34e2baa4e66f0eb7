----------------------------- MODULE MasterServer -----------------------------
(***************************************************************************)
(* The persistent control master of winsh (internal/control/server.go): a  *)
(* process that owns two authenticated WinRM lanes, accepts connections on *)
(* a Unix socket and runs the commands they carry one at a time.           *)
(*                                                                         *)
(* Every section the code runs under masterServer.mu is one action; what   *)
(* happens outside the mutex (reading a frame, a context expiring, a       *)
(* goroutine being scheduled, execute() talking to the host) is an action  *)
(* of its own, so that every interleaving of the accept loop, the          *)
(* connection handlers, the workers, the idle timer, the heartbeat and the *)
(* interrupt callback is a behaviour.                                      *)
(*                                                                         *)
(* A connection carries one frame, so an element of Clients stands for the *)
(* connection, for its handler goroutine and, when the frame is a request, *)
(* for its commandJob.                                                     *)
(***************************************************************************)
EXTENDS Integers, Sequences, RunContract

CONSTANTS
  Clients,   \* the connections the master may receive
  NoJob,     \* nil, as a value of masterServer.active
  MaxQueue,  \* the most jobs that may wait: 16 in the code
  Kinds,     \* what the frames of the clients ask for
  Targets,   \* how their targets compare with the master's
  Sentinels, \* the sentinel errors execute() may return
  Faults     \* what may go wrong around the master

ASSUME ClientsAssumption == NoJob \notin Clients
ASSUME QueueAssumption == MaxQueue \in Nat
ASSUME FramesAssumption == /\ Kinds \subseteq {"check", "exit", "request"}
                           /\ Targets \subseteq {"same", "identity", "persist"}
ASSUME SentinelsAssumption ==
  Sentinels \subseteq {"unknown", "not-started", "cleanup-failed", "deadline", "canceled"}
ASSUME FaultsAssumption == Faults \subseteq {"interrupt", "listener", "heartbeat"}

VARIABLES
  \* masterServer
  active,     \* the job being run, or NoJob
  queue,      \* the jobs waiting for it
  admission,  \* "open", or "ended" when masterServer.exiting is set
  stopped,    \* how often the channel stopped was closed; twice is a panic
  listener,   \* "open" or "closed"
  idle,       \* the idle timer: "running" or "off"
  fired,      \* calls of stopIfIdle that have not got the mutex yet
  ctx,        \* s.ctx: "live", "canceled", then "handled" by its AfterFunc
  serve,      \* where serve() is
  beat,       \* where keepAlive() is
  beatCtx,    \* its context: "live" or "canceled"
  \* handle(), per connection
  handler,    \* where the handler is
  frame,      \* the frame it read
  reply,      \* what it wrote back
  \* commandJob, per connection
  jctx,       \* job.ctx: "none" until created
  done,       \* how often job.done was closed; twice is a panic
  result,     \* job.result, as a category; "ok" is the empty one
  worker,     \* where run(job) is
  local,      \* the variable result of run(job)
  sent,       \* the jobs whose remote Shell may have been requested
  admitted    \* history: the jobs enqueue accepted, in that order

serverVars  == <<active, queue, admission, stopped, listener, idle, fired>>
loopVars    == <<ctx, serve, beat, beatCtx>>
handlerVars == <<handler, frame, reply>>
doneVars    == <<done, result>>
runVars     == <<worker, local, sent>>
jobVars     == <<jctx, doneVars, runVars, admitted>>
vars        == <<serverVars, loopVars, handlerVars, jobVars>>

exiting == admission = "ended"

-----------------------------------------------------------------------------
(* Values. *)

\* The categories a Result carries; "ok" stands for the empty one.
Categories == {"ok", "not-started", "identity-mismatch", "persist-mismatch",
               "queue-full", "timeout", "canceled", "cleanup-failed",
               "remote-state-unknown", "unavailable"}

\* A decoded frame: what it asks for, and how its target compares with the
\* master's identity and persist duration.
Frames == [kind : Kinds, target : Targets]

\* The frame of a connection that sent nothing usable.
NoFrame == [kind |-> "none", target |-> "same"]

\* categoryFromError: one category for an error in which errors.Is may find
\* several sentinels (the two context errors and the three of package remote) or
\* none.
categoryFromError(errs) ==
  IF "unknown" \in errs THEN "remote-state-unknown"
  ELSE IF "not-started" \in errs THEN "not-started"
  ELSE IF "cleanup-failed" \in errs THEN "cleanup-failed"
  ELSE IF "deadline" \in errs THEN "timeout"
  ELSE IF "canceled" \in errs THEN "canceled"
  ELSE "unavailable"

\* The jobs in a queue.
Queued(q) == {q[i] : i \in 1..Len(q)}

\* close(job.done) for every job of S, on the counts d.
Close(d, S) == [c \in Clients |-> IF c \in S THEN d[c] + 1 ELSE d[c]]

\* job.result = Result{Category: category} for every job of S, on the results r.
Answer(r, S, category) == [c \in Clients |-> IF c \in S THEN category ELSE r[c]]

-----------------------------------------------------------------------------
(* Faulty variants of definitions below; each property must reject one. *)

WithoutLate(q, i) == SubSeq(q, 1, i) \o SubSeq(q, i + 2, Len(q))
CtxCategoryRaw(c) == jctx[c]
shutdownUnguarded(ex) ==
  admission' = "ended" /\ idle' = "off" /\ listener' = "closed" /\ stopped' = stopped + 1
shutdownSilent(ex) ==
  admission' = "ended" /\ idle' = "off" /\ listener' = "closed" /\ stopped' = stopped
shutdownDeaf(ex) ==
  /\ admission' = "ended" /\ listener' = listener
  /\ IF stopped > 0 THEN UNCHANGED <<stopped, idle>> ELSE idle' = "off" /\ stopped' = 1
rejectDropped(d, r) == done' = d /\ result' = r /\ queue' = << >>
rejectKept(d, r) ==
  /\ done' = Close(d, Queued(queue))
  /\ result' = Answer(r, Queued(queue), "not-started")
  /\ queue' = queue
beginExitUnstopped ==
  /\ done' = Close(done, Queued(queue))
  /\ result' = Answer(result, Queued(queue), "not-started")
  /\ queue' = << >> /\ admission' = "ended" /\ UNCHANGED <<stopped, listener, idle>>
beginExitAtOnce ==
  /\ done' = Close(done, Queued(queue))
  /\ result' = Answer(result, Queued(queue), "not-started")
  /\ queue' = << >> /\ admission' = "ended" /\ idle' = "off" /\ listener' = "closed"
  /\ stopped' = IF stopped > 0 THEN stopped ELSE 1
ServeWaitsBeatless ==
  /\ \/ serve = "workers" /\ (\A c \in Clients : worker[c] \in {"none", "gone"}) /\ serve' = "clients"
     \/ serve = "clients" /\ (\A c \in Clients : handler[c] \in {"absent", "gone"}) /\ serve' = "returned"
  /\ UNCHANGED <<serverVars, ctx, beat, beatCtx, handlerVars, jobVars>>
startJobUnlisted(c) == worker' = [worker EXCEPT ![c] = "start"] /\ active' = active
appendJobFirst(c) == queue' = <<c>> \o queue
resetIdleForgotten == idle' = idle
executeErrorsLoose(c) == SUBSET Sentinels
terminalIgnored == "finished"

-----------------------------------------------------------------------------
(* Helpers that run under the mutex. *)

\* The queue without its i-th element: append(q[:i], q[i+1:]...).
Without(q, i) == SubSeq(q, 1, i - 1) \o SubSeq(q, i + 1, Len(q))

\* The category of a job whose context has ended.
CtxCategory(c) == categoryFromError({jctx[c]})

\* shutdownLocked, called when s.exiting has the value ex.
shutdownLocked(ex) ==
  /\ admission' = "ended"
  /\ IF ex /\ stopped > 0
     THEN UNCHANGED <<stopped, listener, idle>>
     ELSE /\ idle' = "off"
          /\ listener' = "closed"
          /\ stopped' = stopped + 1

\* rejectQueueLocked, called when the jobs' channels and results are d and r.
rejectQueueLocked(d, r) ==
  /\ done' = Close(d, Queued(queue))
  /\ result' = Answer(r, Queued(queue), "not-started")
  /\ queue' = << >>

\* The section exit and a failed heartbeat share: end admission, reject what
\* waits, and stop now unless a command still runs.
beginExit ==
  /\ rejectQueueLocked(done, result)
  /\ IF active = NoJob
     THEN shutdownLocked(TRUE)
     ELSE admission' = "ended" /\ UNCHANGED <<stopped, listener, idle>>

\* The section a cancelled s.ctx and a failed Accept share.
abandon ==
  /\ rejectQueueLocked(done, result)
  /\ shutdownLocked(exiting)

-----------------------------------------------------------------------------
(* The idle timer. *)

\* The timer expires and its function starts in a goroutine of its own.
IdleFires ==
  /\ idle = "running"
  /\ idle' = "off"
  /\ fired' = fired + 1
  /\ UNCHANGED <<active, queue, admission, stopped, listener, loopVars, handlerVars, jobVars>>

stopIfIdle ==
  /\ fired > 0
  /\ fired' = fired - 1
  /\ IF active = NoJob /\ queue = << >>
     THEN shutdownLocked(exiting)
     ELSE UNCHANGED <<admission, stopped, listener, idle>>
  /\ UNCHANGED <<active, queue, loopVars, handlerVars, jobVars>>

-----------------------------------------------------------------------------
(* serve(): the accept loop and the interrupt callback. *)

\* The process is interrupted: s.ctx ends, and with it every context derived
\* from it that has not ended yet.
Interrupt ==
  /\ "interrupt" \in Faults
  /\ ctx = "live"
  /\ ctx' = "canceled"
  /\ beatCtx' = "canceled"
  /\ jctx' = [c \in Clients |-> IF jctx[c] = "live" THEN "canceled" ELSE jctx[c]]
  /\ UNCHANGED <<serverVars, serve, beat, handlerVars, doneVars, runVars, admitted>>

\* The callback context.AfterFunc runs once s.ctx has ended.
ctxStop ==
  /\ ctx = "canceled"
  /\ ctx' = "handled"
  /\ abandon
  /\ UNCHANGED <<active, fired, serve, beat, beatCtx, handlerVars, jctx, runVars, admitted>>

Accept(c) ==
  /\ serve = "accept"
  /\ listener = "open"
  /\ handler[c] = "absent"
  /\ handler' = [handler EXCEPT ![c] = "read"]
  /\ UNCHANGED <<serverVars, loopVars, frame, reply, jobVars>>

\* Accept returns an error because the listener was closed or failed.
AcceptFails ==
  /\ serve = "accept"
  /\ listener = "closed" \/ "listener" \in Faults
  /\ serve' = "workers"
  /\ abandon
  /\ UNCHANGED <<active, fired, ctx, beat, beatCtx, handlerVars, jctx, runVars, admitted>>

\* s.workers.Wait(), s.clients.Wait(), s.beats.Wait(), one after the other.
workersGone == \A c \in Clients : worker[c] \in {"none", "gone"}
clientsGone == \A c \in Clients : handler[c] \in {"absent", "gone"}
beatsGone   == beat = "gone"

ServeWaits ==
  /\ \/ serve = "workers" /\ workersGone /\ serve' = "clients"
     \/ serve = "clients" /\ clientsGone /\ serve' = "beats"
     \/ serve = "beats"   /\ beatsGone   /\ serve' = "returned"
  /\ UNCHANGED <<serverVars, ctx, beat, beatCtx, handlerVars, jobVars>>

-----------------------------------------------------------------------------
(* keepAlive(). *)

\* The goroutine that ends the heartbeat's context when the master stops.
beatWatch ==
  /\ beatCtx = "live"
  /\ stopped > 0
  /\ beatCtx' = "canceled"
  /\ UNCHANGED <<serverVars, ctx, serve, beat, handlerVars, jobVars>>

\* A tick while the context is live starts a heartbeat.
beatTick ==
  /\ beat = "wait"
  /\ beatCtx = "live"
  /\ beat' = "ping"
  /\ UNCHANGED <<serverVars, ctx, serve, beatCtx, handlerVars, jobVars>>

beatReturns ==
  /\ beat = "wait"
  /\ beatCtx = "canceled"
  /\ beat' = "gone"
  /\ UNCHANGED <<serverVars, ctx, serve, beatCtx, handlerVars, jobVars>>

\* s.heartbeat(ctx) returns: nil, or an error when the lanes failed or its
\* context has ended.
beatPong ==
  /\ beat = "ping"
  /\ \/ beat' = "wait"
     \/ beat' = "failed" /\ ("heartbeat" \in Faults \/ beatCtx = "canceled")
  /\ UNCHANGED <<serverVars, ctx, serve, beatCtx, handlerVars, jobVars>>

beatFails ==
  /\ beat = "failed"
  /\ beat' = "gone"
  /\ beatCtx' = "canceled"
  /\ beginExit
  /\ UNCHANGED <<active, fired, ctx, serve, handlerVars, jctx, runVars, admitted>>

-----------------------------------------------------------------------------
(* handle(): one handler goroutine per connection. *)

\* The handler writes category back and returns; its deferred cancel() ends the
\* context of its job, if it made one.
return(c, category) ==
  /\ handler' = [handler EXCEPT ![c] = "gone"]
  /\ reply' = [reply EXCEPT ![c] = category]
  /\ jctx' = [jctx EXCEPT ![c] = IF @ = "live" THEN "canceled" ELSE @]

\* A frame arrives and decodes. Without one in five seconds, or with a malformed
\* one, the connection is closed without an answer; a frame of another kind, or
\* whose payload does not decode or validate, is answered not-started.
readFrame(c) ==
  /\ handler[c] = "read"
  /\ \/ /\ \E f \in Frames : frame' = [frame EXCEPT ![c] = f]
        /\ handler' = [handler EXCEPT ![c] = "check"]
        /\ UNCHANGED <<reply, jctx>>
     \/ /\ \E category \in {"none", "not-started"} : return(c, category)
        /\ frame' = frame
  /\ UNCHANGED <<serverVars, loopVars, doneVars, runVars, admitted>>

\* checkTarget, with the exiting flag it reads under the mutex.
checkTarget(f) ==
  IF exiting THEN "unavailable"
  ELSE IF f.target = "identity" THEN "identity-mismatch"
  ELSE IF f.target = "persist" THEN "persist-mismatch"
  ELSE "ok"

\* The target is refused, or the frame only asked for the check; or an exit frame
\* goes on to its section; or a request's deadline has passed; or the request
\* gets a context derived from s.ctx and goes on to enqueue.
check(c) ==
  /\ handler[c] = "check"
  /\ LET category == checkTarget(frame[c])
         kind == frame[c].kind
     IN  \/ /\ category # "ok" \/ kind = "check"
            /\ return(c, category)
         \/ /\ category = "ok" /\ kind = "exit"
            /\ handler' = [handler EXCEPT ![c] = "exit"]
            /\ UNCHANGED <<reply, jctx>>
         \/ /\ category = "ok" /\ kind = "request"
            /\ return(c, "timeout")
         \/ /\ category = "ok" /\ kind = "request"
            /\ handler' = [handler EXCEPT ![c] = "admit"]
            /\ jctx' = [jctx EXCEPT ![c] = IF ctx = "live" THEN "live" ELSE "canceled"]
            /\ reply' = reply
  /\ UNCHANGED <<serverVars, loopVars, frame, doneVars, runVars, admitted>>

exitSection(c) ==
  /\ handler[c] = "exit"
  /\ handler' = [handler EXCEPT ![c] = "waitstop"]
  /\ beginExit
  /\ UNCHANGED <<active, fired, loopVars, frame, reply, jctx, runVars, admitted>>

\* <-s.stopped, then the empty result.
exitAnswers(c) ==
  /\ handler[c] = "waitstop"
  /\ stopped > 0
  /\ return(c, "ok")
  /\ UNCHANGED <<serverVars, loopVars, frame, doneVars, runVars, admitted>>

\* enqueue gets past its first two checks: admission is open and the job's
\* context has not ended.
admissible(c) == ~exiting /\ jctx[c] = "live"

\* As many jobs wait as may.
queueFull == Len(queue) >= MaxQueue

\* The job becomes the active one and gets its worker.
startJob(c) ==
  /\ active' = c
  /\ worker' = [worker EXCEPT ![c] = "start"]

\* The job waits behind the others.
appendJob(c) == queue' = Append(queue, c)

\* enqueue refuses the job and the handler reports it.
enqueueRefuses(c) ==
  /\ handler[c] = "admit"
  /\ \/ exiting /\ return(c, "not-started")
     \/ ~exiting /\ jctx[c] # "live" /\ return(c, CtxCategory(c))
     \/ admissible(c) /\ active # NoJob /\ queueFull /\ return(c, "queue-full")
  /\ idle' = IF admissible(c) THEN "off" ELSE idle
  /\ UNCHANGED <<active, queue, admission, stopped, listener, fired, loopVars, frame,
                 doneVars, runVars, admitted>>

\* enqueue accepts the job, and the handler waits for it.
enqueueAccepts(c) ==
  /\ handler[c] = "admit"
  /\ admissible(c)
  /\ idle' = "off"
  /\ \/ active = NoJob /\ startJob(c) /\ queue' = queue
     \/ active # NoJob /\ ~queueFull /\ appendJob(c) /\ UNCHANGED <<active, worker>>
  /\ handler' = [handler EXCEPT ![c] = "wait"]
  /\ admitted' = Append(admitted, c)
  /\ UNCHANGED <<admission, stopped, listener, fired, loopVars, frame, reply,
                 jctx, doneVars, local, sent>>

\* The job's context ends: the goroutine reading the connection cancels it when
\* the peer half-closes or leaves before the deadline, framedWriter when output
\* cannot be delivered; or the deadline passes.
jobCtxEnds(c) ==
  /\ jctx[c] = "live"
  /\ \E cause \in {"canceled", "deadline"} : jctx' = [jctx EXCEPT ![c] = cause]
  /\ UNCHANGED <<serverVars, loopVars, handlerVars, doneVars, runVars, admitted>>

\* The job's context ends while the handler waits: cancelQueued answers a job
\* that is still queued, and leaves any other alone.
cancelQueued(c) ==
  /\ handler[c] = "wait"
  /\ jctx[c] # "live"
  /\ handler' = [handler EXCEPT ![c] = "waitdone"]
  /\ \/ \E i \in 1..Len(queue) :
          /\ queue[i] = c
          /\ queue' = Without(queue, i)
          /\ result' = Answer(result, {c}, CtxCategory(c))
          /\ done' = Close(done, {c})
          /\ idle' = IF active = NoJob /\ Len(queue) = 1 /\ ~exiting THEN "running" ELSE idle
     \/ /\ c \notin Queued(queue)
        /\ UNCHANGED <<queue, result, done, idle>>
  /\ UNCHANGED <<active, admission, stopped, listener, fired, loopVars, frame, reply,
                 jctx, runVars, admitted>>

\* <-job.done, then the job's result.
jobAnswers(c) ==
  /\ handler[c] \in {"wait", "waitdone"}
  /\ done[c] > 0
  /\ return(c, result[c])
  /\ UNCHANGED <<serverVars, loopVars, frame, doneVars, runVars, admitted>>

-----------------------------------------------------------------------------
(* run(job): one worker goroutine per job that became active. *)

\* The worker looks at the job's context, then at its identity, and calls
\* execute() only when neither objects.
runStarts(c) ==
  /\ worker[c] = "start"
  /\ \/ /\ jctx[c] # "live"
        /\ worker' = [worker EXCEPT ![c] = "finished"]
        /\ local' = [local EXCEPT ![c] = CtxCategory(c)]
     \/ /\ jctx[c] = "live"
        /\ IF frame[c].target = "identity"
           THEN /\ worker' = [worker EXCEPT ![c] = "finished"]
                /\ local' = [local EXCEPT ![c] = "identity-mismatch"]
           ELSE /\ worker' = [worker EXCEPT ![c] = "execute"]
                /\ local' = local
  /\ UNCHANGED <<serverVars, loopVars, handlerVars, jctx, done, result, sent, admitted>>

\* execute() hands the request that creates the remote Shell to its lane.
executeSends(c) ==
  /\ worker[c] = "execute"
  /\ c \notin sent
  /\ sent' = sent \cup {c}
  /\ UNCHANGED <<serverVars, loopVars, handlerVars, jctx, done, result, worker, local, admitted>>

\* The errors execute() may return, by the contract of remote.RunWithPosters.
executeErrors(c) == {errs \in SUBSET Sentinels : RunMayReturn(errs, jctx[c], c \in sent)}

\* Where a worker goes whose execute() failed: terminal = true.
terminal == "failed"

executeReturns(c) ==
  /\ worker[c] = "execute"
  /\ \/ /\ c \in sent
        /\ worker' = [worker EXCEPT ![c] = "finished"]
        /\ local' = [local EXCEPT ![c] = "ok"]
     \/ /\ worker' = [worker EXCEPT ![c] = terminal]
        /\ \E errs \in executeErrors(c) : local' = [local EXCEPT ![c] = categoryFromError(errs)]
  /\ UNCHANGED <<serverVars, loopVars, handlerVars, jctx, done, result, sent, admitted>>

\* The last section of run when the master is to stop: the job is answered, the
\* queue rejected, the master shut down.
runStops(c) ==
  /\ worker[c] = "failed" \/ (worker[c] = "finished" /\ exiting)
  /\ worker' = [worker EXCEPT ![c] = "gone"]
  /\ active' = NoJob
  /\ rejectQueueLocked(Close(done, {c}), Answer(result, {c}, local[c]))
  /\ shutdownLocked(TRUE)
  /\ UNCHANGED <<fired, loopVars, handlerVars, jctx, local, sent, admitted>>

\* s.idle.Reset(s.persist).
resetIdle == idle' = "running"

\* The last section of run otherwise: the job is answered, the first k jobs of
\* the queue, whose contexts have ended, are answered too, and the next one is
\* started; without one the idle timer is reset.
runContinues(c) ==
  /\ worker[c] = "finished" /\ ~exiting
  /\ \E k \in 0..Len(queue) :
       LET skipped == {queue[i] : i \in 1..k}
       IN  /\ \A i \in 1..k : jctx[queue[i]] # "live"
           /\ done' = Close(Close(done, {c}), skipped)
           /\ result' = [d \in Clients |->
                IF d \in skipped THEN CtxCategory(d) ELSE Answer(result, {c}, local[c])[d]]
           /\ \/ /\ k < Len(queue) /\ jctx[queue[k + 1]] = "live"
                 /\ active' = queue[k + 1]
                 /\ worker' = [worker EXCEPT ![c] = "gone", ![queue[k + 1]] = "start"]
                 /\ queue' = SubSeq(queue, k + 2, Len(queue))
                 /\ idle' = idle
              \/ /\ k = Len(queue)
                 /\ active' = NoJob
                 /\ worker' = [worker EXCEPT ![c] = "gone"]
                 /\ queue' = << >>
                 /\ resetIdle
  /\ UNCHANGED <<admission, stopped, listener, fired, loopVars, handlerVars, jctx, local,
                 sent, admitted>>

-----------------------------------------------------------------------------
(* The specification. *)

\* newMasterServer, and serve up to its first Accept.
Init ==
  /\ active = NoJob /\ queue = << >> /\ admission = "open" /\ stopped = 0
  /\ listener = "open" /\ idle = "running" /\ fired = 0
  /\ ctx = "live" /\ serve = "accept" /\ beat = "wait" /\ beatCtx = "live"
  /\ handler = [c \in Clients |-> "absent"]
  /\ frame = [c \in Clients |-> NoFrame]
  /\ reply = [c \in Clients |-> "none"]
  /\ jctx = [c \in Clients |-> "none"]
  /\ done = [c \in Clients |-> 0]
  /\ result = [c \in Clients |-> "ok"]
  /\ worker = [c \in Clients |-> "none"]
  /\ local = [c \in Clients |-> "ok"]
  /\ sent = {}
  /\ admitted = << >>

\* The process exits once serve has returned.
Returned ==
  /\ serve = "returned"
  /\ UNCHANGED vars

timerNext == IdleFires \/ stopIfIdle
serveNext == Interrupt \/ ctxStop \/ AcceptFails \/ ServeWaits \/ Returned
beatNext  == beatWatch \/ beatTick \/ beatReturns \/ beatPong \/ beatFails

handlerNext(c) ==
  \/ Accept(c) \/ readFrame(c) \/ check(c) \/ exitSection(c) \/ exitAnswers(c)
  \/ enqueueRefuses(c) \/ enqueueAccepts(c) \/ jobCtxEnds(c)
  \/ cancelQueued(c) \/ jobAnswers(c)

workerNext(c) ==
  \/ runStarts(c) \/ executeSends(c) \/ executeReturns(c)
  \/ runStops(c) \/ runContinues(c)

Next ==
  \/ timerNext \/ serveNext \/ beatNext
  \/ \E c \in Clients : handlerNext(c) \/ workerNext(c)

Spec == Init /\ [][Next]_vars

\* Every goroutine keeps running, deadlines pass and timers expire. Nothing makes
\* a client connect or leave, or a command finish before its deadline.
Fairness ==
  /\ WF_vars(IdleFires) /\ WF_vars(stopIfIdle) /\ WF_vars(ctxStop) /\ WF_vars(beatWatch)
  /\ WF_vars((AcceptFails /\ listener = "closed") \/ ServeWaits)
  /\ WF_vars(beatReturns \/ beatPong \/ beatFails)
  /\ \A c \in Clients :
       /\ WF_vars(jobCtxEnds(c))
       /\ WF_vars(\/ readFrame(c) \/ check(c) \/ exitSection(c) \/ exitAnswers(c)
                  \/ enqueueRefuses(c) \/ enqueueAccepts(c) \/ cancelQueued(c) \/ jobAnswers(c))
       /\ WF_vars(\/ runStarts(c) \/ (executeReturns(c) /\ jctx[c] # "live")
                  \/ runStops(c) \/ runContinues(c))

FairSpec == Spec /\ Fairness

-----------------------------------------------------------------------------
(* Properties. *)

\* Every variable has its type.
TypeOK ==
  /\ active \in Clients \cup {NoJob}
  /\ queue \in Seq(Clients)
  /\ admission \in {"open", "ended"} /\ stopped \in Nat /\ listener \in {"open", "closed"}
  /\ idle \in {"running", "off"} /\ fired \in Nat
  /\ ctx \in {"live", "canceled", "handled"}
  /\ serve \in {"accept", "workers", "clients", "beats", "returned"}
  /\ beat \in {"wait", "ping", "failed", "gone"} /\ beatCtx \in {"live", "canceled"}
  /\ handler \in [Clients -> {"absent", "read", "check", "exit", "admit", "wait",
                              "waitdone", "waitstop", "gone"}]
  /\ frame \in [Clients -> Frames \cup {NoFrame}]
  /\ reply \in [Clients -> Categories \cup {"none"}]
  /\ jctx \in [Clients -> {"none", "live", "canceled", "deadline"}]
  /\ done \in [Clients -> Nat]
  /\ result \in [Clients -> Categories]
  /\ worker \in [Clients -> {"none", "start", "execute", "finished", "failed", "gone"}]
  /\ local \in [Clients -> Categories]
  /\ sent \subseteq Clients
  /\ admitted \in Seq(Clients)

\* No channel is ever closed twice: stopped by shutdownLocked, which five
\* goroutines may reach, and a job's done by the worker, the queue's rejection,
\* the handler's cancelQueued and the previous worker's loop (a second close
\* panics and takes the master down).
NoDoubleClose == stopped <= 1 /\ \A c \in Clients : done[c] <= 1

\* The lanes carry one command at a time: whichever worker is between its start
\* and its last section is the worker of the active job.
SerialExecution ==
  \A c \in Clients : worker[c] \in {"start", "execute", "finished", "failed"} => active = c

\* No job is forgotten: a handler that waits for its job has a job that is
\* queued, active or already answered, and nothing is queued while no worker
\* exists that will take it out.
NoLostJob ==
  /\ \A c \in Clients : handler[c] \in {"wait", "waitdone"} =>
        c \in Queued(queue) \/ active = c \/ done[c] > 0
  /\ queue # << >> => active # NoJob
  /\ active # NoJob => worker[active] \in {"start", "execute", "finished", "failed"}

\* A master without work that still admits commands has its idle timer running
\* or expired: enqueue stops the timer, run must reset it on every path.
IdleTimerCovers == active = NoJob /\ ~exiting => idle = "running" \/ fired > 0

\* Admission ends exactly once and for good, and a master that ended it without
\* a command to wait for has stopped: exiting is never left set with nobody to
\* close the channel that control exit waits on.
ExitReachesStop == exiting /\ active = NoJob => stopped > 0 /\ listener = "closed"

\* A client told that its command was not started or was refused by the queue or
\* for its target can repeat it: nothing of the command was or will be sent.
RefusedNeverSent ==
  \A c \in Clients :
    reply[c] \in {"not-started", "queue-full", "identity-mismatch", "persist-mismatch"} =>
      c \notin sent /\ worker[c] \notin {"start", "execute"}

\* Commands are executed in the order enqueue admitted them: when a job has got
\* a worker, every job admitted before it has been answered.
AdmissionOrder ==
  \A i, j \in 1..Len(admitted) :
    i < j /\ worker[admitted[j]] # "none" => done[admitted[i]] > 0

\* serve returns, and serveWithAuth then closes the lanes, only when no worker,
\* no handler and no heartbeat is left that could use them.
QuietBeforeLanesClose ==
  serve = "returned" => workersGone /\ clientsGone /\ beatsGone

\* A client of control exit is told that the master stopped only when no command
\* runs any more.
ExitWaits ==
  \A c \in Clients : frame[c].kind = "exit" /\ reply[c] = "ok" => active = NoJob

\* Once a command that reached the host failed, the lanes are not trusted: no
\* other command, queued before or sent later, is started on them.
LanesNotReused ==
  \A d \in Clients : d \in sent /\ done[d] > 0 /\ result[d] # "ok" =>
    \A c \in Clients : worker[c] \in {"none", "gone"}

\* At most MaxQueue jobs wait.
QueueBounded == Len(queue) <= MaxQueue

\* An answer is final: handle reads job.result without the mutex once done is
\* closed, so no later step may change it, nor send the command after all.
AnswerFinal ==
  [][\A c \in Clients : done[c] > 0 => result'[c] = result[c] /\ (c \in sent' <=> c \in sent)]_vars

\* A master that stops for being idle has been idle for the whole persist
\* duration: its timer is not still running.
IdleStopIsDue == [][fired' < fired /\ stopped' > stopped => idle = "off"]_vars

\* The master as CommandService sees it: the active job and the queue are its line,
\* exiting closes its doors, and job.result counts once done is closed.
Line    == IF active = NoJob THEN << >> ELSE <<active>> \o queue
Doors   == IF exiting THEN "closed" ELSE "open"
Verdict == [c \in Clients |-> IF done[c] > 0 THEN result[c] ELSE "none"]
Told    == [c \in Clients |-> IF frame[c].kind = "request" THEN reply[c] ELSE "none"]

Service == INSTANCE CommandService WITH
  Limit <- MaxQueue, line <- Line, doors <- Doors, reached <- sent, answer <- Verdict,
  told <- Told

\* The master keeps what CommandService promises: one line in order of admission, a
\* limit on what waits in it, every command answered once, by what became of it, and
\* nothing run after a command that failed on the host.
ImplementsService == Service!Spec

\* Every handler that waits for its job answers: once the job's context has ended,
\* at its deadline at the latest, a queued job is answered, and the active one when
\* the cleanup after it is over. No worker, cancellation or shutdown leaves a
\* handler waiting.
JobsAnswered == \A c \in Clients : handler[c] = "wait" ~> handler[c] = "gone"

\* control exit is answered, whoever stops the master and whatever still runs.
ExitAnswered == \A c \in Clients : handler[c] = "exit" ~> reply[c] = "ok"

\* When clients stop coming the master goes away by itself: the idle timer
\* expires, and serve gets through its three waits.
MasterReturns == <>(serve = "returned")

=============================================================================
