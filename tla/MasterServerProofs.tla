------------------------- MODULE MasterServerProofs -------------------------
(***************************************************************************)
(* What MasterServer guarantees for every number of connections, every     *)
(* queue length and every set of faults: its type invariant and the        *)
(* inductive invariant that its safety properties follow from.             *)
(***************************************************************************)
EXTENDS MasterServer, SequenceTheorems, TLAPS

\* A worker exists between `go s.run(job)` and its last section.
Running(c) == worker[c] \in {"start", "execute", "finished", "failed"}

\* The job of a handler that has not reached enqueue, or never will.
Unborn(c) == handler[c] \in {"absent", "read", "check", "exit", "admit", "waitstop"}

\* The answers that promise a command was not and will not be sent.
Refusals == {"not-started", "queue-full", "identity-mismatch", "persist-mismatch"}

InQueue(c) == \E i \in 1..Len(queue) : queue[i] = c

QueuedOnce == \A i, j \in 1..Len(queue) : queue[i] = queue[j] => i = j

\* A queued job has a waiting handler, no worker and no answer, and is queued
\* once.
QueueInv ==
  /\ \A c \in Clients : InQueue(c) =>
       handler[c] = "wait" /\ worker[c] = "none" /\ done[c] = 0
  /\ QueuedOnce
  /\ Len(queue) > 0 => active # NoJob /\ ~exiting
  /\ Len(queue) <= MaxQueue

\* The worker of a job, the job's place in the server and its channel agree.
JobOK(c) ==
  /\ Running(c) => active = c /\ done[c] = 0
  /\ active = c => Running(c)
  /\ worker[c] = "gone" => done[c] = 1
  /\ Unborn(c) => worker[c] = "none" /\ done[c] = 0
  /\ done[c] \in {0, 1}
  /\ handler[c] \in {"wait", "waitdone"} /\ done[c] = 0 /\ active # c => InQueue(c)

JobInv == \A c \in Clients : JobOK(c)

\* The exiting flag, the channel stopped, the listener and the timer agree.
ServerInv ==
  /\ stopped \in {0, 1}
  /\ listener = "open" <=> stopped = 0
  /\ stopped = 1 => exiting
  /\ exiting /\ active = NoJob => stopped = 1
  /\ idle = "running" => active = NoJob /\ ~exiting
  /\ active = NoJob /\ ~exiting => idle = "running" \/ fired > 0

\* What serve has waited for stays away.
ServeInv ==
  /\ serve # "accept" => exiting /\ stopped = 1
  /\ serve \in {"clients", "beats", "returned"} => workersGone
  /\ serve \in {"beats", "returned"} => clientsGone
  /\ serve = "returned" => beatsGone

\* How far a job got, and what its worker, its result and its reply may say.
SentOK(c) ==
  /\ c \in sent => worker[c] \in {"execute", "finished", "failed", "gone"}
  /\ worker[c] = "finished" /\ c \in sent => local[c] = "ok"
  /\ local[c] \in Refusals => c \notin sent /\ worker[c] \in {"finished", "failed", "gone"}
  /\ result[c] \in Refusals => c \notin sent /\ done[c] = 1
  /\ reply[c] \in Refusals => c \notin sent /\ handler[c] = "gone" /\ ~Running(c)
  /\ handler[c] = "gone" => ~Running(c)
  /\ c \in sent /\ done[c] = 1 /\ result[c] # "ok" => exiting /\ active = NoJob

SentInv == \A c \in Clients : SentOK(c)

IndInv == TypeOK /\ QueueInv /\ JobInv /\ ServerInv /\ ServeInv /\ SentInv

-----------------------------------------------------------------------------
(* Lemmas about the operators. *)

\* Whatever sentinels an error carries, its category is one a Result may have,
\* and it is not-started only for an error that says so.
LEMMA CategoryFacts ==
  ASSUME NEW errs
  PROVE  /\ categoryFromError(errs) \in Categories
         /\ categoryFromError(errs) \in Refusals => "not-started" \in errs
         /\ categoryFromError(errs) # "ok"
BY DEF categoryFromError, Categories, Refusals

\* Taking one job out of the queue moves the later ones up by one place.
LEMMA WithoutFacts ==
  ASSUME NEW q \in Seq(Clients), NEW i \in 1..Len(q)
  PROVE  /\ Without(q, i) \in Seq(Clients)
         /\ Len(Without(q, i)) = Len(q) - 1
         /\ \A j \in 1..(Len(q) - 1) : Without(q, i)[j] = IF j < i THEN q[j] ELSE q[j + 1]
<1> DEFINE a == SubSeq(q, 1, i - 1)
           b == SubSeq(q, i + 1, Len(q))
<1>1. Len(q) \in Nat
  BY LenProperties
<1>2. /\ a \in Seq(Clients) /\ Len(a) = i - 1
      /\ \A j \in 1..(i - 1) : a[j] = q[j]
  BY <1>1, SubSeqProperties, SMT
<1>3. /\ b \in Seq(Clients) /\ Len(b) = Len(q) - i
      /\ \A j \in 1..(Len(q) - i) : b[j] = q[j + i]
  BY <1>1, SubSeqProperties, SMT
<1>4. /\ a \o b \in Seq(Clients) /\ Len(a \o b) = Len(a) + Len(b)
      /\ \A j \in 1..(Len(a) + Len(b)) : (a \o b)[j] = IF j <= Len(a) THEN a[j] ELSE b[j - Len(a)]
  BY <1>2, <1>3, ConcatProperties
<1>. HIDE DEF a, b
<1>5. \A j \in 1..(Len(q) - 1) : (a \o b)[j] = IF j < i THEN q[j] ELSE q[j + 1]
  <2>1. ASSUME NEW j \in 1..(Len(q) - 1), j < i
        PROVE  (a \o b)[j] = q[j]
    BY <1>1, <1>2, <1>3, <1>4, <2>1, SMT
  <2>2. ASSUME NEW j \in 1..(Len(q) - 1), ~(j < i)
        PROVE  (a \o b)[j] = q[j + 1]
    <3>1. j \in 1..(Len(a) + Len(b)) /\ ~(j <= Len(a)) /\ j - Len(a) \in 1..(Len(q) - i)
      BY <1>1, <1>2, <1>3, <2>2, SMT
    <3>2. (a \o b)[j] = b[j - Len(a)]
      BY <1>4, <3>1, SMT
    <3>3. b[j - Len(a)] = q[(j - Len(a)) + i] /\ (j - Len(a)) + i = j + 1
      BY <1>2, <1>3, <2>2, <3>1, SMT
    <3>. QED
      BY <3>2, <3>3
  <2>. QED
    BY <2>1, <2>2
<1>6. Without(q, i) = a \o b
  BY DEF Without, a, b
<1>7. Len(a \o b) = Len(q) - 1
  BY <1>1, <1>2, <1>3, <1>4
<1>. QED
  BY <1>4, <1>5, <1>6, <1>7

\* Dropping the first k + 1 jobs of the queue moves the rest up by k + 1 places.
LEMMA DropFacts ==
  ASSUME NEW q \in Seq(Clients), NEW k \in 0..Len(q), k < Len(q)
  PROVE  LET t == SubSeq(q, k + 2, Len(q))
         IN  /\ t \in Seq(Clients)
             /\ Len(t) = Len(q) - k - 1
             /\ \A j \in 1..(Len(q) - k - 1) : t[j] = q[j + k + 1]
<1>1. Len(q) \in Nat
  BY LenProperties
<1>. QED
  BY <1>1, SubSeqProperties, SMT

\* rejectQueueLocked empties the queue and answers exactly the jobs it held.
LEMMA RejectFacts ==
  ASSUME TypeOK, NEW d, NEW r, rejectQueueLocked(d, r)
  PROVE  /\ Len(queue') = 0
         /\ QueuedOnce'
         /\ \A x \in Clients :
              /\ ~InQueue(x)'
              /\ done'[x] = IF InQueue(x) THEN d[x] + 1 ELSE d[x]
              /\ result'[x] = IF InQueue(x) THEN "not-started" ELSE r[x]
<1>1. queue' = << >> /\ Len(queue') = 0
  BY EmptySeq DEF rejectQueueLocked
<1>2. QueuedOnce' /\ \A x \in Clients : ~InQueue(x)'
  BY <1>1 DEF QueuedOnce, InQueue
<1>3. \A x : x \in Queued(queue) <=> InQueue(x)
  BY DEF Queued, InQueue
<1>4. \A x \in Clients :
         /\ done'[x] = IF x \in Queued(queue) THEN d[x] + 1 ELSE d[x]
         /\ result'[x] = IF x \in Queued(queue) THEN "not-started" ELSE r[x]
  BY DEF rejectQueueLocked, Close, Answer
<1>. QED
  BY <1>1, <1>2, <1>3, <1>4

\* append(s.queue, job) adds one job and keeps the others.
LEMMA AppendFacts ==
  ASSUME TypeOK, QueuedOnce, NEW c \in Clients, ~InQueue(c), queue' = Append(queue, c)
  PROVE  /\ Len(queue') = Len(queue) + 1
         /\ QueuedOnce'
         /\ \A x \in Clients : InQueue(x)' <=> InQueue(x) \/ x = c
<1>1. Len(queue) \in Nat
  BY LenProperties DEF TypeOK
<1>2. /\ Len(queue') = Len(queue) + 1
      /\ \A i \in 1..Len(queue) : queue'[i] = queue[i]
      /\ queue'[Len(queue) + 1] = c
  BY AppendProperties DEF TypeOK
<1>3. QueuedOnce'
  BY <1>1, <1>2 DEF QueuedOnce, InQueue
<1>4. \A x \in Clients : InQueue(x)' <=> InQueue(x) \/ x = c
  BY <1>1, <1>2 DEF InQueue
<1>. QED
  BY <1>2, <1>3, <1>4

\* cancelQueued takes exactly its own job out.
LEMMA RemoveFacts ==
  ASSUME TypeOK, QueuedOnce, NEW i \in 1..Len(queue), queue' = Without(queue, i)
  PROVE  /\ Len(queue') = Len(queue) - 1
         /\ QueuedOnce'
         /\ \A x \in Clients : InQueue(x)' <=> InQueue(x) /\ x # queue[i]
<1>1. Len(queue) \in Nat
  BY LenProperties DEF TypeOK
<1>2. /\ Len(queue') = Len(queue) - 1
      /\ \A j \in 1..(Len(queue) - 1) : queue'[j] = IF j < i THEN queue[j] ELSE queue[j + 1]
  BY WithoutFacts DEF TypeOK
<1>3. QueuedOnce'
  BY <1>1, <1>2 DEF QueuedOnce
<1>4. ASSUME NEW x \in Clients, InQueue(x)'
      PROVE  InQueue(x) /\ x # queue[i]
  BY <1>1, <1>2, <1>4 DEF InQueue, QueuedOnce
<1>5. ASSUME NEW x \in Clients, NEW j \in 1..Len(queue), queue[j] = x, x # queue[i]
      PROVE  InQueue(x)'
  <2>1. CASE j < i
    BY <1>1, <1>2, <1>5, <2>1 DEF InQueue
  <2>2. CASE j > i
    <3>1. j - 1 \in 1..(Len(queue) - 1) /\ queue'[j - 1] = x
      BY <1>1, <1>2, <1>5, <2>2
    <3>. QED
      BY <1>2, <3>1 DEF InQueue
  <2>. QED
    BY <1>1, <1>5, <2>1, <2>2
<1>. QED
  BY <1>2, <1>3, <1>4, <1>5 DEF InQueue

\* The loop of run takes the first k + 1 jobs out: the k it skips and the one it
\* starts.
LEMMA PopFacts ==
  ASSUME TypeOK, QueuedOnce, NEW k \in 0..Len(queue), k < Len(queue),
         queue' = SubSeq(queue, k + 2, Len(queue))
  PROVE  /\ Len(queue') = Len(queue) - k - 1
         /\ QueuedOnce'
         /\ \A x \in Clients : InQueue(x)' <=>
              InQueue(x) /\ x # queue[k + 1] /\ ~ \E i \in 1..k : queue[i] = x
<1>1. Len(queue) \in Nat
  BY LenProperties DEF TypeOK
<1>2. /\ Len(queue') = Len(queue) - k - 1
      /\ \A j \in 1..(Len(queue) - k - 1) : queue'[j] = queue[j + k + 1]
  BY DropFacts DEF TypeOK
<1>3. QueuedOnce'
  BY <1>1, <1>2 DEF QueuedOnce
<1>4. ASSUME NEW x \in Clients, InQueue(x)'
      PROVE  InQueue(x) /\ x # queue[k + 1] /\ ~ \E i \in 1..k : queue[i] = x
  <2>1. PICK j \in 1..(Len(queue) - k - 1) : queue'[j] = x
    BY <1>2, <1>4 DEF InQueue
  <2>2. j + k + 1 \in 1..Len(queue) /\ queue[j + k + 1] = x
    BY <1>1, <1>2, <2>1
  <2>3. \A i \in 1..(k + 1) : i \in 1..Len(queue) /\ i # j + k + 1
    BY <1>1
  <2>4. \A i \in 1..(k + 1) : queue[i] # x
    BY <2>2, <2>3 DEF QueuedOnce
  <2>. QED
    BY <2>2, <2>4 DEF InQueue
<1>5. ASSUME NEW x \in Clients, NEW j \in 1..Len(queue), queue[j] = x,
             x # queue[k + 1], ~ \E i \in 1..k : queue[i] = x
      PROVE  InQueue(x)'
  <2>1. j - k - 1 \in 1..(Len(queue) - k - 1)
    BY <1>1, <1>5
  <2>2. queue'[j - k - 1] = x
    BY <1>1, <1>2, <1>5, <2>1
  <2>. QED
    BY <1>2, <2>1, <2>2 DEF InQueue
<1>. QED
  BY <1>2, <1>3, <1>4, <1>5 DEF InQueue

-----------------------------------------------------------------------------
(* Type correctness. *)

LEMMA TypeInit == Init => TypeOK
BY DEF Init, TypeOK, Categories

LEMMA TypeNext == TypeOK /\ [Next]_vars => TypeOK'
<1>. SUFFICES ASSUME TypeOK, [Next]_vars
     PROVE  TypeOK'
  OBVIOUS
<1>. USE DEF TypeOK, serverVars, loopVars, handlerVars, doneVars, runVars, jobVars
<1>1. CASE IdleFires
  BY <1>1 DEF IdleFires
<1>2. CASE stopIfIdle
  BY <1>2 DEF stopIfIdle, shutdownLocked
<1>3. CASE Interrupt
  BY <1>3 DEF Interrupt
<1>4. CASE ctxStop
  BY <1>4, EmptySeq DEF ctxStop, abandon, rejectQueueLocked, shutdownLocked, Close, Answer, Categories
<1>5. CASE AcceptFails
  BY <1>5, EmptySeq DEF AcceptFails, abandon, rejectQueueLocked, shutdownLocked, Close, Answer, Categories
<1>6. CASE ServeWaits
  BY <1>6 DEF ServeWaits
<1>7. CASE Returned
  BY <1>7 DEF Returned, vars
<1>8. CASE beatWatch
  BY <1>8 DEF beatWatch
<1>9. CASE beatTick
  BY <1>9 DEF beatTick
<1>10. CASE beatReturns
  BY <1>10 DEF beatReturns
<1>11. CASE beatPong
  BY <1>11 DEF beatPong
<1>12. CASE beatFails
  BY <1>12, EmptySeq DEF beatFails, beginExit, rejectQueueLocked, shutdownLocked, Close, Answer, Categories
<1>13. ASSUME NEW c \in Clients, Accept(c)
      PROVE  TypeOK'
  BY <1>13 DEF Accept
<1>14. ASSUME NEW c \in Clients, readFrame(c)
      PROVE  TypeOK'
  <2>1. CASE \E f \in Frames : /\ frame' = [frame EXCEPT ![c] = f]
                               /\ handler' = [handler EXCEPT ![c] = "check"]
                               /\ UNCHANGED <<reply, jctx>>
    BY <1>14, <2>1 DEF readFrame
  <2>2. ASSUME NEW category \in {"none", "not-started"}, return(c, category), frame' = frame
        PROVE  TypeOK'
    <3>1. category \in Categories \cup {"none"}
      BY DEF Categories
    <3>. QED
      BY <1>14, <2>2, <3>1 DEF readFrame, return
  <2>. QED
    BY <1>14, <2>1, <2>2 DEF readFrame
<1>15. ASSUME NEW c \in Clients, check(c)
      PROVE  TypeOK'
  <2>1. checkTarget(frame[c]) \in Categories /\ "timeout" \in Categories
    BY DEF checkTarget, Categories
  <2>2. ASSUME NEW category \in Categories, return(c, category)
        PROVE  TypeOK'
    BY <1>15, <2>2 DEF check, return
  <2>3. CASE handler' = [handler EXCEPT ![c] = "exit"] /\ UNCHANGED <<reply, jctx>>
    BY <1>15, <2>3 DEF check
  <2>4. CASE /\ handler' = [handler EXCEPT ![c] = "admit"]
             /\ jctx' = [jctx EXCEPT ![c] = IF ctx = "live" THEN "live" ELSE "canceled"]
             /\ reply' = reply
    BY <1>15, <2>4 DEF check
  <2>. QED
    BY <1>15, <2>1, <2>2, <2>3, <2>4 DEF check
<1>16. ASSUME NEW c \in Clients, exitSection(c)
      PROVE  TypeOK'
  BY <1>16, EmptySeq DEF exitSection, beginExit, rejectQueueLocked, shutdownLocked, Close, Answer, Categories
<1>17. ASSUME NEW c \in Clients, exitAnswers(c)
      PROVE  TypeOK'
  BY <1>17 DEF exitAnswers, return, Categories
<1>18. ASSUME NEW c \in Clients, enqueueRefuses(c)
      PROVE  TypeOK'
  <2>1. /\ CtxCategory(c) \in Categories
        /\ "not-started" \in Categories /\ "queue-full" \in Categories
    BY CategoryFacts DEF CtxCategory, Categories
  <2>2. PICK category \in Categories : return(c, category)
    BY <1>18, <2>1 DEF enqueueRefuses, admissible
  <2>. QED
    BY <1>18, <2>2 DEF enqueueRefuses, admissible, return
<1>19. ASSUME NEW c \in Clients, enqueueAccepts(c)
      PROVE  TypeOK'
  <2>1. Append(queue, c) \in Seq(Clients) /\ Append(admitted, c) \in Seq(Clients)
    BY AppendProperties
  <2>. QED
    BY <1>19, <2>1 DEF enqueueAccepts, startJob, appendJob
<1>20. ASSUME NEW c \in Clients, jobCtxEnds(c)
      PROVE  TypeOK'
  BY <1>20 DEF jobCtxEnds
<1>21. ASSUME NEW c \in Clients, cancelQueued(c)
      PROVE  TypeOK'
  <2>1. CtxCategory(c) \in Categories
    BY CategoryFacts DEF CtxCategory
  <2>2. CASE \E i \in 1..Len(queue) :
               /\ queue' = Without(queue, i)
               /\ result' = Answer(result, {c}, CtxCategory(c))
               /\ done' = Close(done, {c})
    <3>1. queue' \in Seq(Clients)
      BY <2>2, WithoutFacts
    <3>2. result' \in [Clients -> Categories]
      BY <2>1, <2>2 DEF Answer
    <3>3. done' \in [Clients -> Nat]
      BY <2>2 DEF Close
    <3>4. idle' \in {"running", "off"}
      BY <1>21 DEF cancelQueued
    <3>. QED
      BY <1>21, <3>1, <3>2, <3>3, <3>4 DEF cancelQueued
  <2>3. CASE UNCHANGED <<queue, result, done, idle>>
    BY <1>21, <2>3 DEF cancelQueued
  <2>. QED
    BY <1>21, <2>2, <2>3 DEF cancelQueued
<1>22. ASSUME NEW c \in Clients, jobAnswers(c)
      PROVE  TypeOK'
  BY <1>22 DEF jobAnswers, return
<1>23. ASSUME NEW c \in Clients, runStarts(c)
      PROVE  TypeOK'
  <2>1. CtxCategory(c) \in Categories /\ "identity-mismatch" \in Categories
    BY CategoryFacts DEF CtxCategory, Categories
  <2>2. PICK category \in Categories, pc \in {"finished", "execute"} :
          /\ worker' = [worker EXCEPT ![c] = pc]
          /\ local' = local \/ local' = [local EXCEPT ![c] = category]
    BY <1>23, <2>1 DEF runStarts
  <2>3. local' \in [Clients -> Categories]
    BY <2>2
  <2>4. worker' \in [Clients -> {"none", "start", "execute", "finished", "failed", "gone"}]
    BY <2>2
  <2>. QED
    BY <1>23, <2>3, <2>4 DEF runStarts
<1>24. ASSUME NEW c \in Clients, executeSends(c)
      PROVE  TypeOK'
  BY <1>24 DEF executeSends
<1>25. ASSUME NEW c \in Clients, executeReturns(c)
      PROVE  TypeOK'
  <2>1. "ok" \in Categories /\ \A errs : categoryFromError(errs) \in Categories
    BY CategoryFacts DEF Categories
  <2>2. PICK category \in Categories, pc \in {"finished", "failed"} :
          /\ worker' = [worker EXCEPT ![c] = pc]
          /\ local' = [local EXCEPT ![c] = category]
    BY <1>25, <2>1 DEF executeReturns, terminal
  <2>3. local' \in [Clients -> Categories]
    BY <2>2
  <2>4. worker' \in [Clients -> {"none", "start", "execute", "finished", "failed", "gone"}]
    BY <2>2
  <2>. QED
    BY <1>25, <2>3, <2>4 DEF executeReturns, terminal
<1>26. ASSUME NEW c \in Clients, runStops(c)
      PROVE  TypeOK'
  BY <1>26, EmptySeq DEF runStops, rejectQueueLocked, shutdownLocked, Close, Answer, Categories
<1>27. ASSUME NEW c \in Clients, runContinues(c)
      PROVE  TypeOK'
  <2>1. \A d \in Clients : CtxCategory(d) \in Categories
    BY CategoryFacts DEF CtxCategory
  <2>2. done' \in [Clients -> Nat]
    BY <1>27 DEF runContinues, resetIdle, Close
  <2>3. result' \in [Clients -> Categories]
    BY <1>27, <2>1 DEF runContinues, resetIdle, Answer
  <2>4. PICK k \in 0..Len(queue) :
          \/ /\ k < Len(queue)
             /\ active' = queue[k + 1]
             /\ worker' = [worker EXCEPT ![c] = "gone", ![queue[k + 1]] = "start"]
             /\ queue' = SubSeq(queue, k + 2, Len(queue))
             /\ idle' = idle
          \/ /\ active' = NoJob
             /\ worker' = [worker EXCEPT ![c] = "gone"]
             /\ queue' = << >>
             /\ idle' = "running"
    BY <1>27 DEF runContinues, resetIdle
  <2>5. queue' \in Seq(Clients) /\ active' \in Clients \cup {NoJob}
    <3>1. CASE k < Len(queue) /\ active' = queue[k + 1] /\ queue' = SubSeq(queue, k + 2, Len(queue))
      <4>1. queue' \in Seq(Clients)
        BY <3>1, DropFacts
      <4>2. k + 1 \in 1..Len(queue)
        BY <3>1, LenProperties
      <4>. QED
        BY <3>1, <4>1, <4>2, ElementOfSeq
    <3>2. CASE active' = NoJob /\ queue' = << >>
      BY <3>2, EmptySeq
    <3>. QED
      BY <2>4, <3>1, <3>2
  <2>6. worker' \in [Clients -> {"none", "start", "execute", "finished", "failed", "gone"}]
    BY <2>4
  <2>7. idle' \in {"running", "off"}
    BY <2>4
  <2>. QED
    BY <1>27, <2>2, <2>3, <2>5, <2>6, <2>7 DEF runContinues, resetIdle
<1>28. CASE UNCHANGED vars
  BY <1>28 DEF vars
<1>. QED
  BY <1>1, <1>2, <1>3, <1>4, <1>5, <1>6, <1>7, <1>8, <1>9, <1>10, <1>11, <1>12, <1>13, <1>14, <1>15, <1>16, <1>17, <1>18, <1>19, <1>20, <1>21, <1>22, <1>23, <1>24, <1>25, <1>26, <1>27, <1>28
     DEF Next, timerNext, serveNext, beatNext, handlerNext, workerNext

\* Every variable of the master keeps its type.
THEOREM TypeCorrect == Spec => []TypeOK
BY TypeInit, TypeNext, PTL DEF Spec

-----------------------------------------------------------------------------
(* The inductive invariant. *)

\* The last section of run when the master stops: exactly the job that ran and
\* the queued ones are answered.
LEMMA StopFacts ==
  ASSUME TypeOK, QueueInv, JobInv, NEW c \in Clients, runStops(c)
  PROVE  /\ active = c /\ Running(c) /\ done[c] = 0 /\ ~InQueue(c)
         /\ Len(queue') = 0 /\ QueuedOnce'
         /\ \A x \in Clients :
              /\ ~InQueue(x)'
              /\ done'[x] = IF x = c \/ InQueue(x) THEN 1 ELSE done[x]
              /\ result'[x] = IF InQueue(x) THEN "not-started"
                              ELSE IF x = c THEN local[c] ELSE result[x]
<1>1. active = c /\ Running(c) /\ done[c] = 0 /\ ~InQueue(c)
  BY DEF runStops, Running, JobInv, JobOK, QueueInv
<1>2. rejectQueueLocked(Close(done, {c}), Answer(result, {c}, local[c]))
  BY DEF runStops
<1>3. /\ Len(queue') = 0 /\ QueuedOnce'
      /\ \A x \in Clients :
           /\ ~InQueue(x)'
           /\ done'[x] = IF InQueue(x) THEN Close(done, {c})[x] + 1 ELSE Close(done, {c})[x]
           /\ result'[x] = IF InQueue(x) THEN "not-started" ELSE Answer(result, {c}, local[c])[x]
  BY <1>2, RejectFacts
<1>4. \A x \in Clients :
        /\ Close(done, {c})[x] = IF x = c THEN done[x] + 1 ELSE done[x]
        /\ Answer(result, {c}, local[c])[x] = IF x = c THEN local[c] ELSE result[x]
  BY DEF Close, Answer
<1>5. \A x \in Clients : done[x] \in Nat /\ (InQueue(x) => done[x] = 0)
  BY DEF QueueInv, TypeOK
<1>6. ASSUME NEW x \in Clients
      PROVE  done'[x] = IF x = c \/ InQueue(x) THEN 1 ELSE done[x]
  <2>1. CASE InQueue(x)
    <3>1. x # c /\ Close(done, {c})[x] = 0
      <4>1. x # c
        BY <1>1, <2>1
      <4>2. done[x] = 0
        BY <1>5, <2>1
      <4>. QED
        BY <1>4, <4>1, <4>2
    <3>2. done'[x] = 0 + 1
      BY <1>3, <2>1, <3>1
    <3>. QED
      BY <2>1, <3>2
  <2>2. CASE x = c
    <3>1. ~InQueue(x) /\ done[x] = 0 /\ Close(done, {c})[x] = done[x] + 1
      BY <1>1, <1>4, <2>2
    <3>2. done'[x] = 0 + 1
      BY <1>3, <3>1
    <3>. QED
      BY <2>2, <3>2
  <2>3. CASE x # c /\ ~InQueue(x)
    BY <1>3, <1>4, <2>3
  <2>. QED
    BY <2>1, <2>2, <2>3
<1>7. ASSUME NEW x \in Clients
      PROVE  result'[x] = IF InQueue(x) THEN "not-started"
                          ELSE IF x = c THEN local[c] ELSE result[x]
  BY <1>3, <1>4
<1>. QED
  BY <1>1, <1>3, <1>6, <1>7

Continued(c, S) ==
  /\ \A x \in S : InQueue(x)
  /\ \A x \in Clients :
       /\ done'[x] = IF x = c \/ x \in S THEN 1 ELSE done[x]
       /\ result'[x] = IF x \in S THEN CtxCategory(x) ELSE IF x = c THEN local[c] ELSE result[x]
  /\ \/ \E n \in Clients \ S :
          /\ InQueue(n) /\ active' = n
          /\ worker' = [worker EXCEPT ![c] = "gone", ![n] = "start"]
          /\ \A x \in Clients : InQueue(x)' <=> InQueue(x) /\ x # n /\ x \notin S
     \/ /\ active' = NoJob
        /\ worker' = [worker EXCEPT ![c] = "gone"]
        /\ Len(queue') = 0
        /\ \A x \in Clients : ~InQueue(x)' /\ (InQueue(x) => x \in S)

\* The last section of run when the master goes on: the job that ran and a set S
\* of queued jobs are answered, and one more queued job starts unless S was all
\* of them.
LEMMA ContinueFacts ==
  ASSUME TypeOK, QueueInv, JobInv, NEW c \in Clients, runContinues(c)
  PROVE  /\ active = c /\ Running(c) /\ done[c] = 0 /\ ~InQueue(c)
         /\ QueuedOnce' /\ Len(queue') <= Len(queue)
         /\ \E S \in SUBSET Clients : Continued(c, S)
<1>1. active = c /\ Running(c) /\ done[c] = 0 /\ ~InQueue(c)
  BY DEF runContinues, resetIdle, Running, JobInv, JobOK, QueueInv
<1>2. Len(queue) \in Nat /\ \A i \in 1..Len(queue) : queue[i] \in Clients
  BY LenProperties, ElementOfSeq DEF TypeOK
<1>3. PICK k \in 0..Len(queue) :
        /\ done' = Close(Close(done, {c}), {queue[i] : i \in 1..k})
        /\ result' = [d \in Clients |-> IF d \in {queue[i] : i \in 1..k} THEN CtxCategory(d)
                                        ELSE Answer(result, {c}, local[c])[d]]
        /\ \/ /\ k < Len(queue)
              /\ active' = queue[k + 1]
              /\ worker' = [worker EXCEPT ![c] = "gone", ![queue[k + 1]] = "start"]
              /\ queue' = SubSeq(queue, k + 2, Len(queue))
           \/ /\ k = Len(queue)
              /\ active' = NoJob
              /\ worker' = [worker EXCEPT ![c] = "gone"]
              /\ queue' = << >>
  BY DEF runContinues, resetIdle
<1>. DEFINE S == {queue[i] : i \in 1..k}
<1>4. \A i \in 1..k : i \in 1..Len(queue)
  BY <1>2
<1>5. \A x : x \in S <=> \E i \in 1..k : queue[i] = x
  OBVIOUS
<1>6. S \in SUBSET Clients /\ \A x \in S : InQueue(x)
  BY <1>2, <1>4, <1>5 DEF InQueue
<1>7. \A x \in Clients : done'[x] = IF x \in S THEN Close(done, {c})[x] + 1 ELSE Close(done, {c})[x]
  BY <1>3 DEF Close
<1>8. \A x \in Clients : Close(done, {c})[x] = IF x = c THEN 1 ELSE done[x]
  BY <1>1 DEF Close
<1>9. \A x \in Clients : result'[x] = IF x \in S THEN CtxCategory(x)
                                      ELSE IF x = c THEN local[c] ELSE result[x]
  BY <1>3 DEF Answer
<1>. HIDE DEF S
<1>10. \A x \in Clients : done'[x] = IF x = c \/ x \in S THEN 1 ELSE done[x]
  <2>1. \A x \in S : x # c /\ x \in Clients /\ done[x] = 0
    BY <1>1, <1>6 DEF QueueInv
  <2>2. \A x \in S : Close(done, {c})[x] = 0
    BY <1>8, <2>1
  <2>3. ASSUME NEW x \in S
        PROVE  done'[x] = 1
    <3>1. done'[x] = 0 + 1
      BY <1>7, <2>1, <2>2
    <3>. QED
      BY <3>1
  <2>4. ASSUME NEW x \in Clients, x \notin S
        PROVE  done'[x] = IF x = c THEN 1 ELSE done[x]
    BY <1>7, <1>8, <2>4
  <2>. QED
    BY <2>3, <2>4
<1>11. CASE /\ k < Len(queue)
            /\ active' = queue[k + 1]
            /\ worker' = [worker EXCEPT ![c] = "gone", ![queue[k + 1]] = "start"]
            /\ queue' = SubSeq(queue, k + 2, Len(queue))
  <2>1. k + 1 \in 1..Len(queue)
    BY <1>2, <1>11
  <2>2. queue[k + 1] \in Clients /\ InQueue(queue[k + 1])
    BY <1>2, <2>1 DEF InQueue
  <2>3. queue[k + 1] \notin S
    <3>1. \A i \in 1..k : i # k + 1
      OBVIOUS
    <3>. QED
      BY <1>4, <1>5, <2>1, <3>1 DEF QueueInv, QueuedOnce
  <2>4. /\ Len(queue') = Len(queue) - k - 1
        /\ QueuedOnce'
        /\ \A x \in Clients : InQueue(x)' <=>
             InQueue(x) /\ x # queue[k + 1] /\ ~ \E i \in 1..k : queue[i] = x
    <3>1. QueuedOnce /\ k < Len(queue) /\ queue' = SubSeq(queue, k + 2, Len(queue))
      BY <1>11 DEF QueueInv
    <3>. QED
      BY <3>1, PopFacts
  <2>5. Len(queue') <= Len(queue)
    BY <1>2, <2>4
  <2>6. \A x \in Clients : InQueue(x)' <=> InQueue(x) /\ x # queue[k + 1] /\ x \notin S
    BY <1>5, <2>4
  <2>7. Continued(c, S)
    BY <1>6, <1>9, <1>10, <1>11, <2>2, <2>3, <2>6 DEF Continued
  <2>. QED
    BY <1>1, <1>6, <2>4, <2>5, <2>7
<1>12. CASE /\ k = Len(queue)
            /\ active' = NoJob
            /\ worker' = [worker EXCEPT ![c] = "gone"]
            /\ queue' = << >>
  <2>1. Len(queue') = 0 /\ \A x : InQueue(x) => x \in S
    BY <1>5, <1>12, EmptySeq DEF InQueue
  <2>2. QueuedOnce' /\ \A x : ~InQueue(x)'
    BY <2>1 DEF QueuedOnce, InQueue
  <2>3. Len(queue') <= Len(queue)
    BY <1>2, <2>1
  <2>4. Continued(c, S)
    BY <1>6, <1>9, <1>10, <1>12, <2>1, <2>2 DEF Continued
  <2>. QED
    BY <1>1, <1>6, <2>2, <2>3, <2>4
<1>. QED
  BY <1>3, <1>11, <1>12

\* Every section that touches the flag, the channel, the listener or the timer
\* leaves them in agreement.
LEMMA ServerStep == IndInv /\ [Next]_vars /\ TypeOK' => ServerInv'
<1>. SUFFICES ASSUME IndInv, [Next]_vars, TypeOK'
     PROVE  ServerInv'
  OBVIOUS
<1>. USE DEF IndInv, TypeOK, ServerInv, exiting
<1>1. CASE IdleFires
  BY <1>1 DEF IdleFires
<1>2. CASE stopIfIdle
  BY <1>2, EmptySeq DEF stopIfIdle, shutdownLocked, QueueInv
<1>3. CASE ctxStop
  BY <1>3 DEF ctxStop, abandon, rejectQueueLocked, shutdownLocked
<1>4. CASE AcceptFails
  BY <1>4 DEF AcceptFails, abandon, rejectQueueLocked, shutdownLocked
<1>5. CASE beatFails
  BY <1>5 DEF beatFails, beginExit, rejectQueueLocked, shutdownLocked
<1>6. ASSUME NEW c \in Clients, exitSection(c)
      PROVE  ServerInv'
  BY <1>6 DEF exitSection, beginExit, rejectQueueLocked, shutdownLocked
<1>7. ASSUME NEW c \in Clients, enqueueRefuses(c)
      PROVE  ServerInv'
  BY <1>7 DEF enqueueRefuses, admissible, return
<1>8. ASSUME NEW c \in Clients, enqueueAccepts(c)
      PROVE  ServerInv'
  BY <1>8, ClientsAssumption DEF enqueueAccepts, admissible, queueFull, startJob, appendJob
<1>9. ASSUME NEW c \in Clients, cancelQueued(c)
      PROVE  ServerInv'
  BY <1>9, EmptySeq DEF cancelQueued, QueueInv
<1>10. ASSUME NEW c \in Clients, runStops(c)
      PROVE  ServerInv'
  BY <1>10 DEF runStops, rejectQueueLocked, shutdownLocked, JobInv, Running
<1>11. ASSUME NEW c \in Clients, runContinues(c)
      PROVE  ServerInv'
  <2>1. PICK k \in 0..Len(queue) :
          \/ /\ k < Len(queue)
             /\ active' = queue[k + 1]
             /\ idle' = idle
          \/ /\ active' = NoJob
             /\ idle' = "running"
    BY <1>11 DEF runContinues, resetIdle
  <2>2. active = c /\ idle = "off" /\ ~exiting
    BY <1>11, ClientsAssumption DEF runContinues, resetIdle, JobInv, JobOK, Running
  <2>3. k < Len(queue) => queue[k + 1] # NoJob
    <3>1. ASSUME k < Len(queue) PROVE k + 1 \in 1..Len(queue)
      BY <3>1, LenProperties
    <3>. QED
      BY <3>1, ElementOfSeq, ClientsAssumption
  <2>. QED
    BY <1>11, <2>1, <2>2, <2>3, ClientsAssumption DEF runContinues, resetIdle
<1>12. CASE UNCHANGED <<stopped, listener, admission, active, idle, fired>>
  BY <1>12
<1>. QED
  BY <1>1, <1>2, <1>3, <1>4, <1>5, <1>6, <1>7, <1>8, <1>9, <1>10, <1>11, <1>12
     DEF Next, timerNext, serveNext, beatNext, handlerNext, workerNext, vars, serverVars, loopVars,
         handlerVars, doneVars, runVars, jobVars,
         Interrupt, ServeWaits, Returned, beatWatch, beatTick, beatReturns, beatPong, Accept, readFrame, check, exitAnswers, jobCtxEnds, jobAnswers, runStarts, executeSends, executeReturns, terminal, return

\* What serve waited for does not come back: nobody is accepted or admitted any more.
LEMMA ServeStep == IndInv /\ [Next]_vars /\ TypeOK' => ServeInv'
<1>. SUFFICES ASSUME IndInv, [Next]_vars, TypeOK'
     PROVE  ServeInv'
  OBVIOUS
<1>. USE DEF IndInv, TypeOK, ServeInv, workersGone, clientsGone, beatsGone, exiting,
         serverVars, loopVars, handlerVars, doneVars, runVars, jobVars
<1>1. CASE stopIfIdle
  BY <1>1 DEF stopIfIdle, shutdownLocked, ServerInv
<1>2. CASE ctxStop
  BY <1>2 DEF ctxStop, abandon, rejectQueueLocked, shutdownLocked, ServerInv
<1>3. CASE AcceptFails
  BY <1>3 DEF AcceptFails, abandon, rejectQueueLocked, shutdownLocked, ServerInv
<1>4. CASE beatTick
  BY <1>4 DEF beatTick
<1>5. CASE beatReturns
  BY <1>5 DEF beatReturns
<1>6. CASE beatPong
  BY <1>6 DEF beatPong
<1>7. CASE beatFails
  BY <1>7 DEF beatFails, beginExit, rejectQueueLocked, shutdownLocked, ServerInv
<1>8. CASE ServeWaits
  BY <1>8 DEF ServeWaits
<1>9. ASSUME NEW c \in Clients, Accept(c)
      PROVE  ServeInv'
  BY <1>9 DEF Accept
<1>10. ASSUME NEW c \in Clients, readFrame(c)
      PROVE  ServeInv'
  BY <1>10 DEF readFrame, return
<1>11. ASSUME NEW c \in Clients, check(c)
      PROVE  ServeInv'
  BY <1>11 DEF check, return
<1>12. ASSUME NEW c \in Clients, exitSection(c)
      PROVE  ServeInv'
  BY <1>12 DEF exitSection, beginExit, rejectQueueLocked, shutdownLocked, ServerInv
<1>13. ASSUME NEW c \in Clients, exitAnswers(c)
      PROVE  ServeInv'
  BY <1>13 DEF exitAnswers, return
<1>14. ASSUME NEW c \in Clients, enqueueRefuses(c)
      PROVE  ServeInv'
  BY <1>14 DEF enqueueRefuses, admissible, return
<1>15. ASSUME NEW c \in Clients, enqueueAccepts(c)
      PROVE  ServeInv'
  BY <1>15 DEF enqueueAccepts, admissible, queueFull, startJob, appendJob
<1>16. ASSUME NEW c \in Clients, cancelQueued(c)
      PROVE  ServeInv'
  BY <1>16 DEF cancelQueued
<1>17. ASSUME NEW c \in Clients, jobAnswers(c)
      PROVE  ServeInv'
  BY <1>17 DEF jobAnswers, return
<1>18. ASSUME NEW c \in Clients, runStarts(c)
      PROVE  ServeInv'
  BY <1>18 DEF runStarts
<1>19. ASSUME NEW c \in Clients, executeReturns(c)
      PROVE  ServeInv'
  BY <1>19 DEF executeReturns, terminal
<1>20. ASSUME NEW c \in Clients, runStops(c)
      PROVE  ServeInv'
  BY <1>20 DEF runStops, rejectQueueLocked, shutdownLocked, ServerInv
<1>21. ASSUME NEW c \in Clients, runContinues(c)
      PROVE  ServeInv'
  BY <1>21 DEF runContinues, resetIdle
<1>22. CASE UNCHANGED <<serve, admission, stopped, worker, handler, beat>>
  BY <1>22
<1>. QED
  BY <1>1, <1>2, <1>3, <1>4, <1>5, <1>6, <1>7, <1>8, <1>9, <1>10, <1>11, <1>12, <1>13, <1>14, <1>15, <1>16, <1>17, <1>18, <1>19, <1>20, <1>21, <1>22
     DEF Next, timerNext, serveNext, beatNext, handlerNext, workerNext, vars, serverVars, loopVars,
         handlerVars, doneVars, runVars, jobVars,
         IdleFires, Interrupt, Returned, beatWatch, jobCtxEnds, executeSends

\* The queue holds jobs that wait, each once, while a worker will take them out.
LEMMA QueueStep == IndInv /\ [Next]_vars /\ TypeOK' => QueueInv'
<1>. SUFFICES ASSUME IndInv, [Next]_vars, TypeOK'
     PROVE  QueueInv'
  OBVIOUS
<1>. USE DEF IndInv, TypeOK, QueueInv, exiting,
         serverVars, loopVars, handlerVars, doneVars, runVars, jobVars
<1>1. CASE stopIfIdle
  BY <1>1, EmptySeq DEF stopIfIdle, shutdownLocked, QueuedOnce, InQueue
<1>2. CASE ctxStop
  <2>1. rejectQueueLocked(done, result)
    BY <1>2 DEF ctxStop, abandon
  <2>2. Len(queue') = 0 /\ QueuedOnce' /\ \A x \in Clients : ~InQueue(x)'
    BY <2>1, RejectFacts
  <2>. QED
    BY <2>2, QueueAssumption
<1>3. CASE AcceptFails
  <2>1. rejectQueueLocked(done, result)
    BY <1>3 DEF AcceptFails, abandon
  <2>2. Len(queue') = 0 /\ QueuedOnce' /\ \A x \in Clients : ~InQueue(x)'
    BY <2>1, RejectFacts
  <2>. QED
    BY <2>2, QueueAssumption
<1>4. CASE beatFails
  <2>1. rejectQueueLocked(done, result)
    BY <1>4 DEF beatFails, beginExit
  <2>2. Len(queue') = 0 /\ QueuedOnce' /\ \A x \in Clients : ~InQueue(x)'
    BY <2>1, RejectFacts
  <2>. QED
    BY <2>2, QueueAssumption
<1>5. ASSUME NEW c \in Clients, Accept(c)
      PROVE  QueueInv'
  BY <1>5 DEF Accept, QueuedOnce, InQueue
<1>6. ASSUME NEW c \in Clients, readFrame(c)
      PROVE  QueueInv'
  BY <1>6 DEF readFrame, return, QueuedOnce, InQueue
<1>7. ASSUME NEW c \in Clients, check(c)
      PROVE  QueueInv'
  BY <1>7 DEF check, return, QueuedOnce, InQueue
<1>8. ASSUME NEW c \in Clients, exitSection(c)
      PROVE  QueueInv'
  <2>1. rejectQueueLocked(done, result)
    BY <1>8 DEF exitSection, beginExit
  <2>2. Len(queue') = 0 /\ QueuedOnce' /\ \A x \in Clients : ~InQueue(x)'
    BY <2>1, RejectFacts
  <2>. QED
    BY <2>2, QueueAssumption
<1>9. ASSUME NEW c \in Clients, exitAnswers(c)
      PROVE  QueueInv'
  BY <1>9 DEF exitAnswers, return, QueuedOnce, InQueue
<1>10. ASSUME NEW c \in Clients, enqueueRefuses(c)
      PROVE  QueueInv'
  BY <1>10 DEF enqueueRefuses, admissible, return, QueuedOnce, InQueue
<1>11. ASSUME NEW c \in Clients, enqueueAccepts(c)
      PROVE  QueueInv'
  <2>1. ~InQueue(c) /\ worker[c] = "none" /\ done[c] = 0
    BY <1>11 DEF enqueueAccepts, admissible, queueFull, startJob, appendJob, QueueInv, JobInv, JobOK, Unborn
  <2>2. CASE active = NoJob /\ active' = c /\ queue' = queue /\ worker' = [worker EXCEPT ![c] = "start"]
    <3>1. QueuedOnce' /\ Len(queue) = 0 /\ \A x : ~InQueue(x) /\ ~InQueue(x)'
      BY <2>2, LenProperties DEF QueueInv, QueuedOnce, InQueue
    <3>. QED
      BY <2>2, <3>1, QueueAssumption
  <2>3. CASE active # NoJob /\ Len(queue) < MaxQueue /\ queue' = Append(queue, c) /\ UNCHANGED <<active, worker>>
    <3>1. /\ Len(queue') = Len(queue) + 1 /\ QueuedOnce'
          /\ \A x \in Clients : InQueue(x)' <=> InQueue(x) \/ x = c
      BY <2>1, <2>3, AppendFacts DEF QueueInv
    <3>. QED
      BY <1>11, <2>1, <2>3, <3>1, QueueAssumption, LenProperties DEF enqueueAccepts, admissible, queueFull, startJob, appendJob
  <2>4. Len(queue) \in Nat /\ MaxQueue \in Nat
    BY LenProperties, QueueAssumption
  <2>. QED
    BY <1>11, <2>2, <2>3, <2>4 DEF enqueueAccepts, admissible, queueFull, startJob, appendJob
<1>12. ASSUME NEW c \in Clients, cancelQueued(c)
      PROVE  QueueInv'
  <2>1. ASSUME NEW i \in 1..Len(queue), queue[i] = c, queue' = Without(queue, i),
               done' = Close(done, {c})
        PROVE  QueueInv'
    <3>1. /\ Len(queue') = Len(queue) - 1 /\ QueuedOnce'
          /\ \A x \in Clients : InQueue(x)' <=> InQueue(x) /\ x # c
      <4>1. QueuedOnce
        BY DEF QueueInv
      <4>2. /\ Len(queue') = Len(queue) - 1 /\ QueuedOnce'
            /\ \A x \in Clients : InQueue(x)' <=> InQueue(x) /\ x # queue[i]
        BY <2>1, <4>1, RemoveFacts, ZenonT(60)
      <4>. QED
        BY <2>1, <4>2
    <3>2. \A x \in Clients : done'[x] = IF x = c THEN done[x] + 1 ELSE done[x]
      BY <2>1 DEF Close
    <3>3. InQueue(c) /\ Len(queue) \in Nat /\ Len(queue) > 0
      <4>1. Len(queue) \in Nat
        BY LenProperties
      <4>2. InQueue(c)
        BY <2>1, Zenon DEF InQueue
      <4>3. i \in 1..Len(queue)
        BY <2>1
      <4>. QED
        BY <4>1, <4>2, <4>3
    <3>. QED
      BY <1>12, <3>1, <3>2, <3>3, QueueAssumption DEF cancelQueued
  <2>2. CASE c \notin Queued(queue) /\ UNCHANGED <<queue, done>>
    <3>1. ~InQueue(c)
      BY <2>2 DEF Queued, InQueue
    <3>. QED
      BY <1>12, <2>2, <3>1 DEF cancelQueued, QueuedOnce, InQueue
  <2>. QED
    BY <1>12, <2>1, <2>2 DEF cancelQueued
<1>13. ASSUME NEW c \in Clients, jobAnswers(c)
      PROVE  QueueInv'
  BY <1>13 DEF jobAnswers, return, QueuedOnce, InQueue
<1>14. ASSUME NEW c \in Clients, runStarts(c)
      PROVE  QueueInv'
  BY <1>14 DEF runStarts, QueuedOnce, InQueue
<1>15. ASSUME NEW c \in Clients, executeReturns(c)
      PROVE  QueueInv'
  BY <1>15 DEF executeReturns, terminal, QueuedOnce, InQueue
<1>16. ASSUME NEW c \in Clients, runStops(c)
      PROVE  QueueInv'
  <2>1. rejectQueueLocked(Close(done, {c}), Answer(result, {c}, local[c]))
    BY <1>16 DEF runStops
  <2>2. Len(queue') = 0 /\ QueuedOnce' /\ \A x \in Clients : ~InQueue(x)'
    BY <2>1, RejectFacts
  <2>. QED
    BY <2>2, QueueAssumption
<1>17. ASSUME NEW c \in Clients, runContinues(c)
      PROVE  QueueInv'
  <2>1. PICK S \in SUBSET Clients : Continued(c, S)
    BY <1>17, ContinueFacts
  <2>2. /\ active = c /\ Running(c) /\ done[c] = 0 /\ ~InQueue(c)
        /\ QueuedOnce' /\ Len(queue') <= Len(queue)
    BY <1>17, ContinueFacts
  <2>3. UNCHANGED <<admission, handler>> /\ ~exiting
    BY <1>17 DEF runContinues, resetIdle, exiting
  <2>4. CASE /\ active' = NoJob
             /\ worker' = [worker EXCEPT ![c] = "gone"]
             /\ Len(queue') = 0
             /\ \A x \in Clients : ~InQueue(x)' /\ (InQueue(x) => x \in S)
    BY <2>2, <2>4, QueueAssumption
  <2>5. ASSUME NEW n \in Clients \ S, InQueue(n), active' = n,
               worker' = [worker EXCEPT ![c] = "gone", ![n] = "start"],
               \A x \in Clients : InQueue(x)' <=> InQueue(x) /\ x # n /\ x \notin S
        PROVE  QueueInv'
    <3>1. Len(queue) \in Nat /\ Len(queue') \in Nat /\ n # NoJob
      BY LenProperties, ClientsAssumption
    <3>2. Len(queue') <= MaxQueue
      BY <2>2, <3>1, QueueAssumption
    <3>3. ASSUME NEW x \in Clients, InQueue(x)'
          PROVE  handler'[x] = "wait" /\ worker'[x] = "none" /\ done'[x] = 0
      <4>1. InQueue(x) /\ x # n /\ x # c /\ x \notin S
        BY <2>2, <2>5, <3>3
      <4>2. handler[x] = "wait" /\ worker[x] = "none" /\ done[x] = 0
        BY <4>1
      <4>3. done'[x] = done[x]
        BY <2>1, <4>1 DEF Continued
      <4>. QED
        BY <2>3, <2>5, <4>1, <4>2, <4>3
    <3>. QED
      BY <2>2, <2>3, <2>5, <3>1, <3>2, <3>3
  <2>. QED
    BY <2>1, <2>4, <2>5 DEF Continued
<1>18. CASE UNCHANGED <<queue, handler, worker, done, active, admission>>
  BY <1>18 DEF QueuedOnce, InQueue
<1>. QED
  BY <1>1, <1>2, <1>3, <1>4, <1>5, <1>6, <1>7, <1>8, <1>9, <1>10, <1>11, <1>12, <1>13, <1>14, <1>15, <1>16, <1>17, <1>18
     DEF Next, timerNext, serveNext, beatNext, handlerNext, workerNext, vars, serverVars, loopVars,
         handlerVars, doneVars, runVars, jobVars,
         IdleFires, Interrupt, ServeWaits, Returned, beatWatch, beatTick, beatReturns, beatPong, jobCtxEnds, executeSends

\* A job is queued, or runs as the active one, or is answered.
LEMMA JobStep == IndInv /\ [Next]_vars /\ TypeOK' => JobInv'
<1>. SUFFICES ASSUME IndInv, [Next]_vars, TypeOK'
     PROVE  JobInv'
  OBVIOUS
<1>. USE DEF IndInv, TypeOK, JobInv,
         serverVars, loopVars, handlerVars, doneVars, runVars, jobVars
<1>1. CASE ctxStop
  <2>1. rejectQueueLocked(done, result)
    BY <1>1 DEF ctxStop, abandon
  <2>2. ASSUME NEW x \in Clients
        PROVE  done'[x] = IF InQueue(x) THEN 1 ELSE done[x]
    BY <2>1, RejectFacts DEF QueueInv
  <2>3. ASSUME NEW x \in Clients
        PROVE  JobOK(x)'
    BY <1>1, <2>2 DEF ctxStop, JobOK, Running, Unborn, QueueInv
  <2>. QED
    BY <2>3
<1>2. CASE AcceptFails
  <2>1. rejectQueueLocked(done, result)
    BY <1>2 DEF AcceptFails, abandon
  <2>2. ASSUME NEW x \in Clients
        PROVE  done'[x] = IF InQueue(x) THEN 1 ELSE done[x]
    BY <2>1, RejectFacts DEF QueueInv
  <2>3. ASSUME NEW x \in Clients
        PROVE  JobOK(x)'
    BY <1>2, <2>2 DEF AcceptFails, JobOK, Running, Unborn, QueueInv
  <2>. QED
    BY <2>3
<1>3. CASE beatFails
  <2>1. rejectQueueLocked(done, result)
    BY <1>3 DEF beatFails, beginExit
  <2>2. ASSUME NEW x \in Clients
        PROVE  done'[x] = IF InQueue(x) THEN 1 ELSE done[x]
    BY <2>1, RejectFacts DEF QueueInv
  <2>3. ASSUME NEW x \in Clients
        PROVE  JobOK(x)'
    BY <1>3, <2>2 DEF beatFails, JobOK, Running, Unborn, QueueInv
  <2>. QED
    BY <2>3
<1>4. ASSUME NEW c \in Clients, Accept(c)
      PROVE  JobInv'
  BY <1>4 DEF Accept, JobOK, Running, Unborn, InQueue
<1>5. ASSUME NEW c \in Clients, readFrame(c)
      PROVE  JobInv'
  BY <1>5 DEF readFrame, return, JobOK, Running, Unborn, InQueue
<1>6. ASSUME NEW c \in Clients, check(c)
      PROVE  JobInv'
  <2>1. \A x \in Clients :
          \/ handler'[x] = handler[x]
          \/ handler[x] = "check" /\ handler'[x] \in {"gone", "exit", "admit"}
    BY <1>6 DEF check, return
  <2>2. ASSUME NEW x \in Clients
        PROVE  JobOK(x)'
    BY <1>6, <2>1 DEF check, JobOK, Running, Unborn, InQueue
  <2>. QED
    BY <2>2
<1>7. ASSUME NEW c \in Clients, exitSection(c)
      PROVE  JobInv'
  <2>1. rejectQueueLocked(done, result)
    BY <1>7 DEF exitSection, beginExit
  <2>2. ASSUME NEW x \in Clients
        PROVE  done'[x] = IF InQueue(x) THEN 1 ELSE done[x]
    BY <2>1, RejectFacts DEF QueueInv
  <2>3. ASSUME NEW x \in Clients
        PROVE  JobOK(x)'
    BY <1>7, <2>2 DEF exitSection, JobOK, Running, Unborn, QueueInv
  <2>. QED
    BY <2>3
<1>8. ASSUME NEW c \in Clients, exitAnswers(c)
      PROVE  JobInv'
  BY <1>8 DEF exitAnswers, return, JobOK, Running, Unborn, InQueue
<1>9. ASSUME NEW c \in Clients, enqueueRefuses(c)
      PROVE  JobInv'
  BY <1>9 DEF enqueueRefuses, admissible, return, JobOK, Running, Unborn, InQueue
<1>10. ASSUME NEW c \in Clients, enqueueAccepts(c)
      PROVE  JobInv'
  <2>1. ~InQueue(c) /\ worker[c] = "none" /\ done[c] = 0
    BY <1>10 DEF enqueueAccepts, admissible, queueFull, startJob, appendJob, QueueInv, JobInv, JobOK, Unborn
  <2>2. CASE active = NoJob /\ active' = c /\ queue' = queue /\ worker' = [worker EXCEPT ![c] = "start"]
    <3>1. QueuedOnce' /\ Len(queue) = 0 /\ \A x : ~InQueue(x) /\ ~InQueue(x)'
      BY <2>2, LenProperties DEF QueueInv, QueuedOnce, InQueue
    <3>2. ASSUME NEW x \in Clients
          PROVE  JobOK(x)'
      BY <1>10, <2>1, <2>2, <3>1, ClientsAssumption DEF enqueueAccepts, admissible, queueFull, startJob, appendJob, JobOK, Running, Unborn, QueueInv
    <3>. QED
      BY <3>2
  <2>3. CASE active # NoJob /\ Len(queue) < MaxQueue /\ queue' = Append(queue, c) /\ UNCHANGED <<active, worker>>
    <3>1. /\ Len(queue') = Len(queue) + 1 /\ QueuedOnce'
          /\ \A x \in Clients : InQueue(x)' <=> InQueue(x) \/ x = c
      BY <2>1, <2>3, AppendFacts DEF QueueInv
    <3>2. ASSUME NEW x \in Clients
          PROVE  JobOK(x)'
      BY <1>10, <2>1, <2>3, <3>1, ClientsAssumption DEF enqueueAccepts, admissible, queueFull, startJob, appendJob, JobOK, Running, Unborn, QueueInv
    <3>. QED
      BY <3>2
  <2>4. Len(queue) \in Nat /\ MaxQueue \in Nat
    BY LenProperties, QueueAssumption
  <2>5. \/ active = NoJob /\ active' = c /\ queue' = queue /\ worker' = [worker EXCEPT ![c] = "start"]
        \/ active # NoJob /\ Len(queue) < MaxQueue /\ queue' = Append(queue, c) /\ UNCHANGED <<active, worker>>
    BY <1>10, <2>4 DEF enqueueAccepts, queueFull, startJob, appendJob
  <2>. QED
    BY <2>2, <2>3, <2>5
<1>11. ASSUME NEW c \in Clients, cancelQueued(c)
      PROVE  JobInv'
  <2>1. ASSUME NEW i \in 1..Len(queue), queue[i] = c, queue' = Without(queue, i),
               done' = Close(done, {c})
        PROVE  JobInv'
    <3>1. /\ Len(queue') = Len(queue) - 1 /\ QueuedOnce'
          /\ \A x \in Clients : InQueue(x)' <=> InQueue(x) /\ x # c
      BY <2>1, RemoveFacts DEF QueueInv
    <3>2. \A x \in Clients : done'[x] = IF x = c THEN done[x] + 1 ELSE done[x]
      BY <2>1 DEF Close
    <3>3. InQueue(c) /\ Len(queue) \in Nat /\ Len(queue) > 0
      <4>1. Len(queue) \in Nat
        BY LenProperties
      <4>2. InQueue(c)
        BY <2>1, Zenon DEF InQueue
      <4>3. i \in 1..Len(queue)
        BY <2>1
      <4>. QED
        BY <4>1, <4>2, <4>3
    <3>4. worker[c] = "none" /\ done[c] = 0 /\ done'[c] = 1
      BY <3>2, <3>3 DEF QueueInv
    <3>5. handler' = [handler EXCEPT ![c] = "waitdone"] /\ UNCHANGED <<active, worker>>
      BY <1>11 DEF cancelQueued
    <3>6. ASSUME NEW x \in Clients
          PROVE  JobOK(x)'
      <4>1. CASE x = c
        <5>1. active # c
          BY <3>4 DEF JobOK, Running
        <5>2. active' # c /\ worker'[c] = "none" /\ handler'[c] = "waitdone" /\ done'[c] = 1
          BY <3>4, <3>5, <5>1
        <5>3. JobOK(c)'
          BY <5>2 DEF JobOK, Running, Unborn
        <5>. QED
          BY <4>1, <5>3
      <4>2. CASE x # c
        BY <3>1, <3>2, <3>5, <4>2, SMTT(30) DEF JobOK, Running, Unborn
      <4>. QED
        BY <4>1, <4>2
    <3>. QED
      BY <3>6
  <2>2. CASE c \notin Queued(queue) /\ UNCHANGED <<queue, done>>
    <3>1. ~InQueue(c)
      BY <2>2 DEF Queued, InQueue
    <3>. QED
      BY <1>11, <2>2, <3>1 DEF cancelQueued, JobOK, Running, Unborn, InQueue, QueueInv
  <2>. QED
    BY <1>11, <2>1, <2>2 DEF cancelQueued
<1>12. ASSUME NEW c \in Clients, jobAnswers(c)
      PROVE  JobInv'
  BY <1>12 DEF jobAnswers, return, JobOK, Running, Unborn, InQueue
<1>13. ASSUME NEW c \in Clients, runStarts(c)
      PROVE  JobInv'
  BY <1>13 DEF runStarts, JobOK, Running, Unborn, InQueue
<1>14. ASSUME NEW c \in Clients, executeReturns(c)
      PROVE  JobInv'
  BY <1>14 DEF executeReturns, terminal, JobOK, Running, Unborn, InQueue
<1>15. ASSUME NEW c \in Clients, runStops(c)
      PROVE  JobInv'
  <2>1. /\ active = c /\ Running(c) /\ ~InQueue(c)
        /\ \A x \in Clients : /\ ~InQueue(x)'
                              /\ done'[x] = IF x = c \/ InQueue(x) THEN 1 ELSE done[x]
    BY <1>15, StopFacts
  <2>2. active' = NoJob /\ worker' = [worker EXCEPT ![c] = "gone"] /\ handler' = handler
    BY <1>15 DEF runStops
  <2>3. ASSUME NEW x \in Clients
        PROVE  JobOK(x)'
    BY <2>1, <2>2, ClientsAssumption, SMTT(30) DEF JobOK, Running, Unborn, QueueInv
  <2>. QED
    BY <2>3
<1>16. ASSUME NEW c \in Clients, runContinues(c)
      PROVE  JobInv'
  <2>1. PICK S \in SUBSET Clients : Continued(c, S)
    BY <1>16, ContinueFacts
  <2>2. /\ active = c /\ Running(c) /\ done[c] = 0 /\ ~InQueue(c)
        /\ QueuedOnce' /\ Len(queue') <= Len(queue)
    BY <1>16, ContinueFacts
  <2>3. UNCHANGED <<admission, handler>> /\ ~exiting
    BY <1>16 DEF runContinues, resetIdle, exiting
  <2>4. CASE /\ active' = NoJob
             /\ worker' = [worker EXCEPT ![c] = "gone"]
             /\ Len(queue') = 0
             /\ \A x \in Clients : ~InQueue(x)' /\ (InQueue(x) => x \in S)
    <3>1. ASSUME NEW x \in Clients
          PROVE  JobOK(x)'
      BY <2>1, <2>2, <2>3, <2>4, <3>1, ClientsAssumption, SMTT(30) DEF Continued, JobOK, Running, Unborn, QueueInv
    <3>. QED
      BY <3>1
  <2>5. ASSUME NEW n \in Clients \ S, InQueue(n), active' = n,
               worker' = [worker EXCEPT ![c] = "gone", ![n] = "start"],
               \A x \in Clients : InQueue(x)' <=> InQueue(x) /\ x # n /\ x \notin S
        PROVE  JobInv'
    <3>1. ASSUME NEW x \in Clients
          PROVE  JobOK(x)'
      BY <2>1, <2>2, <2>3, <2>5, <3>1, SMTT(30) DEF Continued, JobOK, Running, Unborn, QueueInv
    <3>. QED
      BY <3>1
  <2>. QED
    BY <2>1, <2>4, <2>5 DEF Continued
<1>17. CASE UNCHANGED <<queue, handler, worker, done, active>>
  BY <1>17 DEF JobOK, Running, Unborn, InQueue
<1>. QED
  BY <1>1, <1>2, <1>3, <1>4, <1>5, <1>6, <1>7, <1>8, <1>9, <1>10, <1>11, <1>12, <1>13, <1>14, <1>15, <1>16, <1>17
     DEF Next, timerNext, serveNext, beatNext, handlerNext, workerNext, vars, serverVars, loopVars,
         handlerVars, doneVars, runVars, jobVars,
         IdleFires, stopIfIdle, Interrupt, ServeWaits, Returned, beatWatch, beatTick, beatReturns, beatPong, jobCtxEnds, executeSends

\* What was promised about a command stays true.
LEMMA SentStep == IndInv /\ [Next]_vars /\ TypeOK' => SentInv'
<1>. SUFFICES ASSUME IndInv, [Next]_vars, TypeOK'
     PROVE  SentInv'
  OBVIOUS
<1>. USE DEF IndInv, TypeOK, SentInv, exiting,
         serverVars, loopVars, handlerVars, doneVars, runVars, jobVars
<1>1. CASE stopIfIdle
  BY <1>1 DEF stopIfIdle, shutdownLocked, SentOK, Running
<1>2. CASE ctxStop
  <2>1. rejectQueueLocked(done, result)
    BY <1>2 DEF ctxStop, abandon
  <2>2. \A x \in Clients :
          /\ done'[x] = IF InQueue(x) THEN 1 ELSE done[x]
          /\ result'[x] = IF InQueue(x) THEN "not-started" ELSE result[x]
    BY <2>1, RejectFacts DEF QueueInv
  <2>3. UNCHANGED <<active, worker, local, sent, reply>> /\ admission' = "ended"
    BY <1>2 DEF ctxStop, abandon, shutdownLocked
  <2>4. \A x \in Clients : handler'[x] = handler[x] \/ (handler[x] = "exit" /\ handler'[x] = "waitstop")
    BY <1>2 DEF ctxStop
  <2>5. ASSUME NEW x \in Clients
        PROVE  SentOK(x)'
    BY <2>2, <2>3, <2>4 DEF SentOK, Running, QueueInv
  <2>. QED
    BY <2>5
<1>3. CASE AcceptFails
  <2>1. rejectQueueLocked(done, result)
    BY <1>3 DEF AcceptFails, abandon
  <2>2. \A x \in Clients :
          /\ done'[x] = IF InQueue(x) THEN 1 ELSE done[x]
          /\ result'[x] = IF InQueue(x) THEN "not-started" ELSE result[x]
    BY <2>1, RejectFacts DEF QueueInv
  <2>3. UNCHANGED <<active, worker, local, sent, reply>> /\ admission' = "ended"
    BY <1>3 DEF AcceptFails, abandon, shutdownLocked
  <2>4. \A x \in Clients : handler'[x] = handler[x] \/ (handler[x] = "exit" /\ handler'[x] = "waitstop")
    BY <1>3 DEF AcceptFails
  <2>5. ASSUME NEW x \in Clients
        PROVE  SentOK(x)'
    BY <2>2, <2>3, <2>4 DEF SentOK, Running, QueueInv
  <2>. QED
    BY <2>5
<1>4. CASE beatFails
  <2>1. rejectQueueLocked(done, result)
    BY <1>4 DEF beatFails, beginExit
  <2>2. \A x \in Clients :
          /\ done'[x] = IF InQueue(x) THEN 1 ELSE done[x]
          /\ result'[x] = IF InQueue(x) THEN "not-started" ELSE result[x]
    BY <2>1, RejectFacts DEF QueueInv
  <2>3. UNCHANGED <<active, worker, local, sent, reply>> /\ admission' = "ended"
    BY <1>4 DEF beatFails, beginExit, shutdownLocked
  <2>4. \A x \in Clients : handler'[x] = handler[x] \/ (handler[x] = "exit" /\ handler'[x] = "waitstop")
    BY <1>4 DEF beatFails
  <2>5. ASSUME NEW x \in Clients
        PROVE  SentOK(x)'
    BY <2>2, <2>3, <2>4 DEF SentOK, Running, QueueInv
  <2>. QED
    BY <2>5
<1>5. ASSUME NEW c \in Clients, Accept(c)
      PROVE  SentInv'
  <2>1. \A x \in Clients :
          \/ handler'[x] = handler[x] /\ reply'[x] = reply[x]
          \/ Unborn(x) /\ handler'[x] # "absent" /\ reply'[x] = reply[x] /\ handler'[x] # "gone"
          \/ Unborn(x) /\ handler'[x] = "gone"
    BY <1>5 DEF Accept, Unborn
  <2>2. UNCHANGED <<active, worker, local, sent, done, result, admission>>
    BY <1>5 DEF Accept
  <2>3. \A x \in Clients : Unborn(x) => worker[x] = "none" /\ x \notin sent /\ reply[x] \notin Refusals
    BY DEF JobInv, JobOK, SentOK, Unborn
  <2>4. ASSUME NEW x \in Clients
        PROVE  SentOK(x)'
    <3>1. CASE handler'[x] = handler[x] /\ reply'[x] = reply[x]
      BY <2>2, <3>1 DEF SentOK, Running
    <3>2. CASE Unborn(x) /\ (handler'[x] = "gone" \/ reply'[x] = reply[x])
      BY <2>2, <2>3, <3>2 DEF SentOK, Running
    <3>. QED
      BY <2>1, <3>1, <3>2
  <2>. QED
    BY <2>4
<1>6. ASSUME NEW c \in Clients, readFrame(c)
      PROVE  SentInv'
  <2>1. \A x \in Clients :
          \/ handler'[x] = handler[x] /\ reply'[x] = reply[x]
          \/ Unborn(x) /\ handler'[x] # "absent" /\ reply'[x] = reply[x] /\ handler'[x] # "gone"
          \/ Unborn(x) /\ handler'[x] = "gone"
    BY <1>6 DEF readFrame, return, Unborn
  <2>2. UNCHANGED <<active, worker, local, sent, done, result, admission>>
    BY <1>6 DEF readFrame
  <2>3. \A x \in Clients : Unborn(x) => worker[x] = "none" /\ x \notin sent /\ reply[x] \notin Refusals
    BY DEF JobInv, JobOK, SentOK, Unborn
  <2>4. ASSUME NEW x \in Clients
        PROVE  SentOK(x)'
    <3>1. CASE handler'[x] = handler[x] /\ reply'[x] = reply[x]
      BY <2>2, <3>1 DEF SentOK, Running
    <3>2. CASE Unborn(x) /\ (handler'[x] = "gone" \/ reply'[x] = reply[x])
      BY <2>2, <2>3, <3>2 DEF SentOK, Running
    <3>. QED
      BY <2>1, <3>1, <3>2
  <2>. QED
    BY <2>4
<1>7. ASSUME NEW c \in Clients, check(c)
      PROVE  SentInv'
  <2>1. \A x \in Clients :
          \/ handler'[x] = handler[x] /\ reply'[x] = reply[x]
          \/ Unborn(x) /\ handler'[x] # "absent" /\ reply'[x] = reply[x] /\ handler'[x] # "gone"
          \/ Unborn(x) /\ handler'[x] = "gone"
    BY <1>7 DEF check, return, Unborn
  <2>2. UNCHANGED <<active, worker, local, sent, done, result, admission>>
    BY <1>7 DEF check
  <2>3. \A x \in Clients : Unborn(x) => worker[x] = "none" /\ x \notin sent /\ reply[x] \notin Refusals
    BY DEF JobInv, JobOK, SentOK, Unborn
  <2>4. ASSUME NEW x \in Clients
        PROVE  SentOK(x)'
    <3>1. CASE handler'[x] = handler[x] /\ reply'[x] = reply[x]
      BY <2>2, <3>1 DEF SentOK, Running
    <3>2. CASE Unborn(x) /\ (handler'[x] = "gone" \/ reply'[x] = reply[x])
      BY <2>2, <2>3, <3>2 DEF SentOK, Running
    <3>. QED
      BY <2>1, <3>1, <3>2
  <2>. QED
    BY <2>4
<1>8. ASSUME NEW c \in Clients, exitSection(c)
      PROVE  SentInv'
  <2>1. rejectQueueLocked(done, result)
    BY <1>8 DEF exitSection, beginExit
  <2>2. \A x \in Clients :
          /\ done'[x] = IF InQueue(x) THEN 1 ELSE done[x]
          /\ result'[x] = IF InQueue(x) THEN "not-started" ELSE result[x]
    BY <2>1, RejectFacts DEF QueueInv
  <2>3. UNCHANGED <<active, worker, local, sent, reply>> /\ admission' = "ended"
    BY <1>8 DEF exitSection, beginExit, shutdownLocked
  <2>4. \A x \in Clients : handler'[x] = handler[x] \/ (handler[x] = "exit" /\ handler'[x] = "waitstop")
    BY <1>8 DEF exitSection
  <2>5. ASSUME NEW x \in Clients
        PROVE  SentOK(x)'
    BY <2>2, <2>3, <2>4 DEF SentOK, Running, QueueInv
  <2>. QED
    BY <2>5
<1>9. ASSUME NEW c \in Clients, exitAnswers(c)
      PROVE  SentInv'
  <2>1. \A x \in Clients :
          \/ handler'[x] = handler[x] /\ reply'[x] = reply[x]
          \/ Unborn(x) /\ handler'[x] # "absent" /\ reply'[x] = reply[x] /\ handler'[x] # "gone"
          \/ Unborn(x) /\ handler'[x] = "gone"
    BY <1>9 DEF exitAnswers, return, Unborn
  <2>2. UNCHANGED <<active, worker, local, sent, done, result, admission>>
    BY <1>9 DEF exitAnswers
  <2>3. \A x \in Clients : Unborn(x) => worker[x] = "none" /\ x \notin sent /\ reply[x] \notin Refusals
    BY DEF JobInv, JobOK, SentOK, Unborn
  <2>4. ASSUME NEW x \in Clients
        PROVE  SentOK(x)'
    <3>1. CASE handler'[x] = handler[x] /\ reply'[x] = reply[x]
      BY <2>2, <3>1 DEF SentOK, Running
    <3>2. CASE Unborn(x) /\ (handler'[x] = "gone" \/ reply'[x] = reply[x])
      BY <2>2, <2>3, <3>2 DEF SentOK, Running
    <3>. QED
      BY <2>1, <3>1, <3>2
  <2>. QED
    BY <2>4
<1>10. ASSUME NEW c \in Clients, enqueueRefuses(c)
      PROVE  SentInv'
  <2>1. \A x \in Clients :
          \/ handler'[x] = handler[x] /\ reply'[x] = reply[x]
          \/ Unborn(x) /\ handler'[x] # "absent" /\ reply'[x] = reply[x] /\ handler'[x] # "gone"
          \/ Unborn(x) /\ handler'[x] = "gone"
    BY <1>10 DEF enqueueRefuses, admissible, return, Unborn
  <2>2. UNCHANGED <<active, worker, local, sent, done, result, admission>>
    BY <1>10 DEF enqueueRefuses, admissible
  <2>3. \A x \in Clients : Unborn(x) => worker[x] = "none" /\ x \notin sent /\ reply[x] \notin Refusals
    BY DEF JobInv, JobOK, SentOK, Unborn
  <2>4. ASSUME NEW x \in Clients
        PROVE  SentOK(x)'
    <3>1. CASE handler'[x] = handler[x] /\ reply'[x] = reply[x]
      BY <2>2, <3>1 DEF SentOK, Running
    <3>2. CASE Unborn(x) /\ (handler'[x] = "gone" \/ reply'[x] = reply[x])
      BY <2>2, <2>3, <3>2 DEF SentOK, Running
    <3>. QED
      BY <2>1, <3>1, <3>2
  <2>. QED
    BY <2>4
<1>11. ASSUME NEW c \in Clients, enqueueAccepts(c)
      PROVE  SentInv'
  <2>1. /\ handler' = [handler EXCEPT ![c] = "wait"] /\ handler[c] = "admit" /\ ~exiting
        /\ UNCHANGED <<reply, local, sent, done, result, admission>>
    BY <1>11 DEF enqueueAccepts, admissible, queueFull, startJob, appendJob
  <2>2. UNCHANGED worker \/ worker' = [worker EXCEPT ![c] = "start"]
    BY <1>11 DEF enqueueAccepts, admissible, queueFull, startJob, appendJob
  <2>3. ASSUME NEW x \in Clients
        PROVE  SentOK(x)'
    BY <2>1, <2>2 DEF SentOK, Running, JobInv, JobOK, Unborn
  <2>. QED
    BY <2>3
<1>12. ASSUME NEW c \in Clients, cancelQueued(c)
      PROVE  SentInv'
  <2>1. /\ handler' = [handler EXCEPT ![c] = "waitdone"] /\ handler[c] = "wait"
        /\ UNCHANGED <<active, worker, local, sent, reply, admission>>
    BY <1>12 DEF cancelQueued
  <2>2. \/ UNCHANGED <<done, result>>
        \/ /\ InQueue(c) /\ done' = Close(done, {c})
           /\ result' = Answer(result, {c}, CtxCategory(c))
           /\ result'[c] = CtxCategory(c)
    BY <1>12 DEF cancelQueued, InQueue, Answer
  <2>3. CtxCategory(c) \notin Refusals
    BY CategoryFacts DEF CtxCategory
  <2>4. ASSUME NEW x \in Clients
        PROVE  SentOK(x)'
    <3>1. CASE x # c \/ UNCHANGED <<done, result>>
      BY <2>1, <2>2, <3>1 DEF SentOK, Running, Close, Answer
    <3>2. CASE x = c /\ InQueue(c) /\ result'[c] = CtxCategory(c)
      <4>1. worker[c] = "none"
        BY <3>2 DEF QueueInv
      <4>2. c \notin sent /\ handler'[c] = "waitdone" /\ reply[c] \notin Refusals /\ local[c] \notin Refusals
        BY <2>1, <4>1 DEF SentOK
      <4>3. /\ worker'[c] = "none" /\ c \notin sent' /\ handler'[c] = "waitdone"
            /\ reply'[c] \notin Refusals /\ local'[c] \notin Refusals /\ result'[c] \notin Refusals
        BY <2>1, <2>3, <3>2, <4>1, <4>2
      <4>4. SentOK(c)'
        BY <4>3 DEF SentOK, Running
      <4>. QED
        BY <3>2, <4>4
    <3>. QED
      BY <2>2, <3>1, <3>2
  <2>. QED
    BY <2>4
<1>13. ASSUME NEW c \in Clients, jobAnswers(c)
      PROVE  SentInv'
  <2>1. /\ done[c] > 0 /\ handler' = [handler EXCEPT ![c] = "gone"]
        /\ reply' = [reply EXCEPT ![c] = result[c]]
        /\ UNCHANGED <<active, worker, local, sent, done, result, admission>>
    BY <1>13 DEF jobAnswers, return
  <2>2. ASSUME NEW x \in Clients
        PROVE  SentOK(x)'
    BY <2>1 DEF SentOK, Running, JobInv, JobOK
  <2>. QED
    BY <2>2
<1>14. ASSUME NEW c \in Clients, runStarts(c)
      PROVE  SentInv'
  BY <1>14 DEF runStarts, SentOK, Running, JobInv, JobOK, Refusals
<1>15. ASSUME NEW c \in Clients, executeSends(c)
      PROVE  SentInv'
  BY <1>15 DEF executeSends, SentOK, Running, JobInv, JobOK
<1>16. ASSUME NEW c \in Clients, executeReturns(c)
      PROVE  SentInv'
  <2>1. /\ worker[c] = "execute"
        /\ UNCHANGED <<active, handler, reply, sent, done, result, admission>>
    BY <1>16 DEF executeReturns, terminal
  <2>2. PICK category \in Categories, pc \in {"finished", "failed"} :
          /\ worker' = [worker EXCEPT ![c] = pc]
          /\ local' = [local EXCEPT ![c] = category]
          /\ pc = "finished" => category = "ok"
          /\ category \in Refusals => c \notin sent
    <3>1. CASE worker' = [worker EXCEPT ![c] = "finished"] /\ local' = [local EXCEPT ![c] = "ok"]
      BY <3>1 DEF Refusals, Categories
    <3>2. ASSUME worker' = [worker EXCEPT ![c] = "failed"],
                 NEW errs \in executeErrors(c), local' = [local EXCEPT ![c] = categoryFromError(errs)]
          PROVE  \E category \in Categories, pc \in {"finished", "failed"} :
                   /\ worker' = [worker EXCEPT ![c] = pc]
                   /\ local' = [local EXCEPT ![c] = category]
                   /\ pc = "finished" => category = "ok"
                   /\ category \in Refusals => c \notin sent
      <4>1. categoryFromError(errs) \in Categories /\ (categoryFromError(errs) \in Refusals => c \notin sent)
        BY <3>2, CategoryFacts DEF executeErrors, RunMayReturn
      <4>. QED
        BY <3>2, <4>1
    <3>. QED
      BY <1>16, <3>1, <3>2 DEF executeReturns, terminal
  <2>3. done[c] = 0
    BY <2>1 DEF JobInv, JobOK, Running
  <2>4. ASSUME NEW x \in Clients
        PROVE  SentOK(x)'
    BY <2>1, <2>2, <2>3 DEF SentOK, Running, JobInv, JobOK, Refusals
  <2>. QED
    BY <2>4
<1>17. ASSUME NEW c \in Clients, runStops(c)
      PROVE  SentInv'
  <2>1. /\ active = c /\ Running(c) /\ ~InQueue(c)
        /\ \A x \in Clients :
             /\ done'[x] = IF x = c \/ InQueue(x) THEN 1 ELSE done[x]
             /\ result'[x] = IF InQueue(x) THEN "not-started"
                             ELSE IF x = c THEN local[c] ELSE result[x]
    BY <1>17, StopFacts
  <2>2. /\ active' = NoJob /\ worker' = [worker EXCEPT ![c] = "gone"]
        /\ UNCHANGED <<handler, local, sent, reply>> /\ admission' = "ended"
    BY <1>17 DEF runStops, shutdownLocked
  <2>3. worker[c] \in {"finished", "failed"}
    BY <1>17 DEF runStops
  <2>4. ASSUME NEW x \in Clients
        PROVE  SentOK(x)'
    BY <2>1, <2>2, <2>3, ClientsAssumption DEF SentOK, Running, QueueInv, JobInv, JobOK
  <2>. QED
    BY <2>4
<1>18. ASSUME NEW c \in Clients, runContinues(c)
      PROVE  SentInv'
  <2>1. PICK S \in SUBSET Clients : Continued(c, S)
    BY <1>18, ContinueFacts
  <2>2. active = c /\ ~InQueue(c) /\ done[c] = 0
    BY <1>18, ContinueFacts
  <2>3. UNCHANGED <<admission, handler, local, sent, reply>> /\ ~exiting /\ worker[c] = "finished"
    BY <1>18 DEF runContinues, resetIdle, exiting
  <2>4. \A x \in Clients : CtxCategory(x) \notin Refusals
    BY CategoryFacts DEF CtxCategory
  <2>5. ASSUME NEW x \in Clients
        PROVE  SentOK(x)'
    <3>1. CASE x = c
      BY <2>1, <2>2, <2>3, <3>1 DEF Continued, SentOK, Running
    <3>2. CASE x # c /\ ~InQueue(x)
      BY <2>1, <2>3, <3>2 DEF Continued, SentOK, Running
    <3>3. CASE x # c /\ InQueue(x)
      <4>1. worker[x] = "none" /\ handler[x] = "wait" /\ x \notin sent
        BY <3>3 DEF QueueInv, SentOK
      <4>2. worker'[x] \in {"none", "start"} /\ (result'[x] = result[x] \/ (result'[x] = CtxCategory(x) /\ done'[x] = 1))
        BY <2>1, <3>3, <4>1 DEF Continued
      <4>. QED
        BY <2>1, <2>3, <2>4, <3>3, <4>1, <4>2 DEF Continued, SentOK, Running
    <3>. QED
      BY <3>1, <3>2, <3>3
  <2>. QED
    BY <2>5
<1>19. CASE UNCHANGED <<sent, worker, local, result, reply, handler, done, admission, active>>
  BY <1>19 DEF SentOK, Running
<1>. QED
  BY <1>1, <1>2, <1>3, <1>4, <1>5, <1>6, <1>7, <1>8, <1>9, <1>10, <1>11, <1>12, <1>13, <1>14, <1>15, <1>16, <1>17, <1>18, <1>19
     DEF Next, timerNext, serveNext, beatNext, handlerNext, workerNext, vars, serverVars, loopVars,
         handlerVars, doneVars, runVars, jobVars,
         IdleFires, Interrupt, ServeWaits, Returned, beatWatch, beatTick, beatReturns, beatPong, jobCtxEnds

\* The inductive invariant: TypeOK says what the values are; QueueInv, JobInv and
\* ServerInv support one another; ServeInv and SentInv follow from them.
THEOREM Inductive == Spec => []IndInv
<1>1. Init => IndInv
  <2>. SUFFICES ASSUME Init
       PROVE  IndInv
    OBVIOUS
  <2>1. Len(queue) = 0
    BY EmptySeq DEF Init
  <2>2. QueueInv /\ JobInv
    BY <2>1, QueueAssumption, ClientsAssumption
       DEF Init, QueueInv, QueuedOnce, InQueue, JobInv, JobOK, Running, Unborn
  <2>3. ServerInv /\ ServeInv /\ SentInv
    BY DEF Init, ServerInv, ServeInv, SentInv, SentOK, Running, exiting, Refusals
  <2>. QED
    BY <2>2, <2>3, TypeInit DEF IndInv
<1>2. IndInv /\ [Next]_vars => IndInv'
  BY TypeNext, QueueStep, JobStep, ServerStep, ServeStep, SentStep DEF IndInv
<1>. QED
  BY <1>1, <1>2, PTL DEF Spec

\* No channel is closed twice, whatever goroutines race to close it.
THEOREM ClosesOnce == Spec => []NoDoubleClose
<1>1. IndInv => NoDoubleClose
  BY DEF IndInv, ServerInv, JobInv, JobOK, NoDoubleClose
<1>. QED
  BY <1>1, Inductive, PTL

\* The lanes never carry two commands at once.
THEOREM Serial == Spec => []SerialExecution
<1>1. IndInv => SerialExecution
  BY DEF IndInv, JobInv, JobOK, Running, SerialExecution
<1>. QED
  BY <1>1, Inductive, PTL

\* No admitted job is forgotten: its handler will find it queued, active or
\* answered.
THEOREM JobsKept == Spec => []NoLostJob
<1>1. IndInv => NoLostJob
  <2>. SUFFICES ASSUME IndInv
       PROVE  NoLostJob
    OBVIOUS
  <2>1. ASSUME NEW c \in Clients, handler[c] \in {"wait", "waitdone"}
        PROVE  c \in Queued(queue) \/ active = c \/ done[c] > 0
    BY <2>1 DEF IndInv, JobInv, JobOK, Queued, InQueue
  <2>2. queue # << >> => active # NoJob
    BY EmptySeq DEF IndInv, TypeOK, QueueInv
  <2>3. active # NoJob => Running(active)
    BY DEF IndInv, TypeOK, JobInv, JobOK
  <2>. QED
    BY <2>1, <2>2, <2>3 DEF NoLostJob, Running
<1>. QED
  BY <1>1, Inductive, PTL

\* A master without work that still admits commands has its idle timer running, or its
\* expiry on the way: no path through enqueue, cancelQueued and run leaves it without.
THEOREM TimerCovers == Spec => []IdleTimerCovers
<1>1. IndInv => IdleTimerCovers
  BY DEF IndInv, TypeOK, ServerInv, IdleTimerCovers
<1>. QED
  BY <1>1, Inductive, PTL

\* A master that ended admission without a command to wait for has stopped.
THEOREM NoStuckMaster == Spec => []ExitReachesStop
<1>1. IndInv => ExitReachesStop
  BY DEF IndInv, TypeOK, ServerInv, ExitReachesStop
<1>. QED
  BY <1>1, Inductive, PTL

\* A refused command was never sent and never will be.
THEOREM RefusalsHold == Spec => []RefusedNeverSent
<1>1. IndInv => RefusedNeverSent
  BY DEF IndInv, SentInv, SentOK, Refusals, Running, RefusedNeverSent
<1>. QED
  BY <1>1, Inductive, PTL

\* No command runs on lanes on which an earlier one failed.
THEOREM FailedLanesRest == Spec => []LanesNotReused
<1>1. IndInv => LanesNotReused
  <2>. SUFFICES ASSUME IndInv, NEW d \in Clients, d \in sent, done[d] > 0, result[d] # "ok",
                       NEW c \in Clients
       PROVE  worker[c] \in {"none", "gone"}
    BY DEF LanesNotReused
  <2>1. done[d] = 1
    BY DEF IndInv, JobInv, JobOK
  <2>2. active = NoJob
    BY <2>1 DEF IndInv, SentInv, SentOK
  <2>. QED
    BY <2>2, ClientsAssumption DEF IndInv, TypeOK, JobInv, JobOK, Running
<1>. QED
  BY <1>1, Inductive, PTL

\* The lanes are closed only when nobody is left to use them.
THEOREM QuietClose == Spec => []QuietBeforeLanesClose
<1>1. IndInv => QuietBeforeLanesClose
  BY DEF IndInv, ServeInv, QuietBeforeLanesClose
<1>. QED
  BY <1>1, Inductive, PTL

\* The queue never grows past its limit.
THEOREM BoundedQueue == Spec => []QueueBounded
<1>1. IndInv => QueueBounded
  BY DEF IndInv, QueueInv, QueueBounded
<1>. QED
  BY <1>1, Inductive, PTL

\* What handle reads without the mutex once done is closed stays what it is, and the
\* command is not sent after all: the job is in no queue and has no worker.
THEOREM AnswersFinal == Spec => AnswerFinal
<1>1. ASSUME IndInv, Next, NEW c \in Clients, done[c] > 0
      PROVE  result'[c] = result[c] /\ (c \in sent' <=> c \in sent)
  <2>1. c \notin Queued(queue)
    BY <1>1 DEF IndInv, QueueInv, InQueue, Queued
  <2>2. ~Running(c)
    BY <1>1 DEF IndInv, JobInv, JobOK, Running
  <2>3. result \in [Clients -> Categories] /\ sent \subseteq Clients
    BY <1>1 DEF IndInv, TypeOK
  <2>4. ASSUME NEW d, rejectQueueLocked(d, result)
        PROVE  result'[c] = result[c]
    BY <2>1, <2>4 DEF rejectQueueLocked, Answer
  <2>5. CASE timerNext \/ serveNext \/ beatNext
    BY <2>4, <2>5 DEF timerNext, IdleFires, stopIfIdle, serveNext, Interrupt, ctxStop, AcceptFails,
       ServeWaits, Returned, vars, beatNext, beatWatch, beatTick, beatReturns, beatPong, beatFails,
       abandon, beginExit, jobVars, doneVars, runVars
  <2>6. ASSUME NEW d \in Clients, handlerNext(d)
        PROVE  result'[c] = result[c] /\ sent' = sent
    <3>1. CASE exitSection(d)
      BY <2>4, <3>1 DEF exitSection, beginExit, runVars
    <3>2. CASE cancelQueued(d)
      <4>1. CASE result' = result
        BY <3>2, <4>1 DEF cancelQueued, runVars
      <4>2. CASE d \in Queued(queue) /\ result' = Answer(result, {d}, CtxCategory(d))
        BY <2>1, <3>2, <4>2 DEF cancelQueued, Answer, runVars
      <4>. QED
        BY <3>2, <4>1, <4>2 DEF cancelQueued, Queued
    <3>3. CASE \/ Accept(d) \/ readFrame(d) \/ check(d) \/ exitAnswers(d) \/ enqueueRefuses(d)
               \/ enqueueAccepts(d) \/ jobCtxEnds(d) \/ jobAnswers(d)
      BY <3>3 DEF Accept, readFrame, check, exitAnswers, enqueueRefuses, enqueueAccepts, jobCtxEnds,
         jobAnswers, jobVars, doneVars, runVars
    <3>. QED
      BY <2>6, <3>1, <3>2, <3>3 DEF handlerNext
  <2>7. ASSUME NEW d \in Clients, workerNext(d)
        PROVE  result'[c] = result[c] /\ (c \in sent' <=> c \in sent)
    <3>1. CASE runStarts(d) \/ executeSends(d) \/ executeReturns(d)
      BY <2>2, <3>1 DEF runStarts, executeSends, executeReturns, Running
    <3>2. ASSUME runStops(d) \/ runContinues(d)
          PROVE  d # c
      BY <2>2, <3>2 DEF runStops, runContinues, Running
    <3>3. CASE runStops(d)
      <4>1. result' = Answer(Answer(result, {d}, local[d]), Queued(queue), "not-started") /\ sent' = sent
        BY <3>3 DEF runStops, rejectQueueLocked
      <4>. QED
        BY <2>1, <3>2, <3>3, <4>1 DEF Answer
    <3>4. CASE runContinues(d)
      <4>1. PICK k \in 0..Len(queue) :
              result' = [e \in Clients |->
                IF e \in {queue[i] : i \in 1..k} THEN CtxCategory(e)
                ELSE Answer(result, {d}, local[d])[e]]
        BY <3>4 DEF runContinues
      <4>2. c \notin {queue[i] : i \in 1..k}
        <5>1. Len(queue) \in Nat
          BY <1>1, LenProperties DEF IndInv, TypeOK
        <5>2. 1..k \subseteq 1..Len(queue)
          BY <4>1, <5>1
        <5>. QED
          BY <2>1, <5>2 DEF Queued
      <4>. QED
        BY <3>2, <3>4, <4>1, <4>2 DEF Answer, runContinues
    <3>. QED
      BY <2>7, <3>1, <3>3, <3>4 DEF workerNext
  <2>. QED
    BY <1>1, <2>5, <2>6, <2>7 DEF Next
<1>2. IndInv /\ [Next]_vars =>
        [\A c \in Clients : done[c] > 0 => result'[c] = result[c] /\ (c \in sent' <=> c \in sent)]_vars
  BY <1>1
<1>. QED
  BY <1>2, Inductive, PTL DEF Spec, AnswerFinal

-----------------------------------------------------------------------------
(* control exit, when neither the process is interrupted nor Accept fails. *)

Undisturbed == Faults \cap {"interrupt", "listener"} = {}

\* A stopped master has no command and gets none; only exit frames are answered by the
\* channel, and only requests by a job.
ExitInv ==
  /\ ctx = "live"
  /\ stopped > 0 => active = NoJob
  /\ \A c \in Clients :
       /\ handler[c] # "gone" => reply[c] = "none"
       /\ handler[c] \in {"admit", "wait", "waitdone"} => frame[c].kind = "request"
       /\ frame[c].kind = "exit" /\ reply[c] = "ok" => stopped > 0

LEMMA ExitInvInit == Init => ExitInv
BY DEF Init, ExitInv, NoFrame

LEMMA ExitInvStep ==
  ASSUME Undisturbed, IndInv, IndInv', ExitInv, [Next]_vars
  PROVE  ExitInv'
<1>1. TypeOK /\ stopped \in {0, 1} /\ (stopped > 0 => exiting) /\ (stopped = 0 <=> listener = "open")
  BY DEF IndInv, ServerInv
\* The parts of ExitInv that a step of the server's own sections leaves alone.
<1>2. ASSUME UNCHANGED <<ctx, handlerVars>>, stopped' > 0 => active' = NoJob, (stopped > 0 => stopped' > 0)
      PROVE  ExitInv'
  BY <1>1, <1>2 DEF ExitInv, handlerVars, TypeOK
<1>3. ASSUME NEW ex, shutdownLocked(ex), ex => exiting
      PROVE  stopped' \in {stopped, stopped + 1}
  BY <1>3 DEF shutdownLocked
<1>4. CASE timerNext
  <2>1. CASE IdleFires
    BY <1>1, <1>2, <2>1 DEF IdleFires, loopVars, ExitInv
  <2>2. CASE stopIfIdle
    BY <1>1, <1>2, <2>2 DEF stopIfIdle, shutdownLocked, loopVars, ExitInv
  <2>. QED
    BY <1>4, <2>1, <2>2 DEF timerNext
<1>5. CASE serveNext
  <2>1. ~Interrupt /\ ~ctxStop
    BY DEF Undisturbed, Interrupt, ctxStop, ExitInv
  <2>2. CASE AcceptFails
    <3>1. exiting /\ stopped > 0
      BY <1>1, <2>2 DEF AcceptFails, Undisturbed
    <3>2. stopped' = stopped /\ active' = active
      BY <2>2, <3>1 DEF AcceptFails, abandon, shutdownLocked
    <3>. QED
      BY <1>1, <1>2, <2>2, <3>2 DEF AcceptFails, ExitInv
  <2>3. CASE ServeWaits \/ Returned
    BY <1>1, <1>2, <2>3 DEF ServeWaits, Returned, vars, serverVars, loopVars, ExitInv
  <2>. QED
    BY <1>5, <2>1, <2>2, <2>3 DEF serveNext
<1>6. ASSUME beginExit, active' = active
      PROVE  (stopped' > 0 => active' = NoJob) /\ (stopped > 0 => stopped' > 0)
  BY <1>1, <1>6 DEF beginExit, shutdownLocked, ExitInv
<1>7. CASE beatNext
  <2>1. CASE beatFails
    BY <1>2, <1>6, <2>1 DEF beatFails
  <2>2. CASE beatWatch \/ beatTick \/ beatReturns \/ beatPong
    BY <1>1, <1>2, <2>2 DEF beatWatch, beatTick, beatReturns, beatPong, serverVars, ExitInv
  <2>. QED
    BY <1>7, <2>1, <2>2 DEF beatNext
\* The handler of one connection.
<1>8. ASSUME NEW c \in Clients, handlerNext(c)
      PROVE  ExitInv'
  <2>1. /\ handler \in [Clients -> {"absent", "read", "check", "exit", "admit", "wait",
                                   "waitdone", "waitstop", "gone"}]
        /\ frame \in [Clients -> Frames \cup {NoFrame}] /\ reply \in [Clients -> Categories \cup {"none"}]
    BY <1>1 DEF TypeOK
  <2>2. CASE Accept(c) \/ readFrame(c)
    BY <2>1, <2>2 DEF Accept, readFrame, return, ExitInv, serverVars, loopVars
  <2>3. CASE check(c)
    <3>1. \/ /\ checkTarget(frame[c]) # "ok" \/ frame[c].kind = "check"
             /\ return(c, checkTarget(frame[c]))
          \/ frame[c].kind = "request" /\ return(c, "timeout")
          \/ frame[c].kind = "exit" /\ handler' = [handler EXCEPT ![c] = "exit"] /\ reply' = reply
          \/ frame[c].kind = "request" /\ handler' = [handler EXCEPT ![c] = "admit"] /\ reply' = reply
      BY <2>3 DEF check
    <3>2. UNCHANGED <<ctx, stopped, active, frame>>
      BY <2>3 DEF check, serverVars, loopVars
    <3>3. CASE return(c, checkTarget(frame[c])) /\ (checkTarget(frame[c]) # "ok" \/ frame[c].kind = "check")
      BY <2>1, <3>2, <3>3 DEF return, ExitInv
    <3>4. CASE frame[c].kind = "request" /\ return(c, "timeout")
      BY <2>1, <3>2, <3>4 DEF return, ExitInv
    <3>5. CASE /\ reply' = reply
               /\ \/ frame[c].kind = "exit" /\ handler' = [handler EXCEPT ![c] = "exit"]
                  \/ frame[c].kind = "request" /\ handler' = [handler EXCEPT ![c] = "admit"]
      BY <2>1, <2>3, <3>2, <3>5 DEF check, ExitInv
    <3>. QED
      BY <3>1, <3>3, <3>4, <3>5
  <2>4. CASE exitSection(c)
    <3>1. (stopped' > 0 => active' = NoJob) /\ (stopped > 0 => stopped' > 0)
      BY <1>6, <2>4 DEF exitSection
    <3>. QED
      BY <1>1, <2>1, <2>4, <3>1 DEF exitSection, ExitInv, loopVars, TypeOK
  <2>5. CASE exitAnswers(c)
    BY <2>1, <2>5 DEF exitAnswers, return, ExitInv, serverVars, loopVars
  <2>6. CASE enqueueRefuses(c) \/ jobAnswers(c)
    <3>1. PICK category : return(c, category)
      BY <2>6 DEF enqueueRefuses, jobAnswers
    <3>2. frame[c].kind = "request"
      BY <2>6 DEF enqueueRefuses, jobAnswers, ExitInv
    <3>3. UNCHANGED <<ctx, stopped, active, frame>>
      BY <2>6 DEF enqueueRefuses, jobAnswers, serverVars, loopVars
    <3>. QED
      BY <2>1, <3>1, <3>2, <3>3 DEF return, ExitInv
  <2>7. CASE enqueueAccepts(c)
    <3>1. stopped = 0 /\ UNCHANGED <<ctx, stopped, frame, reply>>
      BY <1>1, <2>7 DEF enqueueAccepts, admissible, loopVars
    <3>2. handler[c] = "admit" /\ handler' = [handler EXCEPT ![c] = "wait"]
      BY <2>7 DEF enqueueAccepts
    <3>. QED
      BY <2>1, <3>1, <3>2 DEF ExitInv
  <2>8. CASE cancelQueued(c)
    <3>1. UNCHANGED <<ctx, stopped, active, frame, reply>>
      BY <2>8 DEF cancelQueued, loopVars
    <3>2. handler[c] = "wait" /\ handler' = [handler EXCEPT ![c] = "waitdone"]
      BY <2>8 DEF cancelQueued
    <3>. QED
      BY <2>1, <3>1, <3>2 DEF ExitInv
  <2>9. CASE jobCtxEnds(c)
    BY <1>1, <1>2, <2>9 DEF jobCtxEnds, serverVars, loopVars, ExitInv
  <2>. QED
    BY <1>8, <2>2, <2>3, <2>4, <2>5, <2>6, <2>7, <2>8, <2>9 DEF handlerNext
<1>9. ASSUME NEW c \in Clients, workerNext(c)
      PROVE  ExitInv'
  <2>1. CASE runStarts(c) \/ executeSends(c) \/ executeReturns(c)
    BY <1>1, <1>2, <2>1 DEF runStarts, executeSends, executeReturns, serverVars, loopVars, ExitInv
  <2>2. CASE runStops(c)
    BY <1>1, <1>2, <2>2 DEF runStops, shutdownLocked, loopVars
  <2>3. CASE runContinues(c)
    BY <1>1, <1>2, <2>3 DEF runContinues, loopVars
  <2>. QED
    BY <1>9, <2>1, <2>2, <2>3 DEF workerNext
<1>10. CASE UNCHANGED vars
  BY <1>1, <1>2, <1>10 DEF vars, serverVars, loopVars, ExitInv
<1>. QED
  BY <1>4, <1>5, <1>7, <1>8, <1>9, <1>10 DEF Next

\* Unless the process is interrupted or Accept fails, nobody is told that the master
\* stopped before the last command has ended; run master_exit shows why the condition
\* is needed.
THEOREM ExitIsPatient == ASSUME Undisturbed PROVE Spec => []ExitWaits
<1>1. IndInv /\ IndInv' /\ ExitInv /\ [Next]_vars => ExitInv'
  BY ExitInvStep
<1>2. ExitInv => ExitWaits
  BY DEF ExitInv, ExitWaits
<1>. QED
  BY <1>1, <1>2, ExitInvInit, Inductive, PTL DEF Spec

-----------------------------------------------------------------------------
(* The order of admission. *)

Admitted(c) == \E i \in 1..Len(admitted) : admitted[i] = c

AdmittedOnce == \A i, j \in 1..Len(admitted) : admitted[i] = admitted[j] => i = j

\* enqueue accepted x before y.
Older(x, y) == \E i, j \in 1..Len(admitted) : i < j /\ admitted[i] = x /\ admitted[j] = y

\* The handler of a job that was accepted waits for it, or has its answer.
Awaited(c) == handler[c] \in {"wait", "waitdone"} \/ (handler[c] = "gone" /\ done[c] > 0)

\* The queue is in the order of admission and behind the active job, and what is
\* older than a job with a worker is answered.
OrderInv ==
  /\ AdmittedOnce
  /\ \A c \in Clients : Admitted(c) => Awaited(c)
  /\ \A c \in Clients : worker[c] # "none" \/ handler[c] \in {"wait", "waitdone"} => Admitted(c)
  /\ \A a, b \in 1..Len(queue) : a < b => Older(queue[a], queue[b])
  /\ \A c \in Clients : InQueue(c) /\ active # NoJob => Older(active, c)
  /\ \A x, y \in Clients : Older(x, y) /\ worker[y] # "none" => done[x] > 0

\* Two jobs are not each older than the other.
LEMMA OlderFacts ==
  ASSUME AdmittedOnce, TypeOK, NEW x, NEW y, Older(x, y)
  PROVE  ~Older(y, x) /\ x # y /\ Admitted(x) /\ Admitted(y)
<1>1. Len(admitted) \in Nat
  BY LenProperties DEF TypeOK
<1>2. PICK i \in 1..Len(admitted), j \in 1..Len(admitted) : i < j /\ admitted[i] = x /\ admitted[j] = y
  BY Zenon DEF Older
<1>3. ASSUME NEW k \in 1..Len(admitted), NEW l \in 1..Len(admitted), k < l,
             admitted[k] = y, admitted[l] = x
      PROVE  FALSE
  <2>1. k = j /\ l = i
    BY <1>2, <1>3 DEF AdmittedOnce
  <2>. QED
    BY <1>1, <1>2, <1>3, <2>1
<1>. QED
  BY <1>1, <1>2, <1>3 DEF Older, Admitted, AdmittedOnce

LEMMA OrderInit == Init => OrderInv
BY EmptySeq DEF Init, OrderInv, AdmittedOnce, Admitted, InQueue, Older

\* A step that admits and starts no job keeps the order, if it only takes jobs out of
\* the queue, answers jobs, and lets a handler go that has its answer.
LEMMA OrderKeeps ==
  ASSUME OrderInv, TypeOK, admitted' = admitted, active' \in {active, NoJob},
         \A a, b \in 1..Len(queue') : a < b =>
           \E k, l \in 1..Len(queue) : k < l /\ queue[k] = queue'[a] /\ queue[l] = queue'[b],
         \A c \in Clients : /\ InQueue(c)' => InQueue(c)
                            /\ worker'[c] # "none" => worker[c] # "none"
                            /\ done[c] > 0 => done'[c] > 0
                            /\ Awaited(c) => Awaited(c)'
                            /\ handler'[c] \in {"wait", "waitdone"} => handler[c] \in {"wait", "waitdone"}
  PROVE  OrderInv'
<1>1. /\ \A c : Admitted(c)' <=> Admitted(c)
      /\ \A x, y : Older(x, y)' <=> Older(x, y)
      /\ AdmittedOnce'
  BY DEF Admitted, Older, AdmittedOnce, OrderInv
<1>2. \A c \in Clients : Admitted(c)' => Awaited(c)'
  BY <1>1 DEF OrderInv
<1>3. \A c \in Clients : worker'[c] # "none" \/ handler'[c] \in {"wait", "waitdone"} => Admitted(c)'
  BY <1>1 DEF OrderInv
<1>4. \A a, b \in 1..Len(queue') : a < b => Older(queue[a], queue[b])'
  BY <1>1 DEF OrderInv
<1>5. \A c \in Clients : InQueue(c)' /\ active' # NoJob => Older(active, c)'
  BY <1>1 DEF OrderInv
<1>6. \A x, y \in Clients : Older(x, y)' /\ worker'[y] # "none" => done'[x] > 0
  BY <1>1 DEF OrderInv
<1>. QED
  BY <1>1, <1>2, <1>3, <1>4, <1>5, <1>6 DEF OrderInv

\* The same for a step that leaves the queue alone or empties it.
LEMMA OrderKeepsQueue ==
  ASSUME OrderInv, TypeOK, admitted' = admitted, active' \in {active, NoJob},
         queue' = queue \/ queue' = << >>,
         \A c \in Clients : /\ worker'[c] # "none" => worker[c] # "none"
                            /\ done[c] > 0 => done'[c] > 0
                            /\ Awaited(c) => Awaited(c)'
                            /\ handler'[c] \in {"wait", "waitdone"} => handler[c] \in {"wait", "waitdone"}
  PROVE  OrderInv'
<1>1. \A a, b \in 1..Len(queue') : a < b =>
        \E k, l \in 1..Len(queue) : k < l /\ queue[k] = queue'[a] /\ queue[l] = queue'[b]
  BY EmptySeq
<1>2. \A c \in Clients : InQueue(c)' => InQueue(c)
  BY EmptySeq DEF InQueue
<1>. QED
  BY <1>1, <1>2, OrderKeeps

\* enqueue accepts a job: it is younger than all others, and joins the end of the
\* queue or starts at once.
LEMMA OrderAccepts ==
  ASSUME IndInv, IndInv', OrderInv, NEW c \in Clients, enqueueAccepts(c)
  PROVE  OrderInv'
<1>. USE DEF IndInv
<1>1. Len(admitted) \in Nat /\ Len(queue) \in Nat
  BY LenProperties DEF TypeOK
<1>2. /\ Len(admitted') = Len(admitted) + 1
      /\ \A i \in 1..Len(admitted) : admitted'[i] = admitted[i]
      /\ admitted'[Len(admitted) + 1] = c
  BY AppendProperties DEF TypeOK, enqueueAccepts
<1>3. ~Admitted(c)
  BY DEF enqueueAccepts, OrderInv, Awaited
<1>4. \A x : Admitted(x)' <=> Admitted(x) \/ x = c
  BY <1>1, <1>2 DEF Admitted
<1>5. \A x, y : Older(x, y)' <=> Older(x, y) \/ (Admitted(x) /\ y = c)
  <2>1. ASSUME NEW x, NEW y, Older(x, y)'
        PROVE  Older(x, y) \/ (Admitted(x) /\ y = c)
    BY <1>1, <1>2, <2>1 DEF Older, Admitted
  <2>2. ASSUME NEW x, NEW y, Older(x, y)
        PROVE  Older(x, y)'
    BY <1>1, <1>2, <2>2 DEF Older
  <2>3. ASSUME NEW x, Admitted(x)
        PROVE  Older(x, c)'
    BY <1>1, <1>2, <2>3 DEF Older, Admitted
  <2>. QED
    BY <2>1, <2>2, <2>3
<1>6. AdmittedOnce'
  BY <1>1, <1>2, <1>3 DEF AdmittedOnce, Admitted, OrderInv
<1>7. handler' = [handler EXCEPT ![c] = "wait"] /\ done' = done /\ handler[c] = "admit"
  BY DEF enqueueAccepts, doneVars
<1>8. \A x \in Clients : Admitted(x)' => Awaited(x)'
  BY <1>4, <1>7 DEF OrderInv, Awaited, TypeOK
<1>9. \/ active = NoJob /\ active' = c /\ worker' = [worker EXCEPT ![c] = "start"] /\ queue' = queue
      \/ active # NoJob /\ queue' = Append(queue, c) /\ UNCHANGED <<active, worker>>
  BY DEF enqueueAccepts, startJob, appendJob
<1>10. \A x \in Clients : worker'[x] # "none" \/ handler'[x] \in {"wait", "waitdone"} => Admitted(x)'
  BY <1>4, <1>7, <1>9 DEF OrderInv, TypeOK
<1>11. CASE active = NoJob /\ active' = c /\ worker' = [worker EXCEPT ![c] = "start"] /\ queue' = queue
  <2>1. Len(queue') = 0 /\ \A x : ~InQueue(x) /\ ~InQueue(x)'
    BY <1>1, <1>11 DEF QueueInv, InQueue
  <2>2. \A x \in Clients : Admitted(x) => done[x] > 0
    <3>1. SUFFICES ASSUME NEW x \in Clients, Admitted(x), handler[x] \in {"wait", "waitdone"}
                   PROVE  done[x] > 0
      BY DEF OrderInv, Awaited
    <3>2. done[x] \in {0, 1} /\ ~InQueue(x) /\ active # x
      BY <1>11, <2>1, ClientsAssumption DEF JobInv, JobOK
    <3>. QED
      BY <3>1, <3>2 DEF JobInv, JobOK
  <2>3. \A x, y \in Clients : Older(x, y)' => Admitted(x)
    <3>1. ASSUME NEW x \in Clients, NEW y \in Clients, Older(x, y)
          PROVE  Admitted(x)
      BY <3>1 DEF Older, Admitted
    <3>. QED
      BY <1>5, <3>1
  <2>4. \A x, y \in Clients : Older(x, y)' /\ worker'[y] # "none" => done'[x] > 0
    BY <1>7, <2>2, <2>3
  <2>. QED
    BY <1>6, <1>8, <1>10, <2>1, <2>4 DEF OrderInv
<1>12. CASE active # NoJob /\ queue' = Append(queue, c) /\ UNCHANGED <<active, worker>>
  <2>1. /\ Len(queue') = Len(queue) + 1
        /\ \A a \in 1..Len(queue) : queue'[a] = queue[a]
        /\ queue'[Len(queue) + 1] = c
    BY <1>12, AppendProperties DEF TypeOK
  <2>2. \A a \in 1..Len(queue) : queue[a] \in Clients /\ InQueue(queue[a])
    BY ElementOfSeq DEF TypeOK, InQueue
  <2>3. \A x \in Clients : InQueue(x) => Admitted(x)
    BY DEF QueueInv, OrderInv
  <2>4. Admitted(active)
    BY <1>12 DEF JobInv, JobOK, Running, OrderInv, TypeOK
  <2>5. \A a, b \in 1..Len(queue') : a < b => Older(queue[a], queue[b])'
    <3>1. SUFFICES ASSUME NEW a \in 1..Len(queue'), NEW b \in 1..Len(queue'), a < b
                   PROVE  Older(queue[a], queue[b])'
      OBVIOUS
    <3>2. a \in 1..Len(queue) /\ queue'[a] = queue[a]
      BY <1>1, <2>1, <3>1
    <3>3. CASE b \in 1..Len(queue)
      BY <1>5, <2>1, <3>1, <3>2, <3>3 DEF OrderInv
    <3>4. CASE b = Len(queue) + 1
      BY <1>5, <2>1, <2>2, <2>3, <3>2, <3>4
    <3>. QED
      BY <1>1, <2>1, <3>1, <3>3, <3>4
  <2>6. \A x \in Clients : InQueue(x)' => InQueue(x) \/ x = c
    BY <1>1, <2>1 DEF InQueue
  <2>7. \A x \in Clients : InQueue(x)' /\ active' # NoJob => Older(active, x)'
    BY <1>5, <1>12, <2>4, <2>6 DEF OrderInv
  <2>8. worker[c] = "none"
    BY <1>3 DEF OrderInv
  <2>9. \A x, y \in Clients : Older(x, y)' /\ worker'[y] # "none" => done'[x] > 0
    BY <1>5, <1>7, <1>12, <2>8 DEF OrderInv
  <2>. QED
    BY <1>6, <1>8, <1>10, <2>5, <2>7, <2>9 DEF OrderInv
<1>. QED
  BY <1>9, <1>11, <1>12

\* A worker's last section takes the oldest jobs out of the queue, answers those it
\* skips and starts the next.
LEMMA OrderContinues ==
  ASSUME IndInv, IndInv', OrderInv, NEW c \in Clients, runContinues(c)
  PROVE  OrderInv'
<1>. USE DEF IndInv
<1>1. Len(queue) \in Nat /\ \A a \in 1..Len(queue) : queue[a] \in Clients
  BY LenProperties, ElementOfSeq DEF TypeOK
<1>2. active = c /\ c # NoJob /\ UNCHANGED <<handler, admitted>>
  BY ClientsAssumption DEF runContinues, JobInv, JobOK, Running, handlerVars
<1>3. PICK k \in 0..Len(queue) :
        /\ done' = Close(Close(done, {c}), {queue[i] : i \in 1..k})
        /\ \/ /\ k < Len(queue)
              /\ active' = queue[k + 1]
              /\ worker' = [worker EXCEPT ![c] = "gone", ![queue[k + 1]] = "start"]
              /\ queue' = SubSeq(queue, k + 2, Len(queue))
           \/ /\ k = Len(queue)
              /\ active' = NoJob
              /\ worker' = [worker EXCEPT ![c] = "gone"]
              /\ queue' = << >>
  BY DEF runContinues
<1>4. \A x \in Clients : done'[x] >= done[x] /\ done'[x] \in Nat
  <2>1. \A x \in Clients : done[x] \in Nat
    BY DEF TypeOK
  <2>. QED
    BY <1>3, <2>1 DEF Close
<1>5. \A x \in Clients : done[x] > 0 => done'[x] > 0
  BY <1>4 DEF TypeOK
<1>6. done'[c] > 0 /\ \A i \in 1..k : done'[queue[i]] > 0
  <2>. DEFINE once == Close(done, {c})
              S == {queue[i] : i \in 1..k}
  <2>1. \A i \in 1..k : i \in 1..Len(queue)
    BY <1>1, <1>3
  <2>2. \A x \in Clients : done'[x] = IF x \in S THEN once[x] + 1 ELSE once[x]
    BY <1>3 DEF Close
  <2>3. \A x \in Clients : done[x] \in Nat
    BY DEF TypeOK
  <2>4. \A x \in Clients : once[x] = IF x \in {c} THEN done[x] + 1 ELSE done[x]
    BY DEF Close
  <2>. HIDE DEF once
  <2>5. done'[c] > 0
    <3>1. once[c] = done[c] + 1 /\ once[c] \in Nat
      BY <2>3, <2>4
    <3>2. done'[c] = once[c] + 1 \/ done'[c] = once[c]
      BY <2>2
    <3>. QED
      BY <2>3, <3>1, <3>2
  <2>6. ASSUME NEW i \in 1..k
        PROVE  done'[queue[i]] > 0
    <3>1. queue[i] \in Clients /\ queue[i] \in S
      BY <1>1, <2>1
    <3>. HIDE DEF S
    <3>2. done'[queue[i]] = once[queue[i]] + 1
      BY <2>2, <3>1
    <3>3. once[queue[i]] \in Nat
      BY <2>3, <2>4, <3>1
    <3>. QED
      BY <3>2, <3>3
  <2>. QED
    BY <2>5, <2>6
<1>7. \A x \in Clients : Awaited(x) => Awaited(x)'
  BY <1>2, <1>5 DEF Awaited
<1>8. worker[c] # "none"
  BY <1>2 DEF JobInv, JobOK, Running
<1>9. CASE k = Len(queue) /\ active' = NoJob /\ worker' = [worker EXCEPT ![c] = "gone"] /\ queue' = << >>
  <2>1. \A x \in Clients : worker'[x] # "none" => worker[x] # "none"
    BY <1>9, <1>8 DEF TypeOK
  <2>. QED
    BY <1>2, <1>5, <1>7, <1>9, <2>1, OrderKeepsQueue
<1>10. CASE /\ k < Len(queue)
           /\ active' = queue[k + 1]
           /\ worker' = [worker EXCEPT ![c] = "gone", ![queue[k + 1]] = "start"]
           /\ queue' = SubSeq(queue, k + 2, Len(queue))
  <2>1. PICK n \in Clients : n = queue[k + 1] /\ active' = n
    BY <1>1, <1>10
  <2>2. k + 1 \in 1..Len(queue) /\ InQueue(n)
    BY <1>1, <1>10, <2>1 DEF InQueue
  <2>3. /\ Len(queue') = Len(queue) - k - 1
        /\ \A j \in 1..(Len(queue) - k - 1) : queue'[j] = queue[j + k + 1]
    <3>1. queue \in Seq(Clients)
      BY DEF TypeOK
    <3>. QED
      BY <1>3, <1>10, <3>1, DropFacts
  <2>4. /\ \A x : Admitted(x)' <=> Admitted(x)
        /\ \A x, y : Older(x, y)' <=> Older(x, y)
        /\ AdmittedOnce'
    BY <1>2 DEF Admitted, Older, AdmittedOnce, OrderInv
  <2>5. \A x \in Clients : worker'[x] # "none" => worker[x] # "none" \/ x = n
    BY <1>10, <1>8, <2>1 DEF TypeOK
  <2>6. Admitted(n)
    BY <2>2 DEF QueueInv, OrderInv
  <2>7. \A x \in Clients : Admitted(x)' => Awaited(x)'
    BY <1>7, <2>4 DEF OrderInv
  <2>8. \A x \in Clients : worker'[x] # "none" \/ handler'[x] \in {"wait", "waitdone"} => Admitted(x)'
    BY <1>2, <2>4, <2>5, <2>6 DEF OrderInv
  <2>9. \A j \in 1..Len(queue') : j + k + 1 \in 1..Len(queue) /\ queue'[j] = queue[j + k + 1]
    BY <1>1, <1>10, <2>3
  <2>10. \A a, b \in 1..Len(queue') : a < b => Older(queue[a], queue[b])'
    <3>1. SUFFICES ASSUME NEW a \in 1..Len(queue'), NEW b \in 1..Len(queue'), a < b
                   PROVE  Older(queue[a], queue[b])'
      OBVIOUS
    <3>2. a + k + 1 < b + k + 1
      BY <1>1, <2>3, <3>1
    <3>. QED
      BY <2>4, <2>9, <3>1, <3>2 DEF OrderInv
  <2>11. \A x \in Clients : InQueue(x)' /\ active' # NoJob => Older(active, x)'
    <3>1. SUFFICES ASSUME NEW j \in 1..Len(queue')
                   PROVE  Older(n, queue'[j])
      BY <2>1, <2>4 DEF InQueue
    <3>2. k + 1 < j + k + 1
      BY <1>1, <2>3, <3>1
    <3>. QED
      BY <2>1, <2>2, <2>9, <3>1, <3>2 DEF OrderInv
  \* What is older than the job that starts has ended, was skipped, or ended before.
  <2>12. ASSUME NEW x \in Clients, Older(x, n)
         PROVE  done'[x] > 0
    <3>1. CASE done[x] > 0
      BY <1>5, <3>1
    <3>2. CASE x = c
      BY <1>6, <3>2
    <3>3. CASE done[x] = 0 /\ x # c
      <4>1. ~Older(n, x) /\ x # n /\ Admitted(x)
        BY <2>12, OlderFacts DEF OrderInv
      <4>2. InQueue(x)
        BY <1>2, <3>3, <4>1 DEF OrderInv, Awaited, JobInv, JobOK
      <4>3. PICK i \in 1..Len(queue) : queue[i] = x
        BY <4>2 DEF InQueue
      <4>4. ~(k + 1 < i) /\ i # k + 1
        BY <2>1, <2>2, <4>1, <4>3 DEF OrderInv
      <4>5. i \in 1..k
        BY <1>1, <4>3, <4>4
      <4>. QED
        BY <1>6, <4>3, <4>5
    <3>4. done[x] = 0 \/ done[x] > 0
      BY DEF TypeOK
    <3>. QED
      BY <3>1, <3>2, <3>3, <3>4
  <2>13. \A x, y \in Clients : Older(x, y)' /\ worker'[y] # "none" => done'[x] > 0
    BY <1>5, <2>4, <2>5, <2>12 DEF OrderInv
  <2>. QED
    BY <2>4, <2>7, <2>8, <2>10, <2>11, <2>13 DEF OrderInv
<1>. QED
  BY <1>3, <1>9, <1>10

\* The queue is rejected: the jobs it held are answered, and nothing else is undone.
LEMMA OrderRejects ==
  ASSUME TypeOK, NEW d, NEW r, rejectQueueLocked(d, r),
         \A x \in Clients : d[x] \in Nat /\ d[x] >= done[x]
  PROVE  queue' = << >> /\ \A x \in Clients : done[x] > 0 => done'[x] > 0
<1>1. \A x \in Clients : done'[x] = IF InQueue(x) THEN d[x] + 1 ELSE d[x]
  BY RejectFacts
<1>2. \A x \in Clients : done[x] \in Nat
  BY DEF TypeOK
<1>3. ASSUME NEW x \in Clients, done[x] > 0
      PROVE  done'[x] > 0
  <2>1. done'[x] = d[x] + 1 \/ done'[x] = d[x]
    BY <1>1
  <2>. QED
    BY <1>2, <1>3, <2>1
<1>. QED
  BY <1>3 DEF rejectQueueLocked

\* Every step keeps the order of admission.
LEMMA OrderStep == IndInv /\ IndInv' /\ OrderInv /\ [Next]_vars => OrderInv'
<1>. SUFFICES ASSUME IndInv, IndInv', OrderInv, [Next]_vars
     PROVE  OrderInv'
  OBVIOUS
<1>. USE DEF IndInv
<1>0. TypeOK /\ \A c \in Clients : done[c] \in Nat
  BY DEF TypeOK
\* The steps that leave the jobs and their handlers alone.
<1>1. CASE UNCHANGED <<active, queue, admitted, handler, done, worker>>
  BY <1>1, <1>0, OrderKeepsQueue DEF Awaited
<1>2. CASE timerNext
  BY <1>2, <1>1 DEF timerNext, IdleFires, stopIfIdle, handlerVars, jobVars, doneVars, runVars
<1>3. CASE Interrupt \/ ServeWaits \/ Returned
  BY <1>3, <1>1 DEF Interrupt, ServeWaits, Returned, vars, serverVars, handlerVars, jobVars, doneVars, runVars
<1>4. CASE ctxStop \/ AcceptFails \/ beatFails
  <2>1. rejectQueueLocked(done, result)
    BY <1>4 DEF ctxStop, AcceptFails, beatFails, abandon, beginExit
  <2>2. UNCHANGED <<active, admitted, handler, worker>>
    BY <1>4 DEF ctxStop, AcceptFails, beatFails, handlerVars, runVars
  <2>3. queue' = << >> /\ \A x \in Clients : done[x] > 0 => done'[x] > 0
    BY <1>0, <2>1, OrderRejects
  <2>. QED
    BY <1>0, <2>2, <2>3, OrderKeepsQueue DEF Awaited
<1>5. CASE beatWatch \/ beatTick \/ beatReturns \/ beatPong
  BY <1>5, <1>1 DEF beatWatch, beatTick, beatReturns, beatPong, serverVars, handlerVars, jobVars, doneVars, runVars
<1>6. ASSUME NEW c \in Clients, Accept(c) \/ readFrame(c) \/ check(c)
      PROVE  OrderInv'
  <2>1. UNCHANGED <<active, queue, admitted, done, worker>>
    BY <1>6 DEF Accept, readFrame, check, serverVars, jobVars, doneVars, runVars
  <2>2. handler[c] \in {"absent", "read", "check"}
    BY <1>6 DEF Accept, readFrame, check
  <2>3. PICK h : h \notin {"wait", "waitdone"} /\ handler' = [handler EXCEPT ![c] = h]
    BY <1>6 DEF Accept, readFrame, check, return
  <2>4. \A x \in Clients : x # c => handler'[x] = handler[x]
    BY <2>3 DEF TypeOK
  <2>5. handler'[c] \notin {"wait", "waitdone"}
    BY <2>3 DEF TypeOK
  <2>. QED
    BY <1>0, <2>1, <2>2, <2>4, <2>5, OrderKeepsQueue DEF Awaited
<1>7. ASSUME NEW c \in Clients, exitSection(c)
      PROVE  OrderInv'
  <2>1. rejectQueueLocked(done, result)
    BY <1>7 DEF exitSection, beginExit
  <2>2. /\ UNCHANGED <<active, admitted, worker>>
        /\ handler[c] = "exit" /\ handler' = [handler EXCEPT ![c] = "waitstop"]
    BY <1>7 DEF exitSection, runVars
  <2>3. queue' = << >> /\ \A x \in Clients : done[x] > 0 => done'[x] > 0
    BY <1>0, <2>1, OrderRejects
  <2>4. handler'[c] = "waitstop" /\ \A x \in Clients : x # c => handler'[x] = handler[x]
    BY <2>2 DEF TypeOK
  <2>. QED
    BY <1>0, <2>2, <2>3, <2>4, OrderKeepsQueue DEF Awaited
<1>8. ASSUME NEW c \in Clients, exitAnswers(c) \/ enqueueRefuses(c) \/ jobAnswers(c)
      PROVE  OrderInv'
  <2>1. UNCHANGED <<active, queue, admitted, done, worker>>
    BY <1>8 DEF exitAnswers, enqueueRefuses, jobAnswers, serverVars, jobVars, doneVars, runVars
  <2>2. handler[c] \in {"waitstop", "admit"} \/ done[c] > 0
    BY <1>8 DEF exitAnswers, enqueueRefuses, jobAnswers
  <2>3. handler' = [handler EXCEPT ![c] = "gone"]
    BY <1>8 DEF exitAnswers, enqueueRefuses, jobAnswers, return
  <2>4. handler'[c] = "gone" /\ \A x \in Clients : x # c => handler'[x] = handler[x]
    BY <2>3 DEF TypeOK
  <2>. QED
    BY <1>0, <2>1, <2>2, <2>4, OrderKeepsQueue DEF Awaited
<1>9. ASSUME NEW c \in Clients, enqueueAccepts(c)
      PROVE  OrderInv'
  BY <1>9, OrderAccepts
<1>10. ASSUME NEW c \in Clients, jobCtxEnds(c)
       PROVE  OrderInv'
  BY <1>10, <1>1 DEF jobCtxEnds, serverVars, handlerVars, doneVars, runVars
<1>11. ASSUME NEW c \in Clients, cancelQueued(c)
       PROVE  OrderInv'
  <2>1. /\ UNCHANGED <<active, admitted, worker>>
        /\ handler[c] = "wait" /\ handler' = [handler EXCEPT ![c] = "waitdone"]
    BY <1>11 DEF cancelQueued, runVars
  <2>2. handler'[c] = "waitdone" /\ \A x \in Clients : x # c => handler'[x] = handler[x]
    BY <2>1 DEF TypeOK
  <2>3. CASE queue' = queue /\ done' = done
    BY <1>0, <2>1, <2>2, <2>3, OrderKeepsQueue DEF Awaited
  <2>4. ASSUME NEW i \in 1..Len(queue), queue' = Without(queue, i), done' = Close(done, {c})
        PROVE  OrderInv'
    <3>1. Len(queue) \in Nat /\ queue \in Seq(Clients) /\ QueuedOnce
      BY LenProperties DEF TypeOK, QueueInv
    <3>2. /\ Len(queue') = Len(queue) - 1
          /\ \A j \in 1..(Len(queue) - 1) : queue'[j] = IF j < i THEN queue[j] ELSE queue[j + 1]
      BY <2>4, <3>1, WithoutFacts
    <3>3. \A a, b \in 1..Len(queue') : a < b =>
            \E k, l \in 1..Len(queue) : k < l /\ queue[k] = queue'[a] /\ queue[l] = queue'[b]
      <4>1. SUFFICES ASSUME NEW a \in 1..Len(queue'), NEW b \in 1..Len(queue'), a < b
                     PROVE  \E k, l \in 1..Len(queue) : k < l /\ queue[k] = queue'[a] /\ queue[l] = queue'[b]
        OBVIOUS
      <4>2. PICK k \in 1..Len(queue) : k = (IF a < i THEN a ELSE a + 1) /\ queue[k] = queue'[a]
        BY <3>1, <3>2
      <4>3. PICK l \in 1..Len(queue) : l = (IF b < i THEN b ELSE b + 1) /\ queue[l] = queue'[b]
        BY <3>1, <3>2
      <4>4. k < l
        BY <3>1, <3>2, <4>1, <4>2, <4>3
      <4>. QED
        BY <4>2, <4>3, <4>4
    <3>4. \A x \in Clients : InQueue(x)' => InQueue(x)
      BY <1>0, <2>4, <3>1, RemoveFacts
    <3>5. \A x \in Clients : done'[x] = done[x] + 1 \/ done'[x] = done[x]
      BY <2>4 DEF Close
    <3>6. \A x \in Clients : done[x] > 0 => done'[x] > 0
      BY <1>0, <3>5
    <3>. QED
      BY <1>0, <2>1, <2>2, <3>3, <3>4, <3>6, OrderKeeps DEF Awaited
  <2>. QED
    BY <1>11, <2>3, <2>4 DEF cancelQueued
<1>12. ASSUME NEW c \in Clients, runStarts(c) \/ executeReturns(c)
       PROVE  OrderInv'
  <2>1. UNCHANGED <<active, queue, admitted, handler, done>>
    BY <1>12 DEF runStarts, executeReturns, serverVars, handlerVars
  <2>2. worker[c] # "none"
    BY <1>12 DEF runStarts, executeReturns
  <2>3. \A x \in Clients : x # c => worker'[x] = worker[x]
    BY <1>12 DEF runStarts, executeReturns, TypeOK
  <2>. QED
    BY <1>0, <2>1, <2>2, <2>3, OrderKeepsQueue DEF Awaited
<1>13. ASSUME NEW c \in Clients, executeSends(c)
       PROVE  OrderInv'
  BY <1>13, <1>1 DEF executeSends, serverVars, handlerVars
<1>14. ASSUME NEW c \in Clients, runStops(c)
       PROVE  OrderInv'
  <2>1. rejectQueueLocked(Close(done, {c}), Answer(result, {c}, local[c]))
    BY <1>14 DEF runStops
  <2>2. UNCHANGED <<admitted, handler>> /\ active' = NoJob /\ worker' = [worker EXCEPT ![c] = "gone"]
    BY <1>14 DEF runStops, handlerVars
  <2>3. \A x \in Clients : Close(done, {c})[x] = IF x = c THEN done[x] + 1 ELSE done[x]
    BY DEF Close
  <2>4. ASSUME NEW x \in Clients
        PROVE  Close(done, {c})[x] \in Nat /\ Close(done, {c})[x] >= done[x]
    <3>1. Close(done, {c})[x] = done[x] + 1 \/ Close(done, {c})[x] = done[x]
      BY <2>3
    <3>. QED
      BY <1>0, <3>1
  <2>5. queue' = << >> /\ \A x \in Clients : done[x] > 0 => done'[x] > 0
    BY <1>0, <2>1, <2>4, OrderRejects
  <2>6. worker[c] # "none" /\ \A x \in Clients : x # c => worker'[x] = worker[x]
    BY <1>14, <2>2 DEF runStops, TypeOK
  <2>. QED
    BY <1>0, <2>2, <2>5, <2>6, OrderKeepsQueue DEF Awaited
<1>15. ASSUME NEW c \in Clients, runContinues(c)
       PROVE  OrderInv'
  BY <1>15, OrderContinues
<1>16. CASE UNCHANGED vars
  BY <1>16, <1>1 DEF vars, serverVars, handlerVars, jobVars, doneVars, runVars
<1>. QED
  BY <1>2, <1>3, <1>4, <1>5, <1>6, <1>7, <1>8, <1>9, <1>10, <1>11, <1>12, <1>13, <1>14, <1>15, <1>16
  DEF Next, serveNext, beatNext, handlerNext, workerNext

\* Commands are executed in the order enqueue admitted them, however many clients
\* wait, leave and are skipped: no worker starts before every older job is answered.
THEOREM OrderKept == Spec => []AdmissionOrder
<1>1. IndInv /\ OrderInv => AdmissionOrder
  <2>1. SUFFICES ASSUME TypeOK, OrderInv, NEW i \in 1..Len(admitted), NEW j \in 1..Len(admitted),
                        i < j, worker[admitted[j]] # "none"
                 PROVE  done[admitted[i]] > 0
    BY DEF AdmissionOrder, IndInv
  <2>2. admitted[i] \in Clients /\ admitted[j] \in Clients
    <3>1. admitted \in Seq(Clients)
      BY <2>1 DEF TypeOK
    <3>. QED
      BY <2>1, <3>1, ElementOfSeq
  <2>3. Older(admitted[i], admitted[j])
    BY <2>1 DEF Older
  <2>. QED
    BY <2>1, <2>2, <2>3 DEF OrderInv
<1>. QED
  BY <1>1, OrderInit, OrderStep, Inductive, PTL DEF Spec

=============================================================================
