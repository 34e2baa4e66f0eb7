------------------------ MODULE MasterServiceProofs -------------------------
(***************************************************************************)
(* MasterServer implements CommandService: whatever handlers, workers,     *)
(* contexts and timers do in whatever order, the clients see one line of   *)
(* commands, for every number of connections and every length of it.       *)
(***************************************************************************)
EXTENDS MasterServerProofs

\* The connection of a request that may still be admitted, or was.
AsksForJob(c) == handler[c] \in {"admit", "wait", "waitdone"}

\* A handler has answered nothing before it is gone; until a frame is read there is
\* none, and behind the check its kind is known; a job has a context.
SeenOK(c) ==
  /\ handler[c] # "gone" => reply[c] = "none"
  /\ handler[c] \in {"absent", "read"} => frame[c] = NoFrame
  /\ handler[c] \in {"exit", "waitstop"} => frame[c].kind = "exit"
  /\ AsksForJob(c) => frame[c].kind = "request" /\ jctx[c] # "none"

SeenInv == \A c \in Clients : SeenOK(c)

\* What a worker is about to answer: after a failure of execute(), an outcome that fits
\* how far the command got; else an outcome after which the master may go on.
LocalOK(c) ==
  /\ worker[c] = "finished" => local[c] \in Service!Harmless(c)
  /\ worker[c] = "failed" => local[c] \in Service!Outcomes(c)

LocalInv == \A c \in Clients : LocalOK(c)

-----------------------------------------------------------------------------
(* The two parts are kept. *)

\* A context that has ended has one of two categories, and an error of execute() one
\* that RunContract allows.
LEMMA CtxFacts ==
  ASSUME TypeOK, NEW c \in Clients, jctx[c] \notin {"none", "live"}
  PROVE  CtxCategory(c) \in Service!GivenUp
BY DEF TypeOK, CtxCategory, categoryFromError, Service!GivenUp

LEMMA ErrorFacts ==
  ASSUME NEW c \in Clients, NEW errs \in executeErrors(c)
  PROVE  categoryFromError(errs) \in Service!Outcomes(c)
BY DEF executeErrors, RunMayReturn, categoryFromError, Service!Outcomes, Service!Spared,
   Service!Touched, Service!GivenUp

\* No step of the server's own sections touches a connection.
LEMMA SeenKeeps ==
  ASSUME SeenInv, UNCHANGED handlerVars, TypeOK,
         \A c \in Clients : jctx[c] # "none" => jctx'[c] # "none"
  PROVE  SeenInv'
BY DEF SeenInv, SeenOK, AsksForJob, handlerVars

\* A handler that returns leaves nothing to say but its reply.
LEMMA ReturnSeen ==
  ASSUME TypeOK, SeenInv, NEW c \in Clients, frame' = frame, \E category : return(c, category)
  PROVE  SeenInv'
BY DEF TypeOK, SeenInv, SeenOK, AsksForJob, return

LEMMA SeenStep == TypeOK /\ TypeOK' /\ SeenInv /\ [Next]_vars => SeenInv'
<1>. SUFFICES ASSUME TypeOK, TypeOK', SeenInv, [Next]_vars
     PROVE  SeenInv'
  OBVIOUS
<1>1. CASE timerNext \/ beatNext
  BY <1>1, SeenKeeps DEF timerNext, beatNext, IdleFires, stopIfIdle, beatWatch, beatTick, beatReturns,
     beatPong, beatFails, jobVars
<1>2. CASE serveNext
  <2>1. CASE Interrupt
    <3>1. \A c \in Clients : jctx[c] # "none" => jctx'[c] # "none"
      BY <2>1 DEF Interrupt
    <3>. QED
      BY <2>1, <3>1, SeenKeeps DEF Interrupt
  <2>2. CASE ctxStop \/ AcceptFails \/ ServeWaits \/ Returned
    BY <2>2, SeenKeeps DEF ctxStop, AcceptFails, ServeWaits, Returned, vars, jobVars
  <2>. QED
    BY <1>2, <2>1, <2>2 DEF serveNext
<1>3. ASSUME NEW c \in Clients, workerNext(c)
      PROVE  SeenInv'
  BY <1>3, SeenKeeps DEF workerNext, runStarts, executeSends, executeReturns, runStops, runContinues
<1>4. ASSUME NEW c \in Clients, handlerNext(c)
      PROVE  SeenInv'
  <2>. USE DEF TypeOK, SeenInv, SeenOK, AsksForJob
  <2>1. CASE Accept(c)
    BY <2>1 DEF Accept, jobVars
  <2>2. CASE readFrame(c)
    <3>1. \/ /\ \E f \in Frames : frame' = [frame EXCEPT ![c] = f]
             /\ handler' = [handler EXCEPT ![c] = "check"] /\ UNCHANGED <<reply, jctx>>
          \/ (\E category : return(c, category)) /\ frame' = frame
      BY <2>2 DEF readFrame
    <3>2. handler[c] = "read" /\ reply[c] = "none"
      BY <2>2 DEF readFrame
    <3>3. CASE (\E category : return(c, category)) /\ frame' = frame
      BY <3>3, ReturnSeen
    <3>4. ASSUME NEW f \in Frames, frame' = [frame EXCEPT ![c] = f],
                 handler' = [handler EXCEPT ![c] = "check"], UNCHANGED <<reply, jctx>>
          PROVE  SeenInv'
      <4>1. /\ handler'[c] = "check" /\ reply'[c] = "none"
            /\ \A d \in Clients : reply'[d] = reply[d] /\ jctx'[d] = jctx[d]
            /\ \A d \in Clients \ {c} : handler'[d] = handler[d] /\ frame'[d] = frame[d]
        BY <3>2, <3>4
      <4>2. SeenOK(c)'
        BY <4>1
      <4>3. \A d \in Clients \ {c} : SeenOK(d)'
        BY <4>1
      <4>. QED
        BY <4>2, <4>3
    <3>. QED
      BY <3>1, <3>3, <3>4
  <2>3. CASE check(c)
    <3>1. \/ \E category : return(c, category)
          \/ frame[c].kind = "exit" /\ handler' = [handler EXCEPT ![c] = "exit"] /\ UNCHANGED <<reply, jctx>>
          \/ /\ frame[c].kind = "request" /\ handler' = [handler EXCEPT ![c] = "admit"] /\ reply' = reply
             /\ jctx' = [jctx EXCEPT ![c] = IF ctx = "live" THEN "live" ELSE "canceled"]
      BY <2>3 DEF check
    <3>2. frame' = frame /\ handler[c] = "check"
      BY <2>3 DEF check
    <3>3. CASE \E category : return(c, category)
      BY <3>2, <3>3, ReturnSeen
    <3>4. CASE frame[c].kind = "exit" /\ handler' = [handler EXCEPT ![c] = "exit"] /\ UNCHANGED <<reply, jctx>>
      BY <3>2, <3>4
    <3>5. CASE /\ frame[c].kind = "request" /\ handler' = [handler EXCEPT ![c] = "admit"] /\ reply' = reply
               /\ jctx' = [jctx EXCEPT ![c] = IF ctx = "live" THEN "live" ELSE "canceled"]
      BY <3>2, <3>5
    <3>. QED
      BY <3>1, <3>3, <3>4, <3>5
  <2>4. CASE exitSection(c)
    BY <2>4 DEF exitSection
  <2>5. CASE exitAnswers(c) \/ enqueueRefuses(c) \/ jobAnswers(c)
    <3>1. (\E category : return(c, category)) /\ frame' = frame
      BY <2>5 DEF exitAnswers, enqueueRefuses, jobAnswers
    <3>. QED
      BY <3>1, ReturnSeen
  <2>6. CASE enqueueAccepts(c)
    BY <2>6 DEF enqueueAccepts
  <2>7. CASE cancelQueued(c)
    BY <2>7 DEF cancelQueued
  <2>8. CASE jobCtxEnds(c)
    BY <2>8 DEF jobCtxEnds, handlerVars
  <2>. QED
    BY <1>4, <2>1, <2>2, <2>3, <2>4, <2>5, <2>6, <2>7, <2>8 DEF handlerNext
<1>5. CASE UNCHANGED vars
  BY <1>5, SeenKeeps DEF vars, jobVars
<1>. QED
  BY <1>1, <1>2, <1>3, <1>4, <1>5 DEF Next

\* A running job has a context.
LEMMA RunningFacts ==
  ASSUME IndInv, SeenInv, NEW c \in Clients, Running(c) \/ InQueue(c)
  PROVE  AsksForJob(c) /\ jctx[c] # "none" /\ frame[c].kind = "request" /\ reply[c] = "none"
<1>1. handler[c] # "gone" /\ ~Unborn(c)
  BY DEF IndInv, SentInv, SentOK, JobInv, JobOK, QueueInv, Running, Unborn
<1>2. AsksForJob(c)
  BY <1>1 DEF IndInv, TypeOK, Unborn, AsksForJob
<1>. QED
  BY <1>1, <1>2 DEF SeenInv, SeenOK

LEMMA LocalKeeps ==
  ASSUME LocalInv, UNCHANGED runVars
  PROVE  LocalInv'
BY DEF LocalInv, LocalOK, runVars, Service!Harmless, Service!Outcomes

LEMMA LocalStep == IndInv /\ SeenInv /\ LocalInv /\ [Next]_vars => LocalInv'
<1>. SUFFICES ASSUME IndInv, SeenInv, LocalInv, [Next]_vars
     PROVE  LocalInv'
  OBVIOUS
<1>1. CASE timerNext \/ serveNext \/ beatNext
  BY <1>1, LocalKeeps DEF timerNext, serveNext, beatNext, IdleFires, stopIfIdle, Interrupt, ctxStop,
     AcceptFails, ServeWaits, Returned, vars, beatWatch, beatTick, beatReturns, beatPong, beatFails,
     jobVars
<1>2. ASSUME NEW c \in Clients, handlerNext(c)
      PROVE  LocalInv'
  <2>1. CASE enqueueAccepts(c)
    BY <2>1 DEF enqueueAccepts, startJob, LocalInv, LocalOK, IndInv, TypeOK, Service!Harmless,
       Service!Outcomes
  <2>2. CASE ~enqueueAccepts(c)
    BY <1>2, <2>2, LocalKeeps DEF handlerNext, Accept, readFrame, check, exitSection, exitAnswers,
       enqueueRefuses, jobCtxEnds, cancelQueued, jobAnswers, jobVars
  <2>. QED
    BY <2>1, <2>2
<1>3. ASSUME NEW c \in Clients, workerNext(c)
      PROVE  LocalInv'
  <2>. USE DEF LocalInv, LocalOK, Service!Harmless, Service!Outcomes
  <2>1. worker \in [Clients -> {"none", "start", "execute", "finished", "failed", "gone"}]
        /\ local \in [Clients -> Categories] /\ sent \subseteq Clients
    BY DEF IndInv, TypeOK
  <2>2. CASE runStarts(c)
    <3>1. c \notin sent
      BY <2>2 DEF runStarts, IndInv, SentInv, SentOK
    <3>2. jctx[c] # "live" => CtxCategory(c) \in Service!GivenUp
      BY <2>2, CtxFacts, RunningFacts DEF runStarts, Running, IndInv
    <3>. QED
      BY <2>1, <2>2, <3>1, <3>2 DEF runStarts
  <2>3. CASE executeSends(c)
    BY <2>1, <2>3 DEF executeSends
  <2>4. CASE executeReturns(c)
    <3>1. CASE /\ c \in sent
               /\ worker' = [worker EXCEPT ![c] = "finished"]
               /\ local' = [local EXCEPT ![c] = "ok"]
      BY <2>1, <2>4, <3>1 DEF executeReturns
    <3>2. CASE /\ worker' = [worker EXCEPT ![c] = terminal]
               /\ \E errs \in executeErrors(c) : local' = [local EXCEPT ![c] = categoryFromError(errs)]
      <4>1. PICK errs \in executeErrors(c) : local' = [local EXCEPT ![c] = categoryFromError(errs)]
        BY <3>2
      <4>2. sent' = sent
        BY <2>4 DEF executeReturns
      <4>. QED
        BY <2>1, <3>2, <4>1, <4>2, ErrorFacts DEF terminal
    <3>. QED
      BY <2>4, <3>1, <3>2 DEF executeReturns
  <2>5. CASE runStops(c)
    BY <2>1, <2>5 DEF runStops
  <2>6. CASE runContinues(c)
    BY <2>1, <2>6 DEF runContinues
  <2>. QED
    BY <1>3, <2>2, <2>3, <2>4, <2>5, <2>6 DEF workerNext
<1>4. CASE UNCHANGED vars
  BY <1>4, LocalKeeps DEF vars, jobVars
<1>. QED
  BY <1>1, <1>2, <1>3, <1>4 DEF Next

-----------------------------------------------------------------------------
(* The line that the service sees. *)

LineOf(a, q) == IF a = NoJob THEN << >> ELSE <<a>> \o q

\* The active job is the first of the line and the queue is the rest.
LEMMA LineFacts ==
  ASSUME NEW a \in Clients \cup {NoJob}, NEW q \in Seq(Clients)
  PROVE  /\ LineOf(a, q) \in Seq(Clients)
         /\ a = NoJob => LineOf(a, q) = << >> /\ Len(LineOf(a, q)) = 0
         /\ a # NoJob =>
              /\ Len(LineOf(a, q)) = Len(q) + 1
              /\ LineOf(a, q)[1] = a
              /\ \A i \in 1..Len(q) : LineOf(a, q)[i + 1] = q[i]
<1>1. CASE a = NoJob
  BY <1>1, EmptySeq DEF LineOf
<1>2. CASE a # NoJob
  <2>1. Len(q) \in Nat /\ <<a>> \in Seq(Clients) /\ Len(<<a>>) = 1 /\ <<a>>[1] = a
    BY <1>2, LenProperties
  <2>2. /\ <<a>> \o q \in Seq(Clients) /\ Len(<<a>> \o q) = 1 + Len(q)
        /\ \A i \in 1..1 + Len(q) : (<<a>> \o q)[i] = IF i <= 1 THEN <<a>>[i] ELSE q[i - 1]
    BY <2>1, ConcatProperties
  <2>3. (<<a>> \o q)[1] = a
    BY <2>1, <2>2
  <2>4. ASSUME NEW i \in 1..Len(q)
        PROVE  (<<a>> \o q)[i + 1] = q[i]
    <3>1. i + 1 \in 1..1 + Len(q) /\ ~(i + 1 <= 1) /\ (i + 1) - 1 = i
      BY <2>1
    <3>. QED
      BY <2>2, <3>1
  <2>. QED
    BY <1>2, <2>1, <2>2, <2>3, <2>4 DEF LineOf
<1>. QED
  BY <1>1, <1>2

\* The same of the line of a state that the invariant describes.
LEMMA LineNow ==
  ASSUME IndInv
  PROVE  /\ Line \in Seq(Clients) /\ Len(Line) \in Nat /\ Len(queue) \in Nat
         /\ active = NoJob => Line = << >> /\ Len(Line) = 0 /\ Len(queue) = 0
         /\ active # NoJob =>
              /\ Len(Line) = Len(queue) + 1 /\ Line # << >> /\ Line[1] = active
              /\ \A i \in 1..Len(queue) : Line[i + 1] = queue[i]
         /\ \A c \in Clients : Service!Waits(c) <=> active = c \/ InQueue(c)
<1>1. active \in Clients \cup {NoJob} /\ queue \in Seq(Clients) /\ Line = LineOf(active, queue)
  BY DEF IndInv, TypeOK, Line, LineOf
<1>2. Len(queue) \in Nat /\ (active = NoJob => Len(queue) = 0)
  BY <1>1, LenProperties DEF IndInv, QueueInv
<1>3. /\ Line \in Seq(Clients)
      /\ active = NoJob => Line = << >> /\ Len(Line) = 0
      /\ active # NoJob =>
           /\ Len(Line) = Len(queue) + 1 /\ Line[1] = active
           /\ \A i \in 1..Len(queue) : Line[i + 1] = queue[i]
  BY <1>1, LineFacts
<1>4. Len(Line) \in Nat /\ (active # NoJob => Line # << >>)
  BY <1>2, <1>3, LenProperties, EmptySeq
<1>5. ASSUME NEW c \in Clients
      PROVE  Service!Waits(c) <=> active = c \/ InQueue(c)
  <2>1. CASE active = NoJob
    BY <1>2, <1>3, <2>1, ClientsAssumption DEF Service!Waits, InQueue
  <2>2. CASE active # NoJob
    <3>1. ASSUME NEW i \in 1..Len(Line), Line[i] = c
          PROVE  active = c \/ InQueue(c)
      <4>1. CASE i = 1
        BY <1>3, <2>2, <3>1, <4>1
      <4>2. CASE i # 1
        <5>1. i - 1 \in 1..Len(queue) /\ (i - 1) + 1 = i
          BY <1>2, <1>3, <2>2, <4>2
        <5>2. queue[i - 1] = c
          BY <1>3, <2>2, <3>1, <5>1
        <5>. QED
          BY <5>1, <5>2 DEF InQueue
      <4>. QED
        BY <4>1, <4>2
    <3>2. ASSUME active = c
          PROVE  Service!Waits(c)
      BY <1>2, <1>3, <2>2, <3>2 DEF Service!Waits
    <3>3. ASSUME NEW i \in 1..Len(queue), queue[i] = c
          PROVE  Service!Waits(c)
      <4>1. i + 1 \in 1..Len(Line) /\ Line[i + 1] = c
        BY <1>2, <1>3, <2>2, <3>3
      <4>. QED
        BY <4>1 DEF Service!Waits
    <3>. QED
      BY <3>1, <3>2, <3>3 DEF Service!Waits, InQueue
  <2>. QED
    BY <2>1, <2>2
<1>. QED
  BY <1>2, <1>3, <1>4, <1>5

\* What the service sees of the answers.
LEMMA VerdictNow ==
  ASSUME IndInv, SeenInv
  PROVE  /\ Verdict \in [Clients -> Categories \cup {"none"}]
         /\ Told \in [Clients -> Categories \cup {"none"}]
         /\ \A c \in Clients : done[c] = 0 => Verdict[c] = "none"
         /\ \A c \in Clients : done[c] # 0 => Verdict[c] = result[c] /\ Verdict[c] # "none"
<1>1. /\ done \in [Clients -> Nat] /\ result \in [Clients -> Categories]
      /\ reply \in [Clients -> Categories \cup {"none"}]
  BY DEF IndInv, TypeOK
<1>2. "none" \notin Categories
  BY DEF Categories
<1>3. Told \in [Clients -> Categories \cup {"none"}]
  BY <1>1 DEF Told
<1>4. /\ Verdict \in [Clients -> Categories \cup {"none"}]
      /\ \A c \in Clients : Verdict[c] = IF done[c] > 0 THEN result[c] ELSE "none"
  BY <1>1 DEF Verdict
<1>5. ASSUME NEW c \in Clients
      PROVE  /\ done[c] = 0 => Verdict[c] = "none"
             /\ done[c] # 0 => Verdict[c] = result[c] /\ Verdict[c] # "none"
  <2>1. done[c] # 0 => done[c] > 0
    BY <1>1
  <2>. QED
    BY <1>1, <1>2, <1>4, <2>1
<1>. QED
  BY <1>3, <1>4, <1>5

\* The service has not decided about a job that its handler has not brought to enqueue.
LEMMA UnbornIsNew ==
  ASSUME IndInv, SeenInv, NEW c \in Clients, Unborn(c)
  PROVE  Service!New(c)
<1>1. active # c /\ ~InQueue(c) /\ done[c] = 0
  BY DEF IndInv, JobInv, JobOK, QueueInv, Unborn, Running
<1>2. ~Service!Waits(c)
  BY <1>1, LineNow
<1>3. Told[c] = "none"
  BY DEF Told, SeenInv, SeenOK, Unborn
<1>. QED
  BY <1>1, <1>2, <1>3, VerdictNow DEF Service!New

-----------------------------------------------------------------------------
(* Each step is a step of the service or none. *)

\* Nothing the service speaks of changes.
LEMMA Unseen ==
  ASSUME UNCHANGED <<active, queue, admission, sent, done, result>>, Told' = Told
  PROVE  UNCHANGED Service!promised
BY DEF Service!promised, Line, Doors, exiting, Verdict

LEMMA ToldKept ==
  ASSUME UNCHANGED <<frame, reply>>
  PROVE  Told' = Told
BY DEF Told

\* What a returning handler tells, if it was asked to run a command.
LEMMA ReturnTells ==
  ASSUME IndInv, NEW c \in Clients, NEW category, return(c, category), frame' = frame
  PROVE  Told' = IF frame[c].kind = "request" THEN [Told EXCEPT ![c] = category] ELSE Told
<1>1. reply \in [Clients -> Categories \cup {"none"}] /\ reply' = [reply EXCEPT ![c] = category]
  BY DEF return, IndInv, TypeOK
<1>. QED
  BY <1>1 DEF Told

LEMMA ActiveNotQueued ==
  ASSUME IndInv, active # NoJob
  PROVE  active \in Clients /\ ~InQueue(active)
<1>1. active \in Clients
  BY DEF IndInv, TypeOK
<1>2. worker[active] # "none"
  BY <1>1 DEF IndInv, JobInv, JobOK, Running
<1>. QED
  BY <1>1, <1>2 DEF IndInv, QueueInv

\* The queue is turned away, and the active job is kept or answered.
LEMMA Closes ==
  ASSUME IndInv, IndInv', SeenInv, SeenInv',
         admission' = "ended", UNCHANGED <<sent, frame, reply>>,
         Len(queue') = 0, active' \in {active, NoJob},
         \A c \in Clients :
           /\ InQueue(c) => Verdict'[c] = "not-started"
           /\ ~InQueue(c) /\ c # active => Verdict'[c] = Verdict[c]
           /\ c = active => IF active' = NoJob THEN Verdict'[c] \in Service!Outcomes(c)
                            ELSE Verdict'[c] = Verdict[c]
  PROVE  Service!Close
<1>. DEFINE kept == IF active' = NoJob THEN 0 ELSE 1
<1>1. /\ Line \in Seq(Clients) /\ Len(Line) \in Nat /\ (active = NoJob => Len(Line) = 0)
      /\ (active # NoJob => Len(Line) = Len(queue) + 1 /\ Line[1] = active /\ Len(queue) \in Nat)
      /\ \A c \in Clients : Service!Waits(c) <=> active = c \/ InQueue(c)
  BY LineNow
<1>2. /\ active' \in Clients \cup {NoJob} /\ queue' \in Seq(Clients)
      /\ Line' = LineOf(active', queue')
  BY DEF IndInv, TypeOK, Line, LineOf
<1>3. kept \in 0..1 /\ kept <= Len(Line)
  BY <1>1
<1>4. Line' = SubSeq(Line, 1, kept)
  <2>1. CASE active' = NoJob
    <3>1. Line' = << >>
      BY <1>2, <2>1, LineFacts
    <3>. QED
      BY <2>1, <3>1, SubSeqEmpty
  <2>2. CASE active' # NoJob
    <3>1. active' = active /\ active # NoJob /\ kept = 1 /\ 1 \in 1..Len(Line)
      BY <1>1, <2>2
    <3>2. Line' \in Seq(Clients) /\ Len(Line') = 1 /\ Line'[1] = active
      <4>1. active' # NoJob /\ Len(queue') = 0
        BY <2>2
      <4>2. /\ Line' \in Seq(Clients) /\ Len(Line') = Len(queue') + 1 /\ Line'[1] = active'
        BY <1>2, <4>1, LineFacts
      <4>. QED
        BY <3>1, <4>1, <4>2
    <3>3. \A i \in 1..1 : Line[i] \in Clients
      BY <1>1, <3>1, ElementOfSeq
    <3>4. /\ SubSeq(Line, 1, 1) \in Seq(Clients) /\ Len(SubSeq(Line, 1, 1)) = 1
          /\ SubSeq(Line, 1, 1)[1] = Line[1]
      BY <3>3, SubSeqProperties
    <3>5. \A i \in 1..1 : Line'[i] = SubSeq(Line, 1, 1)[i]
      BY <1>1, <3>1, <3>2, <3>4
    <3>6. Line' = SubSeq(Line, 1, 1)
      BY <3>2, <3>4, <3>5, SeqEqual
    <3>. QED
      BY <3>1, <3>6
  <2>. QED
    BY <2>1, <2>2
<1>5. ASSUME NEW c \in Clients
      PROVE  IF ~Service!Waits(c) THEN Verdict'[c] = Verdict[c]
             ELSE IF c # Line[1] THEN Verdict'[c] = "not-started"
             ELSE IF kept = 0 THEN Verdict'[c] \in Service!Outcomes(c)
             ELSE Verdict'[c] = Verdict[c]
  <2>1. Service!Waits(c) => active # NoJob
    BY <1>1, ClientsAssumption DEF IndInv, QueueInv, InQueue
  <2>2. active # NoJob => ~InQueue(active)
    BY ActiveNotQueued
  <2>. QED
    BY <1>1, <2>1, <2>2
<1>6. Verdict' \in [Clients -> Service!Words \cup {"none"}]
  <2>1. \A c \in Clients : Verdict'[c] \in Categories \cup {"none"}
    BY DEF IndInv, TypeOK, Verdict
  <2>. QED
    BY <2>1 DEF Verdict, Categories, Service!Words, Service!Spared, Service!Touched, Service!GivenUp
<1>7. Doors' = "closed" /\ Told' = Told /\ sent' = sent
  BY ToldKept DEF Doors, exiting
<1>. HIDE DEF kept
<1>. QED
  BY <1>3, <1>4, <1>5, <1>6, <1>7 DEF Service!Close

\* rejectQueueLocked answers those that wait, and nobody else.
LEMMA RejectShows ==
  ASSUME IndInv, rejectQueueLocked(done, result)
  PROVE  /\ Len(queue') = 0
         /\ \A c \in Clients :
              /\ InQueue(c) => Verdict'[c] = "not-started"
              /\ ~InQueue(c) => Verdict'[c] = Verdict[c]
<1>1. /\ Len(queue') = 0
      /\ \A c \in Clients :
           /\ done'[c] = IF InQueue(c) THEN done[c] + 1 ELSE done[c]
           /\ result'[c] = IF InQueue(c) THEN "not-started" ELSE result[c]
  BY RejectFacts DEF IndInv
<1>2. \A c \in Clients : InQueue(c) => done[c] = 0
  BY DEF IndInv, QueueInv
<1>3. ASSUME NEW c \in Clients, InQueue(c)
      PROVE  Verdict'[c] = "not-started"
  <2>1. done'[c] = 0 + 1
    BY <1>1, <1>2, <1>3
  <2>. QED
    BY <1>1, <1>3, <2>1 DEF Verdict
<1>4. ASSUME NEW c \in Clients, ~InQueue(c)
      PROVE  Verdict'[c] = Verdict[c]
  BY <1>1, <1>4 DEF Verdict
<1>. QED
  BY <1>1, <1>3, <1>4

\* The sections of an exit, a failed heartbeat, an interrupt and a failed Accept.
LEMMA RejectCloses ==
  ASSUME IndInv, IndInv', SeenInv, SeenInv', rejectQueueLocked(done, result),
         admission' = "ended", UNCHANGED <<active, sent, frame, reply>>
  PROVE  Service!Close
<1>1. ~InQueue(active) \/ active = NoJob
  BY ActiveNotQueued
<1>2. active' = NoJob => \A c \in Clients : c # active
  BY ClientsAssumption
<1>3. Len(queue') = 0
  BY RejectShows
<1>4. \A c \in Clients :
        /\ InQueue(c) => Verdict'[c] = "not-started"
        /\ ~InQueue(c) /\ c # active => Verdict'[c] = Verdict[c]
        /\ c = active => IF active' = NoJob THEN Verdict'[c] \in Service!Outcomes(c)
                         ELSE Verdict'[c] = Verdict[c]
  BY <1>1, <1>2, RejectShows
<1>. QED
  BY <1>3, <1>4, Closes

\* A request is turned down before it got into the line.
LEMMA Refuses ==
  ASSUME IndInv, SeenInv, NEW c \in Clients, Unborn(c), frame[c].kind = "request",
         NEW category \in Service!Spared \cup {"persist-mismatch", "queue-full"},
         return(c, category), UNCHANGED <<active, queue, admission, sent, done, result, frame>>,
         category = "queue-full" => ~exiting /\ Len(Line) > MaxQueue,
         category \in {"not-started", "unavailable"} => exiting
  PROVE  Service!Refuse(c)
<1>1. Service!New(c)
  BY UnbornIsNew
<1>2. Told' = [Told EXCEPT ![c] = category]
  BY ReturnTells
<1>3. UNCHANGED <<Line, Doors, sent, Verdict>>
  BY DEF Line, Doors, exiting, Verdict
<1>4. /\ category = "queue-full" => Doors = "open" /\ Len(Line) > MaxQueue
      /\ category \in {"not-started", "unavailable"} => Doors = "closed"
  BY DEF Doors
<1>. QED
  BY <1>1, <1>2, <1>3, <1>4 DEF Service!Refuse

LEMMA CheckShows ==
  ASSUME IndInv, SeenInv, NEW c \in Clients, check(c)
  PROVE  Service!Refuse(c) \/ UNCHANGED Service!promised
<1>1. UNCHANGED <<active, queue, admission, sent, done, result, frame>>
  BY DEF check, serverVars, doneVars, runVars
<1>2. Unborn(c)
  BY DEF check, Unborn
<1>3. ASSUME frame[c].kind = "request", NEW category \in {"timeout", checkTarget(frame[c])} \ {"ok"},
             return(c, category)
      PROVE  Service!Refuse(c)
  <2>1. /\ category \in Service!Spared \cup {"persist-mismatch"}
        /\ category \in {"not-started", "unavailable"} => exiting
    BY <1>3 DEF checkTarget, Service!Spared, Service!GivenUp
  <2>2. category # "queue-full"
    BY <2>1 DEF Service!Spared, Service!GivenUp
  <2>. QED
    BY <1>1, <1>2, <1>3, <2>1, <2>2, Refuses
<1>4. ASSUME frame[c].kind # "request", NEW category, return(c, category)
      PROVE  UNCHANGED Service!promised
  <2>1. Told' = Told
    BY <1>1, <1>4, ReturnTells
  <2>. QED
    BY <1>1, <2>1, Unseen
<1>5. ASSUME reply' = reply
      PROVE  UNCHANGED Service!promised
  BY <1>1, <1>5, Unseen, ToldKept
<1>6. \/ \E category \in {"timeout", checkTarget(frame[c])} \ {"ok"} : return(c, category)
      \/ frame[c].kind = "check" /\ \E category : return(c, category)
      \/ reply' = reply
  <2>1. \/ return(c, checkTarget(frame[c])) /\ (checkTarget(frame[c]) # "ok" \/ frame[c].kind = "check")
        \/ return(c, "timeout")
        \/ reply' = reply
    BY DEF check
  <2>. QED
    BY <2>1
<1>. QED
  BY <1>3, <1>4, <1>5, <1>6

LEMMA RefusesShows ==
  ASSUME IndInv, SeenInv, NEW c \in Clients, enqueueRefuses(c)
  PROVE  Service!Refuse(c)
<1>1. /\ Unborn(c) /\ frame[c].kind = "request" /\ jctx[c] # "none"
      /\ UNCHANGED <<active, queue, admission, sent, done, result, frame>>
  BY DEF enqueueRefuses, Unborn, SeenInv, SeenOK, AsksForJob, doneVars, runVars
<1>2. CASE exiting /\ return(c, "not-started")
  BY <1>1, <1>2, Refuses DEF Service!Spared
<1>3. CASE jctx[c] # "live" /\ return(c, CtxCategory(c))
  <2>1. CtxCategory(c) \in Service!GivenUp
    BY <1>1, <1>3, CtxFacts DEF IndInv
  <2>2. CtxCategory(c) \in Service!Spared /\ CtxCategory(c) \notin {"queue-full", "not-started", "unavailable"}
    BY <2>1 DEF Service!Spared, Service!GivenUp
  <2>. QED
    BY <1>1, <1>3, <2>2, Refuses
<1>4. CASE admissible(c) /\ active # NoJob /\ queueFull /\ return(c, "queue-full")
  <2>1. ~exiting /\ Len(Line) > MaxQueue
    BY <1>4, LineNow, QueueAssumption DEF admissible, queueFull
  <2>. QED
    BY <1>1, <1>4, <2>1, Refuses
<1>. QED
  BY <1>2, <1>3, <1>4 DEF enqueueRefuses

\* A request that is accepted takes the last place.
LEMMA AcceptShows ==
  ASSUME IndInv, IndInv', SeenInv, NEW c \in Clients, enqueueAccepts(c)
  PROVE  Service!Admit(c)
<1>1. Service!New(c) /\ Doors = "open"
  BY UnbornIsNew DEF enqueueAccepts, admissible, Unborn, Doors
<1>2. UNCHANGED <<Doors, sent, Verdict, Told>>
  BY DEF enqueueAccepts, Doors, exiting, Verdict, Told, doneVars
<1>3. /\ Line \in Seq(Clients) /\ Len(Line) \in Nat /\ Len(queue) \in Nat /\ queue \in Seq(Clients)
      /\ active = NoJob => Len(Line) = 0 /\ Len(queue) = 0
      /\ active # NoJob =>
           /\ Len(Line) = Len(queue) + 1 /\ Line[1] = active
           /\ \A i \in 1..Len(queue) : Line[i + 1] = queue[i]
  BY LineNow DEF IndInv, TypeOK
<1>4. Len(Line) <= MaxQueue
  BY <1>3, QueueAssumption DEF enqueueAccepts, queueFull
<1>5. /\ active' \in Clients /\ active' # NoJob /\ queue' \in Seq(Clients)
      /\ \/ active = NoJob /\ active' = c /\ queue' = queue
         \/ active # NoJob /\ active' = active /\ queue' = Append(queue, c)
  BY ClientsAssumption DEF enqueueAccepts, startJob, appendJob, IndInv, TypeOK
<1>6. /\ Line' \in Seq(Clients) /\ Len(Line') = Len(queue') + 1 /\ Line'[1] = active'
      /\ \A i \in 1..Len(queue') : Line'[i + 1] = queue'[i]
  <2>1. Line' = LineOf(active', queue')
    BY DEF Line, LineOf
  <2>2. active' \in Clients \cup {NoJob} /\ active' # NoJob /\ queue' \in Seq(Clients)
    BY <1>5
  <2>. QED
    BY <2>1, <2>2, LineFacts
<1>7. /\ Append(Line, c) \in Seq(Clients) /\ Len(Append(Line, c)) = Len(Line) + 1
      /\ \A i \in 1..Len(Line) : Append(Line, c)[i] = Line[i]
      /\ Append(Line, c)[Len(Line) + 1] = c
  BY <1>3, AppendProperties
<1>8. Len(Line') = Len(Line) + 1 /\ \A i \in 1..Len(Line') : Line'[i] = Append(Line, c)[i]
  <2>1. CASE active = NoJob
    BY <1>3, <1>5, <1>6, <1>7, <2>1
  <2>2. CASE active # NoJob
    <3>1. /\ Len(queue') = Len(queue) + 1 /\ queue'[Len(queue) + 1] = c
          /\ \A i \in 1..Len(queue) : queue'[i] = queue[i]
      <4>1. queue \in Seq(Clients) /\ queue' = Append(queue, c)
        BY <1>3, <1>5, <2>2
      <4>. QED
        BY <4>1, AppendProperties
    <3>2. Line'[1] = Append(Line, c)[1]
      BY <1>3, <1>5, <1>6, <1>7, <2>2
    <3>3. ASSUME NEW j \in 1..Len(queue')
          PROVE  Line'[j + 1] = Append(Line, c)[j + 1]
      <4>1. CASE j \in 1..Len(queue)
        <5>1. j + 1 \in 1..Len(Line) /\ Line[j + 1] = queue[j]
          BY <1>3, <2>2, <4>1
        <5>2. Line'[j + 1] = queue[j]
          BY <1>6, <3>1, <4>1
        <5>. QED
          BY <1>7, <5>1, <5>2
      <4>2. CASE j = Len(queue) + 1
        BY <1>3, <1>6, <1>7, <2>2, <3>1, <4>2
      <4>3. Len(queue') = Len(queue) + 1 /\ Len(queue) \in Nat
        BY <1>3, <3>1
      <4>4. j \in 1..Len(queue) \/ j = Len(queue) + 1
        BY <4>3
      <4>. QED
        BY <4>1, <4>2, <4>4
    <3>4. ASSUME NEW i \in 1..Len(Line'), i # 1
          PROVE  Line'[i] = Append(Line, c)[i]
      <4>1. i - 1 \in 1..Len(queue') /\ (i - 1) + 1 = i
        BY <1>3, <1>6, <3>1, <3>4
      <4>. QED
        BY <3>3, <4>1
    <3>. QED
      BY <1>3, <1>6, <2>2, <3>1, <3>2, <3>4
  <2>. QED
    BY <2>1, <2>2
<1>9. Line' = Append(Line, c)
  BY <1>6, <1>7, <1>8, SeqEqual
<1>. QED
  BY <1>1, <1>2, <1>4, <1>9 DEF Service!Admit

\* A job that is answered while it waits leaves the line where it stands.
LEMMA CancelShows ==
  ASSUME IndInv, IndInv', SeenInv, NEW c \in Clients, cancelQueued(c)
  PROVE  (\E i \in 1..Len(Line) : Service!Withdraw(i)) \/ UNCHANGED Service!promised
<1>1. UNCHANGED <<active, admission, sent>> /\ Told' = Told
  BY ToldKept DEF cancelQueued, runVars
<1>2. CASE UNCHANGED <<queue, result, done>>
  BY <1>1, <1>2, Unseen
<1>3. ASSUME NEW i \in 1..Len(queue), queue[i] = c, queue' = Without(queue, i),
             result' = Answer(result, {c}, CtxCategory(c)), done' = Close(done, {c})
      PROVE  Service!Withdraw(i + 1) /\ i + 1 \in 1..Len(Line)
  <2>1. InQueue(c)
    BY <1>3 DEF InQueue
  <2>2. active # NoJob /\ done[c] = 0
    BY <1>3, <2>1 DEF IndInv, QueueInv, TypeOK
  <2>3. /\ Line \in Seq(Clients) /\ Len(Line) = Len(queue) + 1 /\ Len(queue) \in Nat
        /\ Line[1] = active /\ \A j \in 1..Len(queue) : Line[j + 1] = queue[j]
    BY <2>2, LineNow
  <2>4. i + 1 \in 2..Len(Line) /\ i + 1 \in 1..Len(Line) /\ Line[i + 1] = c
    BY <1>3, <2>3
  <2>5. jctx[c] \notin {"none", "live"}
    BY <2>1, RunningFacts DEF cancelQueued
  <2>6. CtxCategory(c) \in Service!GivenUp
    BY <2>5, CtxFacts DEF IndInv
  <2>7. Verdict' = [Verdict EXCEPT ![c] = CtxCategory(c)]
    <3>1. done'[c] = 0 + 1 /\ result'[c] = CtxCategory(c)
      BY <1>3, <2>2 DEF Close, Answer
    <3>2. \A x \in Clients \ {c} : done'[x] = done[x] /\ result'[x] = result[x]
      BY <1>3 DEF Close, Answer
    <3>3. Verdict'[c] = CtxCategory(c)
      BY <3>1 DEF Verdict
    <3>4. \A x \in Clients \ {c} : Verdict'[x] = Verdict[x]
      BY <3>2 DEF Verdict
    <3>5. Verdict' = [x \in Clients |-> Verdict'[x]] /\ Verdict = [x \in Clients |-> Verdict[x]]
      BY DEF Verdict
    <3>. QED
      BY <3>3, <3>4, <3>5
  <2>8. /\ queue' \in Seq(Clients) /\ Len(queue') = Len(queue) - 1
        /\ \A j \in 1..(Len(queue) - 1) : queue'[j] = IF j < i THEN queue[j] ELSE queue[j + 1]
    BY <1>3, WithoutFacts DEF IndInv, TypeOK
  <2>9. /\ Without(Line, i + 1) \in Seq(Clients) /\ Len(Without(Line, i + 1)) = Len(Line) - 1
        /\ \A j \in 1..(Len(Line) - 1) :
             Without(Line, i + 1)[j] = IF j < i + 1 THEN Line[j] ELSE Line[j + 1]
    BY <2>3, <2>4, WithoutFacts
  <2>10. /\ Line' \in Seq(Clients) /\ Len(Line') = Len(queue') + 1 /\ Line'[1] = active
         /\ \A j \in 1..Len(queue') : Line'[j + 1] = queue'[j]
    <3>1. Line' = LineOf(active', queue') /\ active' \in Clients \cup {NoJob} /\ active' # NoJob
      BY <1>1, <2>2 DEF Line, LineOf, IndInv, TypeOK
    <3>. QED
      BY <1>1, <2>8, <3>1, LineFacts
  <2>11. ASSUME NEW j \in 1..Len(Line')
         PROVE  Line'[j] = Without(Line, i + 1)[j]
    <3>1. CASE j = 1
      <4>1. 1 < i + 1 /\ 1 \in 1..(Len(Line) - 1)
        BY <1>3, <2>3
      <4>. QED
        BY <2>3, <2>9, <2>10, <3>1, <4>1
    <3>2. CASE j # 1
      <4>1. j - 1 \in 1..(Len(queue) - 1) /\ (j - 1) + 1 = j /\ j \in 1..(Len(Line) - 1) /\ j \in 1..Len(queue)
        BY <2>3, <2>8, <2>10, <3>2
      <4>2. Line'[j] = IF j - 1 < i THEN queue[j - 1] ELSE queue[(j - 1) + 1]
        BY <2>8, <2>10, <4>1
      <4>3. Line[(j - 1) + 1] = queue[j - 1] /\ Line[j + 1] = queue[j]
        BY <2>3, <4>1
      <4>4. j < i + 1 <=> j - 1 < i
        BY <4>1
      <4>. QED
        BY <2>9, <4>1, <4>2, <4>3, <4>4
    <3>. QED
      BY <3>1, <3>2
  <2>12. Line' = Without(Line, i + 1)
    BY <2>3, <2>8, <2>9, <2>10, <2>11, SeqEqual
  <2>13. Doors' = Doors
    BY <1>1 DEF Doors, exiting
  <2>. QED
    BY <1>1, <2>4, <2>6, <2>7, <2>12, <2>13 DEF Service!Withdraw, Without
<1>4. \/ UNCHANGED <<queue, result, done>>
      \/ \E i \in 1..Len(queue) :
           /\ queue[i] = c /\ queue' = Without(queue, i)
           /\ result' = Answer(result, {c}, CtxCategory(c)) /\ done' = Close(done, {c})
  BY DEF cancelQueued
<1>. QED
  BY <1>2, <1>3, <1>4

LEMMA TellShows ==
  ASSUME IndInv, SeenInv, NEW c \in Clients, jobAnswers(c)
  PROVE  Service!Tell(c)
<1>1. /\ frame[c].kind = "request" /\ reply[c] = "none" /\ done[c] > 0 /\ frame' = frame
      /\ return(c, result[c])
      /\ UNCHANGED <<active, queue, admission, sent, done, result>>
  BY DEF jobAnswers, SeenInv, SeenOK, AsksForJob, serverVars, doneVars, runVars
<1>2. Told[c] = "none" /\ Verdict[c] = result[c] /\ Verdict[c] # "none"
  BY <1>1, VerdictNow DEF Told
<1>3. Told' = [Told EXCEPT ![c] = Verdict[c]]
  BY <1>1, <1>2, ReturnTells
<1>4. UNCHANGED <<Line, Doors, sent, Verdict>>
  BY <1>1 DEF Line, Doors, exiting, Verdict
<1>. QED
  BY <1>2, <1>3, <1>4 DEF Service!Tell

LEMMA SendShows ==
  ASSUME IndInv, NEW c \in Clients, executeSends(c)
  PROVE  Service!Reach
<1>1. active = c /\ active # NoJob
  BY ClientsAssumption DEF executeSends, IndInv, JobInv, JobOK, Running
<1>2. Line # << >> /\ Head(Line) = c
  BY <1>1, LineNow DEF Head
<1>3. UNCHANGED <<Line, Doors, Verdict, Told>> /\ sent' = sent \cup {c}
  BY DEF executeSends, Line, Doors, exiting, Verdict, Told, serverVars, handlerVars
<1>. QED
  BY <1>2, <1>3 DEF Service!Reach

\* The last section of a worker that ends the master.
LEMMA StopShows ==
  ASSUME IndInv, IndInv', SeenInv, SeenInv', LocalInv, NEW c \in Clients, runStops(c)
  PROVE  Service!Close
<1>1. /\ active = c /\ Len(queue') = 0 /\ ~InQueue(c)
      /\ \A x \in Clients :
           /\ done'[x] = IF x = c \/ InQueue(x) THEN 1 ELSE done[x]
           /\ result'[x] = IF InQueue(x) THEN "not-started"
                           ELSE IF x = c THEN local[c] ELSE result[x]
  BY StopFacts DEF IndInv
<1>2. active' = NoJob /\ UNCHANGED <<sent, frame, reply>> /\ admission' = "ended"
  BY DEF runStops, shutdownLocked, handlerVars
<1>3. local[c] \in Service!Outcomes(c)
  BY DEF runStops, LocalInv, LocalOK, Service!Outcomes, Service!Harmless, Service!Spared,
     Service!Touched, Service!GivenUp
<1>4. \A x \in Clients :
        /\ InQueue(x) => Verdict'[x] = "not-started"
        /\ ~InQueue(x) /\ x # active => Verdict'[x] = Verdict[x]
        /\ x = active => Verdict'[x] = local[c]
  BY <1>1 DEF Verdict
<1>. QED
  BY <1>1, <1>2, <1>3, <1>4, Closes

\* The last section of a worker that lets the master go on: the first of the line and
\* those given up behind it are answered, and the next one is first.
LEMMA ContinueShows ==
  ASSUME IndInv, IndInv', SeenInv, SeenInv', LocalInv, NEW c \in Clients, runContinues(c)
  PROVE  \E k \in 0..Len(Line) : Service!Proceed(k)
<1>1. active = c /\ active # NoJob /\ done[c] = 0 /\ ~InQueue(c) /\ local[c] \in Service!Harmless(c)
  <2>1. active = c /\ done[c] = 0 /\ ~InQueue(c)
    BY ContinueFacts DEF IndInv
  <2>. QED
    BY <2>1, ClientsAssumption DEF runContinues, LocalInv, LocalOK
<1>2. /\ UNCHANGED <<Doors, sent, Told>> /\ Doors = "open"
  BY DEF runContinues, Doors, exiting, Told, handlerVars
<1>3. PICK k \in 0..Len(queue) :
        /\ \A i \in 1..k : jctx[queue[i]] # "live"
        /\ done' = Close(Close(done, {c}), {queue[i] : i \in 1..k})
        /\ result' = [d \in Clients |-> IF d \in {queue[i] : i \in 1..k} THEN CtxCategory(d)
                                        ELSE Answer(result, {c}, local[c])[d]]
        /\ \/ /\ k < Len(queue) /\ active' = queue[k + 1]
              /\ queue' = SubSeq(queue, k + 2, Len(queue))
           \/ k = Len(queue) /\ active' = NoJob /\ queue' = << >>
  BY DEF runContinues
<1>. DEFINE S == {queue[i] : i \in 1..k}
<1>4. /\ Line \in Seq(Clients) /\ Len(Line) = Len(queue) + 1 /\ Len(queue) \in Nat
      /\ queue \in Seq(Clients) /\ Line[1] = c /\ \A j \in 1..Len(queue) : Line[j + 1] = queue[j]
  BY <1>1, LineNow DEF IndInv, TypeOK
<1>5. k \in 0..Len(Line) /\ k < Len(Line)
  BY <1>4
<1>6. ASSUME NEW x \in S
      PROVE  x \in Clients /\ InQueue(x) /\ done[x] = 0 /\ x # c /\ jctx[x] \notin {"none", "live"}
  <2>1. PICK i \in 1..k : x = queue[i]
    OBVIOUS
  <2>2. i \in 1..Len(queue)
    BY <1>4
  <2>3. x \in Clients /\ InQueue(x)
    BY <1>4, <2>1, <2>2, ElementOfSeq DEF InQueue
  <2>. QED
    BY <1>1, <1>3, <2>1, <2>3, RunningFacts DEF IndInv, QueueInv
<1>7. \A x : x \in S <=> \E i \in 2..k + 1 : Line[i] = x
  <2>1. ASSUME NEW i \in 1..k
        PROVE  i + 1 \in 2..k + 1 /\ Line[i + 1] = queue[i]
    BY <1>4
  <2>2. ASSUME NEW i \in 2..k + 1
        PROVE  i - 1 \in 1..k /\ Line[i] = queue[i - 1]
    <3>1. i - 1 \in 1..k /\ i - 1 \in 1..Len(queue) /\ (i - 1) + 1 = i
      BY <1>4
    <3>. QED
      BY <1>4, <3>1
  <2>. QED
    BY <2>1, <2>2
<1>8. \A x \in Clients :
        /\ x \in S => done'[x] = 0 + 1 /\ result'[x] = CtxCategory(x)
        /\ x = c /\ x \notin S => done'[x] = 0 + 1 /\ result'[x] = local[c]
        /\ x # c /\ x \notin S => done'[x] = done[x] /\ result'[x] = result[x]
  BY <1>1, <1>3, <1>6 DEF Close, Answer
<1>9. ASSUME NEW x \in S
      PROVE  CtxCategory(x) \in Service!GivenUp
  BY <1>6, CtxFacts DEF IndInv
<1>. HIDE DEF S
<1>10. ASSUME NEW x \in Clients
       PROVE  IF x = Line[1] THEN Verdict'[x] \in Service!Harmless(x)
              ELSE IF \E i \in 2..k + 1 : Line[i] = x THEN Verdict'[x] \in Service!GivenUp
              ELSE Verdict'[x] = Verdict[x]
  <2>1. Verdict'[x] = IF done'[x] > 0 THEN result'[x] ELSE "none"
    BY DEF Verdict
  <2>2. Verdict[x] = IF done[x] > 0 THEN result[x] ELSE "none"
    BY DEF Verdict
  <2>3. CASE x = c
    <3>1. x \notin S /\ Verdict'[x] = local[c]
      BY <1>6, <1>8, <2>1, <2>3
    <3>. QED
      BY <1>1, <1>4, <2>3, <3>1
  <2>4. CASE x \in S
    <3>1. Verdict'[x] = CtxCategory(x) /\ x # c
      BY <1>6, <1>8, <2>1, <2>4
    <3>. QED
      BY <1>4, <1>7, <1>9, <2>4, <3>1
  <2>5. CASE x # c /\ x \notin S
    BY <1>4, <1>7, <1>8, <2>1, <2>2, <2>5
  <2>. QED
    BY <2>3, <2>4, <2>5
<1>11. Verdict' \in [Clients -> Service!Words \cup {"none"}]
  <2>1. \A x \in Clients : Verdict'[x] \in Categories \cup {"none"}
    BY DEF IndInv, TypeOK, Verdict
  <2>. QED
    BY <2>1 DEF Verdict, Categories, Service!Words, Service!Spared, Service!Touched, Service!GivenUp
<1>12. Line' = SubSeq(Line, k + 2, Len(Line))
  <2>0. Line' = LineOf(active', queue') /\ active' \in Clients \cup {NoJob} /\ queue' \in Seq(Clients)
    BY DEF Line, LineOf, IndInv, TypeOK
  <2>1. CASE k = Len(queue) /\ active' = NoJob
    <3>1. Line' = << >>
      BY <2>0, <2>1, LineFacts
    <3>2. SubSeq(Line, k + 2, Len(Line)) = << >>
      BY <1>4, <2>1, SubSeqEmpty
    <3>. QED
      BY <3>1, <3>2
  <2>2. CASE k < Len(queue) /\ active' = queue[k + 1] /\ queue' = SubSeq(queue, k + 2, Len(queue))
    <3>1. k + 1 \in 1..Len(queue)
      BY <1>4, <2>2
    <3>2. active' \in Clients /\ active' # NoJob
      BY <1>4, <2>2, <3>1, ElementOfSeq, ClientsAssumption
    <3>3. /\ Len(queue') = Len(queue) - k - 1
          /\ \A j \in 1..(Len(queue) - k - 1) : queue'[j] = queue[j + k + 1]
      BY <1>4, <2>2, DropFacts
    <3>4. /\ Line' \in Seq(Clients) /\ Len(Line') = Len(queue') + 1 /\ Line'[1] = active'
          /\ \A j \in 1..Len(queue') : Line'[j + 1] = queue'[j]
      BY <2>0, <3>2, LineFacts
    <3>. DEFINE t == SubSeq(Line, k + 2, Len(Line))
    <3>5. /\ t \in Seq(Clients) /\ Len(t) = Len(Line) - k - 1
          /\ \A j \in 1..(Len(Line) - k - 1) : t[j] = Line[j + k + 1]
      BY <1>4, <1>5, DropFacts
    <3>. HIDE DEF t
    <3>6. ASSUME NEW j \in 1..Len(Line')
          PROVE  Line'[j] = t[j]
      <4>1. j \in 1..(Len(Line) - k - 1) /\ t[j] = Line[j + k + 1]
        BY <1>4, <3>3, <3>4, <3>5
      <4>2. CASE j = 1
        <5>1. t[1] = Line[(k + 1) + 1] /\ Line'[1] = queue[k + 1]
          <6>1. 1 + k + 1 = (k + 1) + 1
            BY <1>4
          <6>. QED
            BY <2>2, <3>4, <4>1, <4>2, <6>1
        <5>2. Line[(k + 1) + 1] = queue[k + 1]
          BY <1>4, <3>1
        <5>. QED
          BY <4>2, <5>1, <5>2
      <4>3. CASE j # 1
        <5>1. j - 1 \in 1..Len(queue') /\ (j - 1) + 1 = j /\ j + k \in 1..Len(queue)
              /\ (j - 1) + k + 1 = j + k /\ j - 1 \in 1..(Len(queue) - k - 1)
          BY <1>4, <3>3, <3>4, <4>3
        <5>2. Line'[j] = queue[j + k]
          BY <3>3, <3>4, <5>1
        <5>3. Line[j + k + 1] = queue[j + k]
          BY <1>4, <5>1
        <5>. QED
          BY <4>1, <5>2, <5>3
      <4>. QED
        BY <4>2, <4>3
    <3>7. Len(Line') = Len(t)
      BY <1>4, <3>3, <3>4, <3>5
    <3>8. Line' = t
      BY <3>4, <3>5, <3>6, <3>7, SeqEqual
    <3>. QED
      BY <3>8 DEF t
  <2>. QED
    BY <1>3, <2>1, <2>2
<1>13. Service!Proceed(k)
  BY <1>2, <1>5, <1>10, <1>11, <1>12 DEF Service!Proceed
<1>. QED
  BY <1>5, <1>13

-----------------------------------------------------------------------------
(* The theorem. *)

LEMMA ServiceStep ==
  ASSUME IndInv, IndInv', SeenInv, SeenInv', LocalInv, [Next]_vars
  PROVE  [Service!Next]_Service!promised
<1>1. CASE timerNext
  <2>1. CASE IdleFires
    BY <2>1, Unseen, ToldKept DEF IdleFires, handlerVars, jobVars, doneVars, runVars
  <2>2. CASE stopIfIdle
    <3>1. UNCHANGED <<active, queue, sent, done, result, frame, reply>>
      BY <2>2 DEF stopIfIdle, handlerVars, jobVars, doneVars, runVars
    <3>2. CASE admission' = admission
      BY <3>1, <3>2, Unseen, ToldKept
    <3>3. CASE active = NoJob /\ queue = << >> /\ admission' = "ended"
      <4>1. Len(queue') = 0 /\ \A c \in Clients : ~InQueue(c) /\ c # active
        BY <3>1, <3>3, EmptySeq, ClientsAssumption DEF InQueue
      <4>2. Verdict' = Verdict
        BY <3>1 DEF Verdict
      <4>3. Service!Close
        BY <3>1, <3>3, <4>1, <4>2, Closes
      <4>. QED
        BY <4>3 DEF Service!Next
    <3>. QED
      BY <2>2, <3>2, <3>3 DEF stopIfIdle, shutdownLocked
  <2>. QED
    BY <1>1, <2>1, <2>2 DEF timerNext
<1>2. CASE serveNext
  <2>1. CASE ctxStop \/ AcceptFails
    <3>1. /\ rejectQueueLocked(done, result) /\ admission' = "ended"
          /\ UNCHANGED <<active, sent, frame, reply>>
      BY <2>1 DEF ctxStop, AcceptFails, abandon, shutdownLocked, handlerVars, runVars
    <3>2. Service!Close
      BY <3>1, RejectCloses
    <3>. QED
      BY <3>2 DEF Service!Next
  <2>2. CASE Interrupt \/ ServeWaits \/ Returned
    BY <2>2, Unseen, ToldKept DEF Interrupt, ServeWaits, Returned, vars, serverVars, handlerVars,
       jobVars, doneVars, runVars
  <2>. QED
    BY <1>2, <2>1, <2>2 DEF serveNext
<1>3. CASE beatNext
  <2>1. CASE beatFails
    <3>1. /\ rejectQueueLocked(done, result) /\ admission' = "ended"
          /\ UNCHANGED <<active, sent, frame, reply>>
      BY <2>1 DEF beatFails, beginExit, shutdownLocked, handlerVars, runVars
    <3>2. Service!Close
      BY <3>1, RejectCloses
    <3>. QED
      BY <3>2 DEF Service!Next
  <2>2. CASE beatWatch \/ beatTick \/ beatReturns \/ beatPong
    BY <2>2, Unseen, ToldKept DEF beatWatch, beatTick, beatReturns, beatPong, serverVars, handlerVars,
       jobVars, doneVars, runVars
  <2>. QED
    BY <1>3, <2>1, <2>2 DEF beatNext
<1>4. ASSUME NEW c \in Clients, handlerNext(c)
      PROVE  [Service!Next]_Service!promised
  <2>1. CASE Accept(c) \/ jobCtxEnds(c)
    BY <2>1, Unseen, ToldKept DEF Accept, jobCtxEnds, serverVars, handlerVars, jobVars, doneVars, runVars
  <2>2. CASE readFrame(c)
    <3>1. UNCHANGED <<active, queue, admission, sent, done, result>>
      BY <2>2 DEF readFrame, serverVars, doneVars, runVars
    <3>2. frame[c] = NoFrame /\ handler[c] = "read" /\ reply[c] = "none"
      BY <2>2 DEF readFrame, SeenInv, SeenOK
    <3>3. Told' = Told
      <4>1. CASE (\E category : return(c, category)) /\ frame' = frame
        BY <3>2, <4>1, ReturnTells DEF NoFrame
      <4>2. CASE (\E f \in Frames : frame' = [frame EXCEPT ![c] = f]) /\ reply' = reply
        <5>1. \A d \in Clients \ {c} : frame'[d] = frame[d]
          BY <4>2
        <5>2. \A d \in Clients : reply'[d] = reply[d]
          BY <4>2
        <5>. QED
          BY <3>2, <5>1, <5>2 DEF Told, NoFrame
      <4>. QED
        BY <2>2, <4>1, <4>2 DEF readFrame
    <3>. QED
      BY <3>1, <3>3, Unseen
  <2>3. CASE check(c)
    BY <2>3, CheckShows DEF Service!Next
  <2>4. CASE exitSection(c)
    <3>1. /\ rejectQueueLocked(done, result) /\ admission' = "ended"
          /\ UNCHANGED <<active, sent, frame, reply>>
      BY <2>4 DEF exitSection, beginExit, shutdownLocked, runVars
    <3>2. Service!Close
      BY <3>1, RejectCloses
    <3>. QED
      BY <3>2 DEF Service!Next
  <2>5. CASE exitAnswers(c)
    <3>1. /\ frame[c].kind = "exit" /\ return(c, "ok")
          /\ UNCHANGED <<active, queue, admission, sent, done, result, frame>>
      BY <2>5 DEF exitAnswers, SeenInv, SeenOK, serverVars, doneVars, runVars
    <3>2. Told' = Told
      BY <3>1, ReturnTells
    <3>. QED
      BY <3>1, <3>2, Unseen
  <2>6. CASE enqueueRefuses(c)
    BY <2>6, RefusesShows DEF Service!Next
  <2>7. CASE enqueueAccepts(c)
    BY <2>7, AcceptShows DEF Service!Next
  <2>8. CASE cancelQueued(c)
    BY <2>8, CancelShows DEF Service!Next
  <2>9. CASE jobAnswers(c)
    BY <2>9, TellShows DEF Service!Next
  <2>. QED
    BY <1>4, <2>1, <2>2, <2>3, <2>4, <2>5, <2>6, <2>7, <2>8, <2>9 DEF handlerNext
<1>5. ASSUME NEW c \in Clients, workerNext(c)
      PROVE  [Service!Next]_Service!promised
  <2>1. CASE runStarts(c) \/ executeReturns(c)
    BY <2>1, Unseen, ToldKept DEF runStarts, executeReturns, serverVars, handlerVars
  <2>2. CASE executeSends(c)
    BY <2>2, SendShows DEF Service!Next
  <2>3. CASE runStops(c)
    BY <2>3, StopShows DEF Service!Next
  <2>4. CASE runContinues(c)
    BY <2>4, ContinueShows DEF Service!Next
  <2>. QED
    BY <1>5, <2>1, <2>2, <2>3, <2>4 DEF workerNext
<1>6. CASE UNCHANGED vars
  BY <1>6, Unseen, ToldKept DEF vars, serverVars, handlerVars, jobVars, doneVars, runVars
<1>. QED
  BY <1>1, <1>2, <1>3, <1>4, <1>5, <1>6 DEF Next

LEMMA ServiceInit == Init => Service!Init
<1>. SUFFICES ASSUME Init
     PROVE  Service!Init
  OBVIOUS
<1>1. Line = << >> /\ Doors = "open" /\ sent = {}
  BY DEF Init, Line, Doors, exiting
<1>2. Verdict = [c \in Clients |-> "none"] /\ Told = [c \in Clients |-> "none"]
  BY DEF Init, Verdict, Told, NoFrame
<1>. QED
  BY <1>1, <1>2 DEF Service!Init

\* The master is a CommandService, for every number of connections, every limit on the
\* queue and every set of faults: handlers, workers, cancellations, heartbeats,
\* interrupts and the idle timer together do nothing its clients could tell from one
\* line of commands.
THEOREM IsService == Spec => ImplementsService
<1>1. Init => SeenInv /\ LocalInv
  BY DEF Init, SeenInv, SeenOK, AsksForJob, LocalInv, LocalOK
<1>2. IndInv /\ IndInv' /\ SeenInv /\ [Next]_vars => SeenInv'
  BY SeenStep DEF IndInv
<1>3. IndInv /\ SeenInv /\ LocalInv /\ [Next]_vars => LocalInv'
  BY LocalStep
<1>4. IndInv /\ IndInv' /\ SeenInv /\ SeenInv' /\ LocalInv /\ [Next]_vars
        => [Service!Next]_Service!promised
  BY ServiceStep
<1>. QED
  BY <1>1, <1>2, <1>3, <1>4, Inductive, ServiceInit, PTL DEF Spec, ImplementsService, Service!Spec

=============================================================================
