-------------------------------- MODULE Session --------------------------------
(***************************************************************************)
(* One remote command: runWithPosters (internal/remote/control_runner.go)  *)
(* over a session (internal/remote/session.go) on the two lanes of a       *)
(* master, or of Run (internal/remote/runner.go), with the heartbeats      *)
(* (internal/remote/keepalive.go) that share these lanes.                  *)
(*                                                                         *)
(* Three goroutines take part: "main" creates the Shell, starts the        *)
(* command, closes its input, waits for it and deletes the Shell; "recv"   *)
(* is receiveLoop; "beat" sends heartbeats. The host is external: it       *)
(* processes a request, or answers it with a fault, at any time after it   *)
(* was written. The caller may cancel, or its deadline pass, at any time.  *)
(***************************************************************************)
EXTENDS Naturals, Sequences, Handshake, RunContract

CONSTANTS
  Modes,  \* the callers: "master", on lanes that outlive the command; "run", Run
  Endings \* how the caller's context may end: "canceled", "deadline"

ASSUME EndingsAssumption == Endings \subseteq {"canceled", "deadline"}
ASSUME ModesAssumption == Modes \subseteq {"master", "run"}
ASSUME GoroutinesAssumption == Procs = {"main", "recv", "beat"}
ASSUME LanesAssumption == {"command", "cleanup", "fresh"} \subseteq LaneSet

VARIABLES
  ctx,     \* the caller's context: "live", "canceled" or "deadline"
  budget,  \* the five-second context of the cleanup: "none", "live", "expired"
  main,    \* what runWithPosters waits for
  runErr,  \* the error of the command, as a set of sentinels; {} is nil
  route,   \* the lanes a Delete may still be sent on
  signal,  \* "none", "ok", "failed"
  deleted, \* "no", or "yes" when the host confirmed the deletion
  errs,    \* what the caller gets, as a set of sentinels; {} is nil
  closed,  \* session.closed, and with it lifecycleDone and cancel()
  output,  \* "unset", or "set" when receive() has set the writers
  recv,    \* where receiveLoop is
  recvErr, \* session.recvErr, as a set of sentinels
  beat,    \* where keepLanesAlive, or the master's keepAlive, is
  shell,   \* on the host: "none", "open", "gone"
  process, \* on the host: "none", "running", "exited", "killed"
  writes,  \* history: how often each request but Receive was written
  mode     \* which of Modes calls

sessionVars == <<ctx, budget, main, runErr, route, signal, deleted, errs, closed, output>>
recvVars    == <<recv, recvErr>>
hostVars    == <<shell, process>>
vars        == <<laneVars, sessionVars, recvVars, beat, hostVars, writes, mode, shake>>

-----------------------------------------------------------------------------
(* Faulty variants of definitions below; each property must reject one. *)

createErrorsHopeful(stage) == {"not-started"}
resendableAlways(stage) == stage \in {"unsent", "error"}
cleanupErrorsHopeful(late) ==
  IF late \/ signal = "failed" THEN {"cleanup-failed"} ELSE {}
recvResultIgnored == {}
exchangeErrorsRaw(stage, c) == {{"other", c}}
beatEndedWithCaller == ctx # "live"
joinedAlways(late) == recv = "gone"

-----------------------------------------------------------------------------
(* Contexts and errors. *)

\* The requests that are not repeated.
Once == {"Create", "Command", "Send", "Signal", "Delete"}

\* Run retries an unsent Delete over a freshly authenticated connection.
Fallback == IF mode = "run" THEN <<"fresh">> ELSE << >>

\* The contexts of the exchanges of main, of receiveLoop and of the heartbeats.
mainEnded == IF call["main"].message \in {"Signal", "Delete"} THEN budget = "expired"
                                                             ELSE ctx # "live"
recvEnded == ctx # "live" \/ closed = "yes"
beatEnded == mode = "run" /\ (ctx # "live" \/ main \in {"stop", "returned"})

\* The error of a failed exchange whose context is c, beside the sentinels of its
\* caller: a plain one or the context's, or, of a request that was written, an
\* HTTP timeout, which errors.Is takes for a deadline.
exchangeErrors(stage, c) ==
  {{"other"}} \cup (IF c = "live" \/ stage = "fault" THEN {} ELSE {{"other", c}})
              \cup (IF stage = "error" THEN {{"other", "deadline"}} ELSE {})

-----------------------------------------------------------------------------
(* runWithPosters. *)

Returned(stage) == call["main"].stage = stage

\* The function returns es; Run then stops the heartbeats and closes the lanes.
finish(es) ==
  /\ errs' = es
  /\ main' = IF mode = "run" THEN "stop" ELSE "returned"
  /\ call' = [call EXCEPT !["main"] = Idle]

\* What the failure of Create says about the Shell.
createErrors(stage) == IF stage = "unsent" THEN {"not-started"} ELSE {"unknown"}

createReturns ==
  /\ main = "create"
  /\ \/ /\ Returned("ok")
        /\ main' = "command"
        /\ call' = Posted("main", "command", "Command")
        /\ errs' = errs
     \/ \E stage \in {"unsent", "error", "fault"} :
          /\ Returned(stage)
          /\ \E e \in exchangeErrors(stage, ctx) : finish(createErrors(stage) \cup e)
  /\ UNCHANGED <<ctx, budget, runErr, route, signal, deleted, closed, output, recvVars>>

\* The command runs and receiveLoop starts; or the Shell is deleted at once.
commandReturns ==
  /\ main = "command"
  /\ \/ /\ Returned("ok")
        /\ main' = "send"
        /\ call' = Posted("main", "command", "Send")
        /\ recv' = "wait"
        /\ UNCHANGED <<budget, runErr, route>>
     \/ \E stage \in {"unsent", "error", "fault"} :
          /\ Returned(stage)
          /\ runErr' \in exchangeErrors(stage, ctx)
          /\ main' = "abandon"
          /\ budget' = "live"
          /\ call' = Posted("main", "cleanup", "Delete")
          /\ route' = Fallback
          /\ recv' = recv
  /\ UNCHANGED <<ctx, signal, deleted, errs, closed, output, recvErr>>

\* closeWith until its first exchange: a Signal on the cleanup lane when the
\* command was interrupted, otherwise the Delete on the command lane.
closeWith(interrupted) ==
  /\ closed' = "yes"
  /\ budget' = "live"
  /\ route' = <<"cleanup">> \o Fallback
  /\ IF interrupted
     THEN main' = "signal" /\ call' = Posted("main", "cleanup", "Signal")
     ELSE main' = "delete" /\ call' = Posted("main", "command", "Delete")

sendReturns ==
  /\ main = "send"
  /\ \/ /\ Returned("ok")
        /\ main' = "receive"
        /\ output' = "set"
        /\ call' = [call EXCEPT !["main"] = Idle]
        /\ UNCHANGED <<budget, runErr, route, closed>>
     \/ \E stage \in {"unsent", "error", "fault"} :
          /\ Returned(stage)
          /\ runErr' \in exchangeErrors(stage, ctx)
          /\ closeWith(TRUE)
          /\ output' = output
  /\ UNCHANGED <<ctx, signal, deleted, errs, recvVars>>

\* The result receiveLoop left for receive().
recvResult == recvErr

\* receive() returns what receiveLoop left, or the error of the context; when both
\* are there, either. The deferred cleanup looks at the context once more.
receiveReturns ==
  /\ main = "receive"
  /\ \/ recv = "gone" /\ runErr' = recvResult
     \/ ctx # "live" /\ runErr' = {ctx}
  /\ closeWith(runErr' # {} \/ ctx # "live")
  /\ UNCHANGED <<ctx, signal, deleted, errs, output, recvVars>>

signalReturns ==
  /\ main = "signal"
  /\ call["main"].stage \in Outcomes
  /\ signal' = IF Returned("ok") THEN "ok" ELSE "failed"
  /\ main' = "delete"
  /\ call' = Posted("main", "cleanup", "Delete")
  /\ UNCHANGED <<ctx, budget, runErr, route, deleted, errs, closed, output, recvVars>>

\* A Delete may be sent again, through another connection, only if it was unsent.
resendable(stage) == stage = "unsent"

deleteReturns ==
  /\ main \in {"delete", "abandon"}
  /\ call["main"].stage \in Outcomes
  /\ \/ /\ resendable(call["main"].stage) /\ route # << >>
        /\ call' = Posted("main", Head(route), "Delete")
        /\ route' = Tail(route)
        /\ UNCHANGED <<main, deleted, errs>>
     \/ /\ ~(resendable(call["main"].stage) /\ route # << >>)
        /\ route' = route
        /\ deleted' = IF Returned("ok") THEN "yes" ELSE "no"
        /\ \/ /\ main = "delete"
              /\ main' = "join"
              /\ call' = [call EXCEPT !["main"] = Idle]
              /\ errs' = errs
           \/ /\ main = "abandon"
              /\ finish(runErr \cup (IF Returned("ok") THEN {} ELSE {"unknown"}))
  /\ UNCHANGED <<ctx, budget, runErr, signal, closed, output, recvVars>>

\* closeWith waits for receiveLoop, but not beyond its budget; it is late when it
\* takes the budget's end, which it may do although receiveLoop is gone as well.
joined(late) == IF late THEN budget = "expired" ELSE recv = "gone"

\* The error of closeWith; that of the budget comes with it when it is late.
cleanupErrors(late) ==
  IF deleted = "no" THEN {"unknown"}
  ELSE IF late \/ signal = "failed" THEN {"cleanup-failed"}
  ELSE {}

\* RunWithPosters joins the two errors; Run does, unless the command completed.
closeReturns ==
  /\ main = "join"
  /\ \E late \in BOOLEAN :
       /\ joined(late)
       /\ finish(IF mode = "run" /\ runErr = {} THEN cleanupErrors(late)
                 ELSE runErr \cup cleanupErrors(late) \cup (IF late THEN {"deadline"} ELSE {}))
  /\ UNCHANGED <<ctx, budget, runErr, route, signal, deleted, closed, output, recvVars>>

mainReturns ==
  /\ \/ createReturns \/ commandReturns \/ sendReturns \/ receiveReturns
     \/ signalReturns \/ deleteReturns \/ closeReturns
  /\ UNCHANGED <<holder, health, net, reply, torn, sock, beat, hostVars, writes, mode, shake>>

\* Run: stop() waits for the heartbeat in flight, then both lanes are closed.
lanesStop ==
  /\ main = "stop"
  /\ beat = "gone"
  /\ main' = "returned"
  /\ lanesClose({"command", "cleanup"})
  /\ UNCHANGED <<ctx, budget, runErr, route, signal, deleted, errs, closed, output, recvVars,
                 beat, hostVars, writes, mode, shake>>

mainPosts ==
  /\ call["main"].stage = "lock" /\ health[call["main"].lane] # "new"
  /\ postLocked("main", mainEnded)
  /\ writes' = IF call'["main"].stage = "wire"
                 THEN [writes EXCEPT ![call["main"].message] = @ + 1] ELSE writes
  /\ UNCHANGED <<sessionVars, recvVars, beat, hostVars, mode, shake>>

-----------------------------------------------------------------------------
(* The opening of lanes: both by Run, before its command; the fresh one for a *)
(* Delete that no other lane could send.                                      *)

lanesOpen ==
  /\ \/ main = "open" /\ shake = NoShake /\ attempt("command", 0)
     \/ /\ call["main"].stage = "lock" /\ health[call["main"].lane] = "new"
        /\ shake = NoShake
        /\ attempt(call["main"].lane, 0)
  /\ UNCHANGED <<holder, health, call, net, reply, torn, sessionVars, recvVars, beat, hostVars,
                 writes, mode>>

lanesAuthenticate ==
  /\ legs(mainEnded)
  /\ UNCHANGED <<sessionVars, recvVars, beat, hostVars, writes, mode>>

\* Both are open, the heartbeats start; or one failed, and the first is closed.
lanesOpened ==
  /\ main = "open"
  /\ \/ /\ shake.leg = "done" /\ shake.lane = "command"
        /\ health' = [health EXCEPT !["command"] = "good"]
        /\ attempt("cleanup", 0)
        /\ UNCHANGED <<main, beat, errs>>
     \/ /\ shake.leg = "done" /\ shake.lane = "cleanup"
        /\ health' = [health EXCEPT !["cleanup"] = "good"]
        /\ main' = "none" /\ beat' = "wait"
        /\ shake' = NoShake /\ sock' = sock /\ errs' = errs
     \/ /\ shake.leg = "failed"
        /\ health' = [l \in LaneSet |-> IF health[l] = "good" THEN "closed" ELSE health[l]]
        /\ main' = "unopened" /\ beat' = beat
        /\ errs' \in exchangeErrors("error", ctx)
        /\ shake' = NoShake /\ sock' = sock
  /\ UNCHANGED <<holder, call, net, reply, torn, ctx, budget, runErr, route, signal, deleted,
                 closed, output, recvVars, hostVars, writes, mode>>

\* The fresh lane is open for its Delete; or it is not, and the Delete is unsent.
freshOpened ==
  /\ main # "open"
  /\ \/ /\ shake.leg = "done"
        /\ health' = [health EXCEPT ![shake.lane] = "good"] /\ call' = call
     \/ /\ shake.leg = "failed"
        /\ call' = [call EXCEPT !["main"].stage = "unsent"] /\ health' = health
  /\ shake' = NoShake
  /\ UNCHANGED <<holder, net, reply, torn, sock, sessionVars, recvVars, beat, hostVars, writes, mode>>

opening == lanesOpen \/ lanesAuthenticate \/ lanesOpened \/ freshOpened

-----------------------------------------------------------------------------
(* receiveLoop. *)

\* It waits for the writers, polls, and looks at its context before each poll.
recvPolls ==
  /\ \/ /\ recv = "wait" /\ output = "set"
        /\ recv' = "poll" /\ UNCHANGED <<recvErr, call>>
     \/ /\ recv \in {"wait", "poll"} /\ recvEnded
        /\ recv' = "gone" /\ recvErr' = {IF ctx # "live" THEN ctx ELSE "other"} /\ call' = call
     \/ /\ recv = "poll" /\ ~recvEnded
        /\ recv' = "reply" /\ call' = Posted("recv", "command", "Receive") /\ recvErr' = recvErr
  /\ UNCHANGED <<holder, health, net, reply, torn, sock, sessionVars, beat, hostVars, writes, mode, shake>>

recvReturns ==
  /\ recv = "reply"
  /\ \E stage \in Outcomes :
       /\ call["recv"].stage = stage
       /\ \/ stage = "timeout" /\ recv' = "poll" /\ recvErr' = recvErr
          \/ stage = "more" /\ recv' = "write" /\ recvErr' = recvErr
          \/ stage = "done" /\ recv' = "writelast" /\ recvErr' = recvErr
          \/ /\ stage \in {"unsent", "error", "fault"}
             /\ recv' = "gone"
             /\ recvErr' \in exchangeErrors(stage, ctx)
  /\ call' = [call EXCEPT !["recv"] = Idle]
  /\ UNCHANGED <<holder, health, net, reply, torn, sock, sessionVars, beat, hostVars, writes, mode, shake>>

\* The output is decoded and written; a writer may fail, or block for ever.
recvWrites ==
  /\ \/ recv = "write" /\ recv' = "poll" /\ recvErr' = recvErr
     \/ recv = "writelast" /\ recv' = "gone" /\ recvErr' = {}
     \/ recv \in {"write", "writelast"} /\ recv' = "gone" /\ recvErr' = {"other"}
  /\ UNCHANGED <<laneVars, sessionVars, beat, hostVars, writes, mode, shake>>

-----------------------------------------------------------------------------
(* The heartbeats: rounds over the command lane and the cleanup lane. *)

Lane(b) == IF b = "beatcommand" THEN "command" ELSE "cleanup"
After(b) == IF b = "beatcommand" THEN "beatcleanup" ELSE "wait"

beatTick ==
  /\ beat = "wait"
  /\ beat' = IF beatEnded THEN "gone" ELSE "beatcommand"
  /\ UNCHANGED <<laneVars, sessionVars, recvVars, hostVars, writes, mode, shake>>

beatRound ==
  /\ beat \in {"beatcommand", "beatcleanup"}
  /\ LET l == Lane(beat)
         stage == call["beat"].stage
     IN  \/ /\ stage = "idle" /\ keepAliveSkips(l)
            /\ beat' = After(beat) /\ UNCHANGED laneVars
         \/ /\ stage = "idle" /\ keepAliveFails(l)
            /\ beat' = "gone" /\ UNCHANGED laneVars
         \/ /\ stage = "idle" /\ keepAlive("beat", l, beatEnded)
            /\ beat' = beat
         \/ /\ stage \in Outcomes
            /\ beat' = IF stage = "ok" THEN After(beat) ELSE "gone"
            /\ call' = [call EXCEPT !["beat"] = Idle]
            /\ UNCHANGED <<holder, health, net, reply, torn, sock>>
  /\ UNCHANGED <<sessionVars, recvVars, hostVars, writes, mode, shake>>

-----------------------------------------------------------------------------
(* The contexts, the exchanges and the host. *)

ctxEnds ==
  /\ ctx = "live" /\ main \notin {"returned", "unopened"}
  /\ ctx' \in Endings
  /\ UNCHANGED <<laneVars, budget, main, runErr, route, signal, deleted, errs, closed, output,
                 recvVars, beat, hostVars, writes, mode, shake>>

budgetExpires ==
  /\ budget = "live"
  /\ budget' = "expired"
  /\ UNCHANGED <<laneVars, ctx, main, runErr, route, signal, deleted, errs, closed, output,
                 recvVars, beat, hostVars, writes, mode, shake>>

recvPosts ==
  /\ postLocked("recv", recvEnded)
  /\ UNCHANGED <<sessionVars, recvVars, beat, hostVars, writes, mode, shake>>

\* A heartbeat has two seconds, which may pass when the host is slow.
mainBreaks == broken("main", mainEnded)
recvBreaks == broken("recv", recvEnded)
beatBreaks == broken("beat", beatEnded \/ "slow" \in Faults)

exchangeEnds ==
  /\ mainBreaks \/ recvBreaks \/ beatBreaks \/ identified("beat") \/ replied("main") \/ replied("recv")
  /\ UNCHANGED <<sessionVars, recvVars, beat, hostVars, writes, mode, shake>>

\* The host processes a request, or refuses it; a sound one refuses no Identify.
hostAnswers(m) ==
  /\ m \in net
  /\ \/ /\ m.message # "Identify" \/ "break" \in Faults
        /\ UNCHANGED hostVars /\ answered(m, "fault")
     \/ /\ m.message = "Create"
        /\ shell' = "open" /\ process' = process /\ answered(m, "ok")
     \/ /\ m.message = "Command" /\ shell = "open"
        /\ process' = "running" /\ shell' = shell /\ answered(m, "ok")
     \/ /\ m.message = "Send" /\ process \in {"running", "exited"}
        /\ UNCHANGED hostVars /\ answered(m, "ok")
     \/ /\ m.message = "Receive" /\ process \in {"running", "exited"}
        /\ \/ \E r \in {"more", "timeout"} : answered(m, r)
           \/ process = "exited" /\ answered(m, "done")
        /\ UNCHANGED hostVars
     \/ /\ m.message = "Signal" /\ shell = "open"
        /\ process' = IF process = "running" THEN "killed" ELSE process
        /\ shell' = shell /\ answered(m, "ok")
     \/ /\ m.message = "Delete" /\ shell = "open"
        /\ process' = IF process = "running" THEN "killed" ELSE process
        /\ shell' = "gone" /\ answered(m, "ok")
     \/ /\ m.message = "Identify"
        /\ UNCHANGED hostVars /\ answered(m, "ok")
  /\ UNCHANGED <<sessionVars, recvVars, beat, writes, mode, shake>>

processExits ==
  /\ process = "running"
  /\ process' = "exited"
  /\ UNCHANGED <<laneVars, sessionVars, recvVars, beat, shell, writes, mode, shake>>

-----------------------------------------------------------------------------
(* The specification. *)

Init ==
  /\ mode \in Modes
  /\ LanesInit(IF mode = "run" THEN {} ELSE {"command", "cleanup"})
  /\ shake = NoShake
  /\ ctx \in {"live"} \cup Endings /\ budget = "none"
  /\ main = (IF mode = "run" THEN "open" ELSE "none") /\ runErr = {} /\ route = << >> /\ signal = "none" /\ deleted = "no"
  /\ errs = {} /\ closed = "no" /\ output = "unset"
  /\ recv = "none" /\ recvErr = {}
  /\ beat = (IF mode = "run" THEN "none" ELSE "wait")
  /\ shell = "none" /\ process = "none"
  /\ writes = [m \in Once |-> 0]

\* The command is encoded and its Create posted; an invalid one is refused.
mainStarts ==
  /\ main = "none"
  /\ \/ /\ main' = "create" /\ errs' = errs
        /\ call' = Posted("main", "command", "Create")
     \/ finish({"other"})
  /\ UNCHANGED <<holder, health, net, reply, torn, sock, ctx, budget, runErr, route, signal, deleted,
                 closed, output, recvVars, beat, hostVars, writes, mode, shake>>

Done == main \in {"returned", "unopened"} /\ UNCHANGED vars

Next ==
  \/ opening \/ mainStarts \/ mainReturns \/ mainPosts \/ lanesStop
  \/ recvPolls \/ recvPosts \/ recvReturns \/ recvWrites
  \/ beatTick \/ beatRound
  \/ ctxEnds \/ budgetExpires \/ exchangeEnds \/ processExits \/ Done
  \/ \E m \in net : hostAnswers(m)

Spec == Init /\ [][Next]_vars

\* Goroutines keep running and contexts expire; nothing makes the host answer or a
\* writer accept output. A heartbeat does not overtake a waiting exchange for ever:
\* it leaves a lane alone that was used in the last thirty seconds.
Fairness ==
  /\ WF_vars(mainStarts \/ mainReturns \/ lanesStop)
  /\ WF_vars(lanesOpen \/ lanesOpened \/ freshOpened)
  /\ WF_vars(lanesAuthenticate /\ mainEnded)
  /\ SF_vars(mainPosts) /\ SF_vars(recvPosts)
  /\ WF_vars(recvPolls \/ recvReturns)
  /\ WF_vars(beatTick \/ beatRound)
  /\ WF_vars(budgetExpires)
  /\ WF_vars(exchangeEnds /\ mainBreaks /\ mainEnded)
  /\ WF_vars(exchangeEnds /\ recvBreaks /\ recvEnded)
  /\ WF_vars(exchangeEnds /\ beatBreaks)

FairSpec == Spec /\ Fairness

-----------------------------------------------------------------------------
(* Properties. *)

Sentinels == {"not-started", "unknown", "cleanup-failed", "canceled", "deadline", "other"}

\* Every variable has its type.
SessionTypeOK ==
  /\ LanesTypeOK /\ HandshakeTypeOK
  /\ ctx \in {"live", "canceled", "deadline"} /\ budget \in {"none", "live", "expired"}
  /\ main \in {"open", "unopened", "none", "create", "command", "abandon", "send", "receive", "signal", "delete",
               "join", "stop", "returned"}
  /\ runErr \subseteq Sentinels /\ errs \subseteq Sentinels /\ recvErr \subseteq Sentinels
  /\ route \in Seq(LaneSet) /\ signal \in {"none", "ok", "failed"} /\ deleted \in {"no", "yes"}
  /\ closed \in {"no", "yes"} /\ output \in {"unset", "set"}
  /\ recv \in {"none", "wait", "poll", "reply", "write", "writelast", "gone"}
  /\ beat \in {"none", "wait", "beatcommand", "beatcleanup", "gone"}
  /\ shell \in {"none", "open", "gone"} /\ process \in {"none", "running", "exited", "killed"}
  /\ writes \in [Once -> Nat] /\ mode \in Modes

\* A Shell that may be left on the host, even by a request that arrives after
\* the call returned, is reported as an unknown remote state: no lost reply, failed
\* lane, heartbeat or expired budget lets it pass as a plain or a cleanup error.
NoOrphan ==
  main \in {"stop", "returned"} /\ (shell = "open" \/ \E m \in net : m.message = "Create") =>
    "unknown" \in errs

\* No request that changes the host's state is written twice, on whatever lane:
\* neither the retries of an unsent Delete nor the cleanup replay one.
NoReplay == \A m \in Once : writes[m] <= 1

\* After a return without an error the command has run to its end, its Shell is
\* gone, receiveLoop has ended, and none of its exchanges is left on the lanes the
\* next command will use.
CleanReturn ==
  main \in {"stop", "returned"} /\ errs = {} =>
    /\ process = "exited" /\ shell = "gone" /\ recv = "gone"
    /\ \A m \in net : m.message = "Identify"
    /\ \A l \in LaneSet : holder[l] \in {Free, "beat"}

\* The interruption of a command does not take down the connection its cleanup is
\* to use: without a fault of the host or the network, the cleanup lane can carry
\* the Signal.
CancelSparesCleanup ==
  main = "signal" /\ call["main"].stage = "lock" => health["cleanup"] = "good"

\* Once the caller's context has ended the call returns, even when the host does
\* not answer and a writer blocks receiveLoop for ever.
CancelReturns == ctx # "live" ~> main \in {"returned", "unopened"}

\* What the caller of RunWithPosters relies on.
Contract == INSTANCE RemoteRun WITH
  phase <- IF main = "returned" THEN "returned" ELSE "running",
  dispatched <- IF writes["Create"] > 0 THEN "yes" ELSE "no",
  errs <- IF main = "returned" THEN errs ELSE {}

\* A session implements the abstract call with that contract.
ImplementsContract == Contract!Spec

=============================================================================
