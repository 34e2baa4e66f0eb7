----------------------------- MODULE ControlClient -----------------------------
(***************************************************************************)
(* A command in control mode, from the start of a master (ControlStart) to *)
(* what the user is told (internal/control/client.go, runControlled and    *)
(* controlFailure of internal/cmd/control.go). Each client invokes one     *)
(* command on the master it found; the command is cancelled by closing the *)
(* write side of the connection and the client then waits seven seconds    *)
(* for the master's final result.                                          *)
(*                                                                         *)
(* The master is what MasterServer says of it, as a connection sees it: it *)
(* refuses the request or lets it wait, runs one command at a time, sends  *)
(* the frames of its output and one final frame. What that frame may say   *)
(* of the host is what Session ensures of remote.RunWithPosters. A master  *)
(* may be killed at any moment, by the client that launched it too.        *)
(***************************************************************************)
EXTENDS ControlStart, Sequences

CONSTANTS
  MaxOutput, \* bound: the output frames of a command
  Observed   \* the client that is scheduled, and must return

ASSUME OutputAssumption == MaxOutput \in Nat \ {0} /\ Observed \in Clients

VARIABLES
  call,    \* per client, where Invoke is: "start", "request", "read", "show" or "done"
  ctx,     \* per client, commandCtx: "live" or "ended"
  server,  \* per client, the master it is connected to, or None
  half,    \* the clients that have closed their write side
  frames,  \* per client, the frames written to it and not read
  report,  \* per client, what the user is told
  handled, \* per client, where the master is with its request
  remote,  \* per client, the command on the host: "never" sent, "sent" or "ended"
  made,    \* per client, the output frames the command made
  shown    \* per client, those the writer took

clientVars == <<call, ctx, server, half, report, shown>>
masterVars == <<handled, remote, made>>
vars       == <<startVars, clientVars, masterVars, frames>>

\* The reports: the exit code of the command; a category that says it was not
\* started; the unknown remote state; any other failure.
Reports == {"exit-code", "not-started", "unknown", "failure"}

-----------------------------------------------------------------------------
(* Faulty variants of definitions below; each property must reject one. *)

transportLostPlain == "failure"
showEndsPatient(c) == FALSE
reportOfRaw(f) == IF f.kind = "torn" THEN "unknown" ELSE f.category

-----------------------------------------------------------------------------
(* Invoke and invokeConn. *)

\* Invoke goes on.
goesOn(c, to) == call' = [call EXCEPT ![c] = to] /\ UNCHANGED <<ctx, half, report>>

\* Invoke returns: commandCtx ends and the connection is closed, with what was not
\* read.
tell(c, r) ==
  /\ call' = [call EXCEPT ![c] = "done"]
  /\ report' = [report EXCEPT ![c] = r]
  /\ ctx' = [ctx EXCEPT ![c] = "ended"]
  /\ half' = half \ {c}
  /\ frames' = [frames EXCEPT ![c] = << >>]

\* StartOrConnect failed: the user is told so.
startFails(c) ==
  /\ start[c] = "error" /\ call[c] = "start"
  /\ tell(c, "failure")
  /\ UNCHANGED <<startVars, server, shown, masterVars>>

\* A listening master is reached, or no master is, or the deadline is over.
dials(c) ==
  /\ start[c] = "path" /\ call[c] = "start"
  /\ \/ Connectable /\ goesOn(c, "request") /\ server' = [server EXCEPT ![c] = path] /\ frames' = frames
     \/ tell(c, "failure") /\ server' = server
  /\ UNCHANGED <<startVars, shown, masterVars>>

\* The command's context ends, during the start too.
CtxEnds(c) ==
  /\ ctx[c] = "live" /\ start[c] # "crashed"
  /\ ctx' = [ctx EXCEPT ![c] = "ended"]
  /\ startup' = [startup EXCEPT ![c] = "ended"]
  /\ UNCHANGED <<start, open, path, child, ready, call, server, half, report, shown,
                 masterVars, frames>>

\* The callback of commandCtx.
halfCloses(c) ==
  /\ ctx[c] = "ended" /\ call[c] \in {"request", "read", "show"} /\ c \notin half
  /\ half' = half \cup {c}
  /\ UNCHANGED <<startVars, call, ctx, server, report, shown, masterVars, frames>>

\* What uncertainCommandError makes of a failed write or read.
transportLost == "unknown"

Gone(c) == server[c] # None /\ ~Alive(server[c])

writesRequest(c) ==
  /\ call[c] = "request"
  /\ \/ c \notin half /\ goesOn(c, "read") /\ handled' = [handled EXCEPT ![c] = "asked"] /\ frames' = frames
     \/ (c \in half \/ Gone(c)) /\ tell(c, transportLost) /\ handled' = handled
  /\ UNCHANGED <<startVars, server, shown, remote, made>>

\* What a final frame is reported as.
reportOf(f) ==
  IF f.kind = "torn" THEN transportLost
  ELSE IF f.category = "ok" THEN "exit-code"
  ELSE IF f.category = "remote-state-unknown" THEN "unknown"
  ELSE IF f.category = "not-started" THEN "not-started"
  ELSE "failure"

\* A frame is read. Output read after the end of the context is dropped, and a
\* success read then is reported as the end of the context.
readsFrame(c) ==
  /\ call[c] = "read" /\ frames[c] # << >>
  /\ LET f == Head(frames[c])
         late == ctx[c] = "ended"
     IN  \/ /\ f.kind = "output"
            /\ goesOn(c, IF late THEN "read" ELSE "show")
            /\ frames' = [frames EXCEPT ![c] = Tail(@)]
         \/ /\ f.kind # "output"
            /\ tell(c, IF late /\ reportOf(f) = "exit-code" THEN "failure" ELSE reportOf(f))
  /\ UNCHANGED <<startVars, server, shown, masterVars>>

\* No frame: the master has closed the connection or is gone, or the seven seconds
\* after the half-close are over.
readsNothing(c) ==
  /\ call[c] = "read"
  /\ \/ c \in half
     \/ frames[c] = << >> /\ (handled[c] = "closed" \/ Gone(c))
  /\ tell(c, transportLost)
  /\ UNCHANGED <<startVars, server, shown, masterVars>>

\* The writer takes the frame, or fails.
shows(c) ==
  /\ call[c] = "show"
  /\ \/ goesOn(c, "read") /\ shown' = [shown EXCEPT ![c] = @ + 1] /\ frames' = frames
     \/ tell(c, "unknown") /\ shown' = shown
  /\ UNCHANGED <<startVars, server, masterVars>>

\* The wait for a blocked writer ends with the context.
showEnds(c) == ctx[c] = "ended"

stopsShowing(c) ==
  /\ call[c] = "show" /\ showEnds(c)
  /\ tell(c, "unknown")
  /\ UNCHANGED <<startVars, server, shown, masterVars>>

-----------------------------------------------------------------------------
(* The master, as the connection of a client sees it. *)

Serving(c)   == server[c] # None /\ child[server[c]] \in {"serve", "drain"}
Cancelled(c) == c \in half \/ call[c] = "done" \/ ctx[c] = "ended"

\* A frame is written; a closed connection does not take it.
write(c, f) == frames' = [frames EXCEPT ![c] = IF call[c] = "done" THEN @ ELSE Append(@, f)]

\* The last frame, after which the handler closes the connection.
final(c, category) ==
  /\ handled' = [handled EXCEPT ![c] = "closed"]
  /\ write(c, [kind |-> "final", category |-> category])

\* The request is refused, also while it waits; or waits for its turn; or ends
\* while it waits.
admits(c) ==
  /\ Serving(c)
  /\ \/ handled[c] = "asked" /\ (\E category \in {"not-started", "unavailable"} : final(c, category))
     \/ handled[c] = "asked" /\ handled' = [handled EXCEPT ![c] = "wait"] /\ frames' = frames
     \/ handled[c] = "wait" /\ child[server[c]] = "drain" /\ final(c, "not-started")
     \/ handled[c] = "wait" /\ Cancelled(c) /\ final(c, "canceled")
  /\ UNCHANGED <<startVars, clientVars, remote, made>>

\* The turn of a waiting request comes.
begins(c) ==
  /\ Serving(c) /\ handled[c] = "wait"
  /\ \A d \in Clients : handled[d] = "run" => server[d] # server[c]
  /\ handled' = [handled EXCEPT ![c] = "run"]
  /\ UNCHANGED <<startVars, clientVars, remote, made, frames>>

executes(c) ==
  /\ Serving(c) /\ handled[c] = "run" /\ remote[c] = "never"
  /\ remote' = [remote EXCEPT ![c] = "sent"]
  /\ UNCHANGED <<startVars, clientVars, handled, made, frames>>

\* Output goes to the client as it comes. The write of a frame may stop in the
\* middle at the deadline, and nothing after it can be read.
outputs(c) ==
  /\ Serving(c) /\ handled[c] = "run" /\ remote[c] = "sent" /\ made[c] < MaxOutput
  /\ made' = [made EXCEPT ![c] = @ + 1]
  /\ \/ write(c, [kind |-> "output"])
     \/ ctx[c] = "ended" /\ write(c, [kind |-> "torn"])
  /\ UNCHANGED <<startVars, clientVars, handled, remote>>

\* The command ends on the host, whatever became of the master.
HostEnds(c) ==
  /\ remote[c] = "sent"
  /\ remote' = [remote EXCEPT ![c] = "ended"]
  /\ UNCHANGED <<startVars, clientVars, handled, made, frames>>

\* execute() returns: nil or an error after the command has ended, the unknown state
\* once it was sent, and an error of its start before.
answers(c) ==
  /\ Serving(c) /\ handled[c] = "run"
  /\ \/ remote[c] = "never" /\ (\E category \in {"not-started", "canceled"} : final(c, category))
     \/ remote[c] # "never" /\ final(c, "remote-state-unknown")
     \/ remote[c] = "ended" /\ (\E category \in {"ok", "cleanup-failed"} : final(c, category))
  /\ UNCHANGED <<startVars, clientVars, remote, made>>

\* ControlStart's stops; a master ends when no command runs or waits.
serverStops(m) ==
  /\ stops(m)
  /\ child[m] = "drain" => \A c \in Clients : server[c] = m => handled[c] \notin {"wait", "run"}
  /\ UNCHANGED <<clientVars, masterVars, frames>>

-----------------------------------------------------------------------------
(* The specification. *)

Init ==
  /\ StartInit
  /\ call = [c \in Clients |-> "start"] /\ ctx = [c \in Clients |-> "live"]
  /\ server = [c \in Clients |-> None] /\ half = {}
  /\ frames = [c \in Clients |-> << >>] /\ report = [c \in Clients |-> "none"]
  /\ handled = [c \in Clients |-> "none"] /\ remote = [c \in Clients |-> "never"]
  /\ made = [c \in Clients |-> 0] /\ shown = [c \in Clients |-> 0]

invoke(c) == startFails(c) \/ dials(c) \/ writesRequest(c) \/ readsFrame(c) \/ readsNothing(c)
             \/ stopsShowing(c) \/ halfCloses(c)
serves(c) == admits(c) \/ begins(c) \/ executes(c) \/ outputs(c) \/ answers(c)

starts(c) == client(c) /\ UNCHANGED <<clientVars, masterVars, frames>>

Next ==
  \/ StartStep /\ UNCHANGED <<clientVars, masterVars, frames>>
  \/ \E c \in Clients : invoke(c) \/ shows(c) \/ CtxEnds(c) \/ serves(c) \/ HostEnds(c)
  \/ \E m \in Clients : serverStops(m)
  \/ (\E m \in Clients : MasterCrashes(m)) /\ UNCHANGED <<clientVars, masterVars, frames>>

Spec == Init /\ [][Next]_vars

\* One client is scheduled. The others, the masters, the host and its writer owe it
\* nothing.
FairSpec == Spec /\ WF_vars(starts(Observed) \/ invoke(Observed))

-----------------------------------------------------------------------------
(* Properties. *)

ClientTypeOK ==
  /\ StartTypeOK
  /\ call \in [Clients -> {"start", "request", "read", "show", "done"}]
  /\ ctx \in [Clients -> {"live", "ended"}]
  /\ server \in [Clients -> Clients \cup {None}]
  /\ half \subseteq Clients
  /\ report \in [Clients -> Reports \cup {"none"}]
  /\ handled \in [Clients -> {"none", "asked", "wait", "run", "closed"}]
  /\ remote \in [Clients -> {"never", "sent", "ended"}]
  /\ \A c \in Clients : made[c] \in 0..MaxOutput /\ shown[c] \in 0..made[c]

\* The user is told the truth: an exit code comes after all of the output, a command
\* said not to have started never starts, and one that may run after the report
\* is reported as unknown; with the master killed in the middle, by a launcher whose
\* time is up too.
ClientHonest == \A c \in Clients :
  /\ report[c] = "exit-code" => remote[c] = "ended" /\ shown[c] = made[c]
  /\ report[c] = "not-started" => remote[c] = "never"
  /\ remote[c] = "sent" => report[c] \in {"none", "unknown"}

\* A command whose time is over is reported, even when the lock is never freed, the
\* master is silent or the writer blocks.
CommandReturns ==
  ctx[Observed] = "ended" ~> call[Observed] = "done" \/ start[Observed] = "crashed"
==============================================================================
