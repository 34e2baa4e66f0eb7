--------------------------- MODULE TransferSession ---------------------------
(***************************************************************************)
(* The sessions of a file transfer (internal/remote/session.go and the     *)
(* runWithCleanup of runner.go), at the level of their exchanges: an       *)
(* upload or a download opens several of them one after the other, each    *)
(* for one script, its role. The main goroutine makes one exchange at a    *)
(* time; the receive loop of a session polls beside it. Lanes, heartbeats  *)
(* and the retry of an unsent Delete over the fallback are in Session: an  *)
(* exchange here is unsent when no lane could send it.                     *)
(*                                                                         *)
(* The host is external. It processes a request whenever it likes, also    *)
(* one that the client has given up.                                       *)
(***************************************************************************)
EXTENDS Naturals, FiniteSets

CONSTANTS
  Chunks, \* the source file, in chunks
  Faults  \* "break": an exchange fails; "host": the host refuses or a script fails;
          \* "local": disk errors; "change": the source changes; "loss": data is altered

ASSUME ChunksAssumption == Chunks \in Nat
ASSUME FaultsAssumption == Faults \subseteq {"break", "host", "local", "change", "loss"}

VARIABLES
  direction, \* "upload" or "download"
  force,     \* --force
  ctx,       \* the caller's context: "live" or "ended"
  role,      \* the session the main goroutine is in
  step,      \* what it does there
  x,         \* its exchange: "idle", "wire", "ok", "fault", "error", "unsent"
  body,      \* how the session went before it is closed: "none", "ok", "failed", "error"
  net,       \* requests written and not processed by the host
  shell,     \* per role, on the host: "none", "open", "gone"
  proc,      \* per role, the script: "none", "running", "drained", "moved", "ok", "failed", "killed"
  recv,      \* per role, receiveLoop: "none", "polling", "ok", "failed", "error"
  closed,    \* the roles with session.closed
  sent,      \* chunks of the source sent by the client, or by the sender script
  landed,    \* chunks written to the local stage of a download
  lost,      \* where data was altered: "no", "stream" or, once it was written, "stage"
  changed,   \* whether the source of an upload changed since it was opened
  mixed,     \* whether a chunk was read after that
  file,      \* the remote stage or control record: "none", "partial", "full"
  dest,      \* the destination: "none", "old", "new" or, other bytes than the source's, "bad"
  copy,      \* copyBase64Lines: "none", "running", "ok", "failed"
  senderDone,
  err,       \* the error of the transfer: "none", "unknown", "exit" or "other"
  artifact,  \* whether result.Artifacts lists the file
  committed, \* result.Committed
  told       \* the roles whose Shell an error says may be left

callVars   == <<direction, force>>
mainVars   == <<role, step, x, body>>
hostVars   == <<shell, proc>>
recvVars   == <<recv, closed>>
dataVars   == <<sent, landed, lost, changed, mixed>>
fileVars   == <<file, dest>>
resultVars == <<err, artifact, committed, told>>
vars == <<callVars, ctx, mainVars, net, hostVars, recvVars, dataVars, fileVars, copy,
          senderDone, resultVars>>

Roles == {"receiver", "finalizer", "temp", "sender", "fetch", "cleaner"}

\* The sessions that only send EOF, receive a little and end.
Short == {"finalizer", "temp", "fetch", "cleaner"}

-----------------------------------------------------------------------------
(* Faulty variants of definitions below; each property must reject one. *)

closeToldNothing(r) == told
EndedDetached == role \in {"finalizer", "temp", "fetch"} /\ ctx = "ended"

-----------------------------------------------------------------------------
(* The exchanges of the main goroutine. *)

\* The request a step makes.
Request == [create |-> "Create", command |-> "Command", abandon |-> "Delete", send |-> "Send",
            eof |-> "Eof", delete |-> "Delete", stop |-> "Delete"]

\* The exchange has failed.
Bad == {"fault", "error", "unsent"}

\* Closing a session and cleaning up have budgets of their own, which may expire
\* at any time; streaming ends with the receiver's output; all else with ctx.
Budgeted == step \in {"abandon", "delete"} \/ role = "cleaner"
Ended == /\ ~Budgeted
         /\ ctx = "ended" \/ (role = "receiver" /\ step \in {"read", "send", "eof"} /\ recv["receiver"] # "polling")
Breakable == Ended \/ Budgeted \/ "break" \in Faults

\* The next step of the same session; the first step of another.
goto(s)  == role' = role /\ step' = s /\ x' = "idle"
begin(r) == role' = r /\ step' = "create" /\ x' = "idle" /\ body' = "none"

\* post: the request is written, or is not. closeWith sets closed first.
Posts ==
  /\ step \in DOMAIN Request
  /\ x = "idle"
  /\ step \in {"delete", "stop"} => role \notin closed
  /\ \/ ~Ended /\ x' = "wire" /\ net' = net \cup {[role |-> role, op |-> Request[step]]}
     \/ Breakable /\ x' = "unsent" /\ net' = net
  /\ closed' = IF step \in {"delete", "stop"} THEN closed \cup {role} ELSE closed
  /\ UNCHANGED <<callVars, ctx, role, step, body, hostVars, recv, dataVars, fileVars, copy,
                 senderDone, resultVars>>

\* The exchange ends without an answer; the request may still be processed.
GivesUp ==
  /\ x = "wire"
  /\ Breakable
  /\ x' = "error"
  /\ UNCHANGED <<callVars, ctx, role, step, body, net, hostVars, recvVars, dataVars, fileVars, copy,
                 senderDone, resultVars>>

\* startSessionLanes after Create, and when Command succeeded. The transfers call
\* receive at once in the sessions that stream.
Created ==
  /\ step = "create" /\ x = "ok"
  /\ goto("command")
  /\ UNCHANGED <<callVars, ctx, body, net, hostVars, recvVars, dataVars, fileVars, copy, senderDone,
                 resultVars>>

Commanded ==
  /\ step = "command" /\ x = "ok"
  /\ goto(IF role = "receiver" THEN "read" ELSE "eof")
  /\ recv' = IF role \in Short THEN recv ELSE [recv EXCEPT ![role] = "polling"]
  /\ copy' = IF role = "sender" THEN "running" ELSE copy
  /\ UNCHANGED <<callVars, ctx, body, net, hostVars, closed, dataVars, fileVars, senderDone, resultVars>>

\* deleteShellBestEffort after a failed Command.
CommandFails ==
  /\ step = "command" /\ x \in Bad
  /\ goto("abandon")
  /\ UNCHANGED <<callVars, ctx, body, net, hostVars, recvVars, dataVars, fileVars, copy, senderDone,
                 resultVars>>

\* startSessionLanes returns an error, which says whether a Shell may be left.
StartFails(r) ==
  /\ role = r
  /\ \/ step = "create" /\ x \in Bad
     \/ step = "abandon" /\ x \in Bad \cup {"ok"}
  /\ told' = IF x = "error" \/ x = "fault" \/ (step = "abandon" /\ x = "unsent")
             THEN told \cup {r} ELSE told

\* What a failed close reports.
closeTold(r) == told \cup {r}

\* A short session sends EOF, receives and is closed.
Exchanged ==
  /\ role \in Short
  /\ step = "eof"
  /\ \/ /\ x = "ok"
        /\ goto("receive")
        /\ body' = body
        /\ recv' = [recv EXCEPT ![role] = "polling"]
     \/ x \in Bad /\ goto("delete") /\ body' = "error" /\ recv' = recv
  /\ UNCHANGED <<callVars, ctx, net, hostVars, closed, dataVars, fileVars, copy, senderDone, resultVars>>

Received ==
  /\ role \in Short
  /\ step = "receive"
  /\ recv[role] # "polling"
  /\ body' = recv[role]
  /\ goto("delete")
  /\ UNCHANGED <<callVars, ctx, net, hostVars, recvVars, dataVars, fileVars, copy, senderDone, resultVars>>

\* close returns, without and with an error, when receiveLoop is done too; a second
\* close finds the session closed and only waits for receiveLoop.
Joined(r)      == role = r /\ step = "delete" /\ recv[r] # "polling"
Closes(r)      == Joined(r) /\ (x = "ok" \/ (x = "idle" /\ r \in closed))
CloseFails(r)  == Joined(r) /\ x \in Bad

\* receiveLoop ends with the exit code of the script, once the output is carried to
\* the client; because its context ended, the session was closed or a writer failed;
\* or because an exchange failed.
LoopLeaves == <<callVars, ctx, mainVars, net, hostVars, closed, dataVars, fileVars, copy, senderDone,
                resultVars>>

loopEnds(r, result) == recv[r] = "polling" /\ recv' = [recv EXCEPT ![r] = result]

LoopReturns ==
  /\ \E r \in Roles :
       /\ proc[r] \in {"ok", "failed"}
       /\ proc[r] = "ok" /\ r = "sender" => landed = sent
       /\ loopEnds(r, proc[r])
  /\ UNCHANGED LoopLeaves

LoopStops ==
  /\ \E r \in Roles :
       /\ \/ r \in closed
          \/ r = "cleaner"
          \/ ctx = "ended"
          \/ r = "sender" /\ copy = "failed"
       /\ loopEnds(r, "error")
  /\ UNCHANGED LoopLeaves

LoopFails ==
  /\ \E r \in Roles : ("break" \in Faults \/ shell[r] = "gone") /\ loopEnds(r, "error")
  /\ UNCHANGED LoopLeaves

-----------------------------------------------------------------------------
(* The host: the requests. *)

Alive == {"running", "drained", "moved"}

\* The host has processed m and, if the client still waits, answers.
answer(m, result) ==
  /\ net' = net \ {m}
  /\ x' = IF x = "wire" /\ m = [role |-> role, op |-> Request[step]] THEN result ELSE x

HostRefuses(m) ==
  /\ \/ m.op = "Command" /\ shell[m.role] # "open"
     \/ m.op \in {"Send", "Eof"} /\ shell[m.role] # "open"
     \/ m.role = "receiver" /\ m.op \in {"Send", "Eof"} /\ proc[m.role] # "running"
     \/ m.op = "Delete" /\ shell[m.role] # "open"
     \/ "host" \in Faults
  /\ answer(m, "fault")
  /\ UNCHANGED <<hostVars, lost>>

HostCreates(m) ==
  /\ m.op = "Create"
  /\ answer(m, "ok")
  /\ shell' = [shell EXCEPT ![m.role] = "open"]
  /\ UNCHANGED <<proc, lost>>

HostStarts(m) ==
  /\ m.op = "Command" /\ shell[m.role] = "open"
  /\ answer(m, "ok")
  /\ proc' = [proc EXCEPT ![m.role] = "running"]
  /\ UNCHANGED <<shell, lost>>

\* A chunk reaches the receiver's input, intact or not. The host may still accept
\* input for a script that has ended.
HostReads(m) ==
  /\ m.op = "Send" /\ shell[m.role] = "open"
  /\ answer(m, "ok")
  /\ \/ lost' = lost
     \/ "loss" \in Faults /\ lost = "no" /\ lost' = "stream"
  /\ UNCHANGED hostVars

\* Only the receiver waits for the end of its input.
HostEndsInput(m) ==
  /\ m.op = "Eof" /\ shell[m.role] = "open"
  /\ answer(m, "ok")
  /\ proc' = IF m.role = "receiver" /\ proc[m.role] = "running"
             THEN [proc EXCEPT ![m.role] = "drained"] ELSE proc
  /\ UNCHANGED <<shell, lost>>

HostDeletes(m) ==
  /\ m.op = "Delete" /\ shell[m.role] = "open"
  /\ answer(m, "ok")
  /\ shell' = [shell EXCEPT ![m.role] = "gone"]
  /\ proc' = IF proc[m.role] \in Alive THEN [proc EXCEPT ![m.role] = "killed"] ELSE proc
  /\ lost' = lost

Host ==
  /\ \E m \in net : \/ HostRefuses(m)
                    \/ HostCreates(m)
                    \/ HostStarts(m)
                    \/ HostReads(m)
                    \/ HostEndsInput(m)
                    \/ HostDeletes(m)
  /\ UNCHANGED <<callVars, ctx, role, step, body, recvVars, sent, landed, changed, mixed, fileVars, copy,
                 senderDone, resultVars>>

-----------------------------------------------------------------------------
(* The host: the scripts of every transfer. *)

ends(r, result) == proc' = [proc EXCEPT ![r] = result]

scriptLeaves == <<callVars, ctx, mainVars, net, shell, recvVars, changed, mixed, landed, copy,
                  senderDone, resultVars>>

\* A script fails before it has changed the destination.
ScriptFails ==
  /\ "host" \in Faults
  /\ \E r \in Roles : proc[r] \in {"running", "drained"} /\ ends(r, "failed")
  /\ UNCHANGED <<scriptLeaves, sent, lost, fileVars>>

\* cleanup.ps1 deletes the file if it exists and no script has it open.
Holder == IF direction = "upload" THEN "receiver" ELSE "sender"
FileHeld == file = "partial" /\ proc[Holder] \in Alive

Cleans ==
  /\ proc["cleaner"] = "running"
  /\ IF FileHeld THEN ends("cleaner", "failed") /\ file' = file
                 ELSE ends("cleaner", "ok") /\ file' = "none"
  /\ UNCHANGED <<scriptLeaves, sent, lost, dest>>

\* The bytes that would be committed.
Content == IF lost # "no" \/ mixed THEN "bad" ELSE "new"

-----------------------------------------------------------------------------
(* The environment. *)

\* Timeout or signal.
ContextEnds ==
  /\ ctx = "live"
  /\ ctx' = "ended"
  /\ UNCHANGED <<callVars, mainVars, net, hostVars, recvVars, dataVars, fileVars, copy, senderDone,
                 resultVars>>

\* Somebody else creates the destination. Nothing looks at it before the commit: one
\* that appears earlier is one that was there from the start.
DestinationAppears ==
  /\ dest = "none"
  /\ role \in {"finalizer", "fetch"}
  /\ dest' = "old"
  /\ UNCHANGED <<callVars, ctx, mainVars, net, hostVars, recvVars, dataVars, file, copy, senderDone,
                 resultVars>>

SessionInit ==
  /\ force \in BOOLEAN
  /\ ctx = "live"
  /\ step = "create" /\ x = "idle" /\ body = "none"
  /\ net = {}
  /\ shell = [r \in Roles |-> "none"]
  /\ proc = [r \in Roles |-> "none"]
  /\ recv = [r \in Roles |-> "none"]
  /\ closed = {}
  /\ sent = 0 /\ landed = 0
  /\ lost = "no" /\ changed = FALSE /\ mixed = FALSE
  /\ file = "none"
  /\ dest \in {"none", "old"}
  /\ copy = "none"
  /\ senderDone = FALSE
  /\ err = "none" /\ artifact = FALSE /\ committed = FALSE /\ told = {}

SessionNext == \/ Posts \/ GivesUp \/ Created \/ Commanded \/ CommandFails \/ Exchanged \/ Received
               \/ LoopReturns \/ LoopStops \/ LoopFails \/ Host \/ ScriptFails \/ Cleans
               \/ ContextEnds \/ DestinationAppears
==============================================================================
