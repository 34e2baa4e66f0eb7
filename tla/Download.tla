------------------------------- MODULE Download -------------------------------
(***************************************************************************)
(* downloadLanes (internal/remote/download.go), with the scripts temp.ps1, *)
(* download.ps1 and fetch.ps1 it runs on the host, and commitStage         *)
(* (internal/remote/commit_unix.go). The sender script writes the source   *)
(* to its output, which receiveLoop passes through a pipe to               *)
(* copyBase64Lines and the local stage, and then leaves a control record   *)
(* in the host's temporary directory; fetch.ps1 reads it.                  *)
(*                                                                         *)
(* The local stage is removed on every return and is not modelled beyond   *)
(* what it holds.                                                          *)
(***************************************************************************)
EXTENDS TransferSession

downloadLeaves == <<callVars, ctx, net, hostVars, recvVars, dataVars, file, copy>>

-----------------------------------------------------------------------------
(* Faulty variants of definitions below; each property must reject one. *)

commitStageReplaces == TRUE
joinErrorDropped == err
errorOfRaw(result) == result
cleanupIgnored == artifact

-----------------------------------------------------------------------------
(* Before and while the sender runs. *)

\* A failure once the sender is started: its deferred close comes next.
downloadFails(e) == err' = e /\ role' = "sender" /\ step' = "delete" /\ x' = "idle"

\* transferControl returns: runWithCleanup reports a failed close only if nothing
\* else failed.
ControlReturns(r, result) ==
  \/ /\ StartFails(r)
     /\ result = "error"
  \/ /\ Closes(r)
     /\ told' = told
     /\ result = body
  \/ /\ CloseFails(r)
     /\ told' = IF body = "error" THEN told ELSE closeTold(r)
     /\ result = "error"

errorOf(result) == IF result = "failed" THEN "exit" ELSE "other"

\* With the host's temporary directory known, the local stage is created.
FindsTemp ==
  /\ \E result \in {"ok", "failed", "error"} :
       /\ ControlReturns("temp", result)
       /\ \/ result = "ok" /\ begin("sender") /\ err' = err
          \/ /\ result # "ok" \/ "local" \in Faults
             /\ goto("done") /\ body' = body /\ err' = errorOf(result)
  /\ UNCHANGED <<downloadLeaves, dest, senderDone, artifact, committed>>

StartSenderFails ==
  /\ StartFails("sender")
  /\ err' = "other"
  /\ goto("done")
  /\ UNCHANGED <<downloadLeaves, dest, body, senderDone, artifact, committed>>

\* Whatever came of the EOF, the copy is waited for; after a failure the session
\* is closed first, with the caller's context, and the result of that is dropped.
EndsSenderInput ==
  /\ role = "sender" /\ step = "eof"
  /\ \/ x = "ok" /\ goto("copy") /\ body' = "ok"
     \/ x \in Bad /\ goto("stop") /\ body' = "error"
  /\ UNCHANGED <<downloadLeaves, dest, senderDone, err, artifact, committed, told>>

\* The context of the early close: the caller's.
stopTold == told

StopsSender ==
  /\ role = "sender" /\ step = "stop"
  /\ x \in Bad \cup {"ok"}
  /\ recv["sender"] # "polling" \/ ctx = "ended"
  /\ goto("copy")
  /\ told' = stopTold
  /\ UNCHANGED <<downloadLeaves, dest, body, senderDone, err, artifact, committed>>

WaitsForCopy ==
  /\ role = "sender" /\ step = "copy"
  /\ copy \in {"ok", "failed"}
  /\ goto(IF copy = "failed" /\ "sender" \notin closed THEN "stop" ELSE "drain")
  /\ UNCHANGED <<downloadLeaves, dest, body, senderDone, err, artifact, committed, told>>

\* All is received: the control record is fetched while the session stays open.
WaitsForSender ==
  /\ role = "sender" /\ step = "drain"
  /\ recv["sender"] # "polling"
  /\ IF body = "ok" /\ copy = "ok" /\ recv["sender"] = "ok"
     THEN senderDone' = TRUE /\ begin("fetch") /\ err' = err
     ELSE /\ downloadFails(IF body = "ok" /\ copy = "ok" THEN errorOf(recv["sender"]) ELSE "other")
          /\ UNCHANGED <<senderDone, body>>
  /\ UNCHANGED <<downloadLeaves, dest, artifact, committed, told>>

-----------------------------------------------------------------------------
(* The commit, and what is left. *)

\* The hash and size of the stage are those of the record.
recordMatches == lost = "no"

\* commitStage: a link, which refuses an existing destination, or a rename.
commitStage == force \/ dest = "none"

Commits ==
  /\ \E result \in {"ok", "failed", "error"} :
       /\ ControlReturns("fetch", result)
       /\ \/ /\ result = "ok" /\ recordMatches /\ commitStage
             /\ dest' = Content
             /\ committed' = TRUE
             /\ err' = err /\ role' = "sender" /\ step' = "delete" /\ x' = "idle"
          \/ /\ \/ result # "ok"
                \/ ~recordMatches
                \/ ~commitStage
                \/ "local" \in Faults
             /\ downloadFails(errorOf(result))
             /\ UNCHANGED <<dest, committed>>
  /\ UNCHANGED <<downloadLeaves, body, senderDone, artifact>>

joinError == IF err = "none" THEN "other" ELSE err

\* The deferred close: the control record is removed if the sender ended.
ClosesSender ==
  /\ \/ /\ Closes("sender")
        /\ UNCHANGED <<told, err>>
        /\ artifact' = ~senderDone
        /\ IF senderDone THEN begin("cleaner") ELSE goto("done") /\ body' = body
     \/ /\ CloseFails("sender")
        /\ told' = closeTold("sender")
        /\ err' = joinError
        /\ artifact' = TRUE
        /\ goto("done") /\ body' = body
  /\ UNCHANGED <<downloadLeaves, dest, senderDone, committed>>

\* What cleanupRemoteStage leaves to report.
cleanupLeaves == artifact \/ x # "ok" \/ body # "ok"

CleansRecord ==
  /\ direction = "download"
  /\ \/ StartFails("cleaner")
     \/ Closes("cleaner") /\ told' = told
     \/ CloseFails("cleaner") /\ told' = closeTold("cleaner")
  /\ artifact' = (cleanupLeaves \/ step # "delete")
  /\ err' = IF step = "delete" /\ x = "ok" /\ body = "ok" THEN err ELSE joinError
  /\ goto("done")
  /\ UNCHANGED <<downloadLeaves, dest, body, senderDone, committed>>

-----------------------------------------------------------------------------
(* The stream: the pipe and copyBase64Lines. *)

\* A line is received, decoded and written; the local write may fail.
Copies ==
  /\ recv["sender"] = "polling" /\ copy = "running"
  /\ landed < sent
  /\ \/ landed' = landed + 1 /\ copy' = copy /\ lost' = lost
     \/ landed' = landed + 1 /\ copy' = copy /\ "loss" \in Faults /\ lost' = "stream"
     \/ landed' = landed /\ copy' = "failed" /\ "local" \in Faults /\ lost' = lost
  /\ UNCHANGED <<callVars, ctx, mainVars, net, hostVars, recvVars, sent, changed, mixed, fileVars,
                 senderDone, resultVars>>

\* The pipe is closed with the result of receiveLoop; a line may be incomplete.
CopyEnds ==
  /\ copy = "running"
  /\ recv["sender"] # "polling"
  /\ \/ recv["sender"] \in {"ok", "failed"} /\ copy' = "ok"
     \/ recv["sender"] \in {"error", "failed"} /\ copy' = "failed"
  /\ UNCHANGED <<callVars, ctx, mainVars, net, hostVars, recvVars, dataVars, fileVars, senderDone,
                 resultVars>>

-----------------------------------------------------------------------------
(* The scripts. *)

TempEnds ==
  /\ proc["temp"] = "running"
  /\ ends("temp", "ok")
  /\ UNCHANGED <<scriptLeaves, sent, lost, fileVars>>

\* download.ps1 holds the source open against writers; it creates the record last.
SenderWrites ==
  /\ proc["sender"] = "running"
  /\ \/ sent < Chunks /\ sent' = sent + 1 /\ UNCHANGED <<file, proc>>
     \/ sent = Chunks /\ file = "none" /\ file' = "partial" /\ UNCHANGED <<sent, proc>>
     \/ file = "partial" /\ file' = "full" /\ ends("sender", "ok") /\ sent' = sent
  /\ UNCHANGED <<scriptLeaves, lost, dest>>

FetchEnds ==
  /\ proc["fetch"] = "running"
  /\ ends("fetch", IF file = "full" THEN "ok" ELSE "failed")
  /\ UNCHANGED <<scriptLeaves, sent, lost, fileVars>>

DownloadMain == \/ FindsTemp \/ StartSenderFails \/ EndsSenderInput \/ StopsSender \/ WaitsForCopy
                \/ WaitsForSender \/ Commits \/ ClosesSender \/ CleansRecord
DownloadStream == Copies \/ CopyEnds
DownloadHost == TempEnds \/ SenderWrites \/ FetchEnds
==============================================================================
