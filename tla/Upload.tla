-------------------------------- MODULE Upload --------------------------------
(***************************************************************************)
(* uploadLanes and dispatchFinalizer (internal/remote/upload.go), with the *)
(* scripts upload.ps1 and control.ps1 they run on the host. The source is  *)
(* read, streamed to the receiver, which writes a stage beside the         *)
(* destination, and checked against the receiver's record; the receiver is *)
(* closed and the finalizer moves the stage into place.                    *)
(*                                                                         *)
(* A change of the source is taken to be visible in its size, identity or  *)
(* modification time.                                                      *)
(***************************************************************************)
EXTENDS TransferSession

uploadLeaves == <<callVars, ctx, net, hostVars, recvVars, landed, lost, changed, fileVars, copy,
                  senderDone>>

-----------------------------------------------------------------------------
(* Faulty variants of definitions below; each property must reject one. *)

sourceTrusted == TRUE
finalizerErrorsPlain == "other"
moveFlagsAlways == 1

-----------------------------------------------------------------------------
(* The stream. *)

\* The function fails with e; its deferred close comes next.
uploadFails(e) == err' = e /\ goto("delete")

StartReceiverFails ==
  /\ StartFails("receiver")
  /\ err' = "other"
  /\ goto("done")
  /\ UNCHANGED <<uploadLeaves, body, sent, mixed, artifact, committed>>

\* The loop looks at streamCtx, reads a chunk and sends it, or has read EOF.
Reads ==
  /\ role = "receiver" /\ step = "read"
  /\ \/ ~Ended /\ sent < Chunks /\ goto("send") /\ mixed' = (mixed \/ changed) /\ err' = err
     \/ ~Ended /\ sent = Chunks /\ goto("eof") /\ UNCHANGED <<mixed, err>>
     \/ (Ended \/ "local" \in Faults) /\ uploadFails("other") /\ mixed' = mixed
  /\ UNCHANGED <<uploadLeaves, body, sent, artifact, committed, told>>

Sends ==
  /\ role = "receiver" /\ step = "send"
  /\ \/ x = "ok" /\ sent' = sent + 1 /\ goto("read") /\ err' = err
     \/ x \in Bad /\ sent' = sent /\ uploadFails("other")
  /\ UNCHANGED <<uploadLeaves, body, mixed, artifact, committed, told>>

SendsEof ==
  /\ role = "receiver" /\ step = "eof"
  /\ \/ x = "ok" /\ goto("await") /\ err' = err
     \/ x \in Bad /\ uploadFails("other")
  /\ UNCHANGED <<uploadLeaves, body, sent, mixed, artifact, committed, told>>

\* The source is what it was when it was opened; the record describes what was sent.
sourceUnchanged == ~changed
recordAgrees == lost # "stream"

\* The receiver has ended: without an error the stage is verified.
Verifies ==
  /\ role = "receiver" /\ step = "await"
  /\ recv["receiver"] # "polling"
  /\ IF recv["receiver"] = "ok" /\ sourceUnchanged /\ recordAgrees
     THEN goto("delete") /\ err' = err
     ELSE uploadFails(IF recv["receiver"] = "failed" THEN "exit" ELSE "other")
  /\ UNCHANGED <<uploadLeaves, body, sent, mixed, artifact, committed, told>>

\* The receiver is closed: before the commit, or by the deferred function, which
\* then removes the stage. When the close before the commit fails, the deferred
\* one finds the session closed.
ClosesReceiver ==
  /\ \/ /\ Closes("receiver")
        /\ begin(IF err = "none" THEN "finalizer" ELSE "cleaner")
        /\ artifact' = (err # "none")
        /\ UNCHANGED <<err, told>>
     \/ /\ CloseFails("receiver")
        /\ told' = closeTold("receiver")
        /\ artifact' = TRUE
        /\ err' = IF err = "none" THEN "other" ELSE err
        /\ IF err = "none" THEN begin("cleaner") ELSE goto("done") /\ body' = body
  /\ UNCHANGED <<uploadLeaves, sent, mixed, committed>>

-----------------------------------------------------------------------------
(* The commit. *)

\* What the upload returns when the finalizer's result is not known.
finalizerErrors == "unknown"

StartFinalizerFails ==
  /\ StartFails("finalizer")
  /\ err' = finalizerErrors
  /\ artifact' = TRUE
  /\ goto("done")
  /\ UNCHANGED <<uploadLeaves, body, sent, mixed, committed>>

\* dispatchFinalizer returns after its deferred close; the deferred function of
\* uploadLanes removes the stage unless it is committed or may be.
ClosesFinalizer ==
  /\ Closes("finalizer") \/ CloseFails("finalizer")
  /\ told' = IF x = "ok" THEN told ELSE closeTold("finalizer")
  /\ committed' = (body = "ok")
  /\ artifact' = (body # "ok")
  /\ err' = CASE body = "ok"     -> IF x = "ok" THEN "none" ELSE "other"
              [] body = "failed" -> "exit"
              [] body = "error"  -> finalizerErrors
  /\ IF err' # "unknown" /\ body # "ok" THEN begin("cleaner") ELSE goto("done") /\ body' = body
  /\ UNCHANGED <<uploadLeaves, sent, mixed>>

\* cleanupRemoteStage returns: the stage is no artifact if it succeeded.
CleansStage ==
  /\ direction = "upload"
  /\ \/ StartFails("cleaner") /\ artifact' = artifact
     \/ Closes("cleaner") /\ told' = told /\ artifact' = (body # "ok")
     \/ CloseFails("cleaner") /\ told' = closeTold("cleaner") /\ artifact' = artifact
  /\ goto("done")
  /\ UNCHANGED <<uploadLeaves, body, sent, mixed, err, committed>>

-----------------------------------------------------------------------------
(* The scripts. *)

\* upload.ps1 creates the stage and, after the end of its input, writes its record.
ReceiverOpens ==
  /\ proc["receiver"] = "running"
  /\ file = "none"
  /\ file' = "partial"
  /\ UNCHANGED <<scriptLeaves, proc, sent, lost, dest>>

ReceiverEnds ==
  /\ proc["receiver"] = "drained"
  /\ file = "partial"
  /\ file' = "full"
  /\ ends("receiver", "ok")
  /\ UNCHANGED <<scriptLeaves, sent, lost, dest>>

\* control.ps1 checks the stage against what the client sent, and moves it.
stageIntact == file = "full" /\ lost = "no"
moveFlags == IF force THEN 1 ELSE 0
Moves == stageIntact /\ (moveFlags = 1 \/ dest = "none")

FinalizerMoves ==
  /\ proc["finalizer"] = "running"
  /\ IF Moves THEN file' = "none" /\ dest' = Content /\ ends("finalizer", "moved")
              ELSE UNCHANGED fileVars /\ ends("finalizer", "failed")
  /\ UNCHANGED <<scriptLeaves, sent, lost>>

FinalizerAcknowledges ==
  /\ proc["finalizer"] = "moved"
  /\ ends("finalizer", "ok")
  /\ UNCHANGED <<scriptLeaves, sent, lost, fileVars>>

\* The stage is altered after the receiver has written it.
StageAltered ==
  /\ "loss" \in Faults
  /\ file = "full" /\ lost = "no" /\ role = "finalizer"
  /\ lost' = "stage"
  /\ UNCHANGED <<scriptLeaves, proc, sent, fileVars>>

\* The source is changed while it is uploaded.
SourceChanges ==
  /\ "change" \in Faults
  /\ direction = "upload" /\ ~changed
  /\ role = "receiver"
  /\ changed' = TRUE
  /\ UNCHANGED <<callVars, ctx, mainVars, net, hostVars, recvVars, sent, landed, lost, mixed, fileVars,
                 copy, senderDone, resultVars>>

UploadMain == \/ StartReceiverFails \/ Reads \/ Sends \/ SendsEof \/ Verifies \/ ClosesReceiver
              \/ StartFinalizerFails \/ ClosesFinalizer \/ CleansStage
UploadHost == ReceiverOpens \/ ReceiverEnds \/ FinalizerMoves \/ FinalizerAcknowledges
              \/ StageAltered \/ SourceChanges
==============================================================================
