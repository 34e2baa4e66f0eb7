------------------------------- MODULE Transfer -------------------------------
(***************************************************************************)
(* Transfer (internal/remote/transfer.go): an upload or a download with    *)
(* its host, and the report of cmd/transfer.go.                            *)
(***************************************************************************)
EXTENDS Upload, Download

CONSTANT Directions

ASSUME DirectionsAssumption == Directions \subseteq {"upload", "download"}

Init ==
  /\ direction \in Directions
  /\ role = IF direction = "upload" THEN "receiver" ELSE "temp"
  /\ SessionInit

\* The transfer has returned; requests it has given up may still be processed.
Returned == step = "done" /\ UNCHANGED vars

Next == SessionNext \/ UploadMain \/ UploadHost \/ DownloadMain \/ DownloadStream
        \/ DownloadHost \/ Returned

\* The goroutines of the client are scheduled, an exchange whose context has
\* ended returns, and a budget expires. Nothing is assumed of the host.
Client == \/ Posts \/ Created \/ Commanded \/ CommandFails \/ Exchanged \/ Received
          \/ UploadMain \/ DownloadMain
Fairness == /\ WF_vars(Client)
            /\ WF_vars(GivesUp /\ (Ended \/ Budgeted))
            /\ WF_vars(LoopStops)
            /\ WF_vars(CopyEnds)

Spec == Init /\ [][Next]_vars /\ Fairness

-----------------------------------------------------------------------------
(* The report: the messages of cmd/transfer.go. *)

Report ==
  IF step # "done" THEN "none"
  ELSE CASE err = "unknown"              -> "finalization outcome unknown"
         [] err = "none" /\ committed    -> "done"
         [] err \in {"exit", "other"} /\ committed -> "committed but cleanup failed"
         [] OTHER                        -> "failed"

-----------------------------------------------------------------------------
(* Properties. *)

\* The variables have their types; the host's and the client's view of a session
\* agree as far as the client can know.
TransferTypeOK ==
  /\ direction \in Directions /\ force \in BOOLEAN /\ ctx \in {"live", "ended"}
  /\ role \in Roles
  /\ step \in DOMAIN Request \cup {"read", "await", "receive", "copy", "drain", "done"}
  /\ x \in Bad \cup {"idle", "wire", "ok"}
  /\ body \in {"none", "ok", "failed", "error"}
  /\ net \subseteq [role : Roles, op : {"Create", "Command", "Send", "Eof", "Delete"}]
  /\ shell \in [Roles -> {"none", "open", "gone"}]
  /\ proc \in [Roles -> Alive \cup {"none", "ok", "failed", "killed"}]
  /\ recv \in [Roles -> {"none", "polling", "ok", "failed", "error"}]
  /\ closed \subseteq Roles /\ told \subseteq Roles
  /\ sent \in 0 .. Chunks /\ landed \in 0 .. sent
  /\ lost \in {"no", "stream", "stage"} /\ changed \in BOOLEAN /\ mixed \in BOOLEAN
  /\ file \in {"none", "partial", "full"} /\ dest \in {"none", "old", "new", "bad"}
  /\ copy \in {"none", "running", "ok", "failed"}
  /\ {senderDone, artifact, committed} \subseteq BOOLEAN
  /\ err \in {"none", "unknown", "exit", "other"}

\* What the user is told of the destination is true and stays true, whatever the
\* host still does with requests that were given up: after a success the new file
\* is there, after a plain failure it is not and never will be. Only when the
\* finalizer's answer is missing may either be the case.
OutcomeHonest ==
  /\ Report \in {"done", "committed but cleanup failed"} => dest = "new"
  /\ Report = "failed" => dest \in {"none", "old"}

\* The destination never gets other bytes than the source had when it was opened:
\* not a part, not a mixture of two versions, not altered data.
CommittedIsSource == dest # "bad"

\* Without --force a destination that exists, even one that appears while the
\* transfer runs, is never replaced.
NoClobber == [][dest = "old" /\ ~force => dest' = "old"]_vars

\* Once the receiver or the sender has started, a transfer that returns names the
\* stage or control record it may have left on the host, then or later.
LeftoversReported ==
  step = "done" /\ recv[Holder] # "none" /\ file # "none" => artifact

\* An upload that returns has an error for each Shell it may have left on the
\* host, be it created or deleted late.
UploadTellsOrphans ==
  step = "done" /\ direction = "upload" =>
    \A r \in Roles : shell[r] = "open" \/ [role |-> r, op |-> "Create"] \in net => r \in told

\* After a success there is nothing left on the host, and nothing to come.
SuccessLeavesNothing ==
  Report = "done" => file = "none" /\ net = {} /\ \A r \in Roles : shell[r] # "open"

\* docs/architecture.md:54-55, 80: cleanup is bounded and reports leftovers. A
\* download that returns has an error for the sender's Shell if it may be left.
SenderEnded ==
  step = "done" /\ direction = "download" /\ shell["sender"] = "open" => "sender" \in told

\* The transfer as Replacement sees it: what the host has of it beside the
\* destination, now or by a request on its way.
Traces == file # "none" \/ net # {} \/ \E r \in Roles : shell[r] = "open"

Exchange == INSTANCE Replacement WITH traces <- Traces, report <- Report

\* The transfer keeps what Replacement promises: the destination changes in one step,
\* never against --force, and no more once the report has said what it is; the report
\* is given once, and after done the host has and gets nothing.
ImplementsReplacement == Exchange!Spec

\* A transfer whose context has ended returns, though the host never answers.
TransferReturns == ctx = "ended" ~> step = "done"
==============================================================================
