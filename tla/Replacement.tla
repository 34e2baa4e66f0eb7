------------------------------ MODULE Replacement ------------------------------
(***************************************************************************)
(* What an upload or a download promises of its destination, as            *)
(* docs/architecture.md puts it: one file is exchanged for another in a    *)
(* single step, and the report that ends the transfer holds from then on.  *)
(* Sessions, scripts, chunks and records do not appear: Transfer           *)
(* implements this.                                                        *)
(***************************************************************************)

VARIABLES
  force,  \* whether an existing file may be replaced
  dest,   \* the destination: "none", "old", somebody else's file, or "new"
  traces, \* whether the host has, or may still get, anything else of the transfer
  report  \* "none", and then what the user is told

replacement == <<force, dest, traces, report>>

Init ==
  /\ force \in BOOLEAN
  /\ dest \in {"none", "old"}
  /\ traces = FALSE
  /\ report = "none"

\* Somebody else creates the file.
Appears ==
  /\ dest = "none"
  /\ dest' = "old"
  /\ UNCHANGED <<force, traces, report>>

\* The new file takes its place, whole; after the report only if that left it open.
Replaces ==
  /\ report \in {"none", "finalization outcome unknown"}
  /\ force \/ dest = "none"
  /\ dest' = "new"
  /\ traces' \in BOOLEAN
  /\ UNCHANGED <<force, report>>

\* The host works for the transfer, or what it holds is removed.
Works ==
  /\ report # "done"
  /\ traces' = ~traces
  /\ UNCHANGED <<force, dest, report>>

\* The transfer ends, and says what came of the destination.
Reports ==
  /\ report = "none"
  /\ \/ report' = "done" /\ dest = "new" /\ ~traces
     \/ report' = "committed but cleanup failed" /\ dest = "new"
     \/ report' = "failed" /\ dest # "new"
     \/ report' = "finalization outcome unknown"
  /\ UNCHANGED <<force, dest, traces>>

Next == Appears \/ Replaces \/ Works \/ Reports

Spec == Init /\ [][Next]_replacement

=============================================================================
