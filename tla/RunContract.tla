------------------------------ MODULE RunContract ------------------------------
(***************************************************************************)
(* The contract between package control and package remote: the errors     *)
(* remote.RunWithPosters may return, as the sentinels errors.Is finds in   *)
(* them (internal/remote/control_runner.go). MasterServer relies on it,    *)
(* Session is checked against it.                                          *)
(***************************************************************************)

\* errs may be returned when the caller's context is ctx and dispatched says
\* whether the request that creates the Shell was handed to its connection:
\*   - ErrNotStarted only if it was not, ErrRemoteStateUnknown and
\*     ErrCleanupFailed only if it was;
\*   - context.Canceled only if the caller cancelled;
\*   - context.DeadlineExceeded if the caller's deadline passed, or, once
\*     something was dispatched, from the cleanup budget or an HTTP timeout.
RunMayReturn(errs, ctx, dispatched) ==
  /\ "not-started" \in errs => ~dispatched
  /\ errs \cap {"unknown", "cleanup-failed"} # {} => dispatched
  /\ "canceled" \in errs => ctx = "canceled"
  /\ "deadline" \in errs => dispatched \/ ctx = "deadline"

=============================================================================
