------------------------------- MODULE RemoteRun -------------------------------
(***************************************************************************)
(* What remote.RunWithPosters promises its caller, the master: at some     *)
(* moment before it returns it may hand the request that creates the Shell *)
(* to its lane, and it returns once, with errors that RunContract allows.  *)
(* The worker of MasterServer is a caller of this specification:           *)
(* executeSends is Dispatches and executeReturns is Returns.               *)
(***************************************************************************)
EXTENDS RunContract

VARIABLES
  phase,      \* "running" or "returned"
  ctx,        \* the caller's context: "live", "canceled" or "deadline"
  dispatched, \* "no", or "yes" when the Create request was written
  errs        \* what it returned, as a set of sentinels; {} is nil

Init ==
  /\ phase = "running" /\ dispatched = "no" /\ errs = {}
  /\ ctx \in {"live", "canceled", "deadline"}

ContextEnds ==
  /\ phase = "running" /\ ctx = "live"
  /\ ctx' \in {"canceled", "deadline"}
  /\ UNCHANGED <<phase, dispatched, errs>>

Dispatches ==
  /\ phase = "running" /\ dispatched = "no"
  /\ dispatched' = "yes"
  /\ UNCHANGED <<phase, ctx, errs>>

\* It returns nil only for a command that was dispatched.
Returns ==
  /\ phase = "running"
  /\ phase' = "returned"
  /\ errs' = {} => dispatched = "yes"
  /\ RunMayReturn(errs', ctx, dispatched = "yes")
  /\ UNCHANGED <<ctx, dispatched>>

Next == ContextEnds \/ Dispatches \/ Returns

Spec == Init /\ [][Next]_<<phase, ctx, dispatched, errs>>

=============================================================================
