------------------------------- MODULE Handshake -------------------------------
(***************************************************************************)
(* How a lane is opened: authenticateConnection and NewPersistentPosters   *)
(* (internal/remote/persistent.go) with the retries of                     *)
(* internal/remote/transport.go. Three requests without a body, the legs,  *)
(* bind a security context to one TCP connection. net/http may find that   *)
(* connection closed and dial another before any later request; the        *)
(* transport lets it dial once only.                                       *)
(*                                                                         *)
(* One goroutine opens lanes, one after the other. A leg and its answer    *)
(* are one step. The server is external: it accepts the last leg only on   *)
(* the connection that carried the one before.                             *)
(***************************************************************************)
EXTENDS Naturals, Lanes

CONSTANT Retries \* how often a handshake is repeated: 2 in the code

ASSUME RetriesAssumption == Retries \in Nat

VARIABLE shake \* the lane being opened, its next leg, and the attempts so far

Legs == {"discovery", "negotiate", "authenticate"}

NoShake == [lane |-> "none", leg |-> "none", try |-> 0]

HandshakeTypeOK ==
  shake \in [lane : LaneSet, leg : Legs \cup {"done", "failed"}, try : 0..Retries] \cup {NoShake}

-----------------------------------------------------------------------------
(* A faulty variant of a definition below. *)

pinnedFromDiscovery(l) == sock' = [sock EXCEPT ![l] = [dialed |-> "no", conn |-> "begun"]]

-----------------------------------------------------------------------------
\* An attempt to open lane l has a transport of its own.
attempt(l, n) ==
  /\ shake' = [lane |-> l, leg |-> "discovery", try |-> n]
  /\ sock' = [sock EXCEPT ![l] = Undialed]

\* A leg of the handshake is answered as it should be. Its context is still live:
\* an answer that races the end of the context is one that comes before it.
legOf(leg, next, ended) ==
  /\ shake.leg = leg /\ ~ended
  /\ shake' = [shake EXCEPT !.leg = next]

\* The answer to the first request names the scheme. Its connection is closed; the
\* security context gets a fresh one.
discovered(ended) ==
  /\ legOf("discovery", "negotiate", ended)
  /\ carriers(shake.lane) \ {"refused"} # {}
  /\ sock' = [sock EXCEPT ![shake.lane] = Undialed]

\* The server's challenge begins a context on the connection.
begins(l) == sock' = [sock EXCEPT ![l] = [dialed |-> "yes", conn |-> "begun"]]

negotiated(ended) ==
  /\ legOf("negotiate", "authenticate", ended)
  /\ carriers(shake.lane) \ {"refused"} # {}
  /\ begins(shake.lane)

authenticated(ended) ==
  /\ legOf("authenticate", "done", ended)
  /\ "begun" \in carriers(shake.lane)
  /\ sock' = [sock EXCEPT ![shake.lane].conn = "bound"]

\* A leg that ended with a timeout or a broken connection is worth another
\* handshake, which repeats no SOAP request: none was sent.
retried(ended) == ~ended /\ "break" \in Faults /\ shake.try < Retries

\* A leg fails: its context has ended, the connection broke, the server refuses, or
\* the connection was closed and a second one is not dialed.
legFails(ended) ==
  /\ shake.leg \in Legs
  /\ ended \/ Faults \cap {"break", "refuse"} # {}
  /\ \/ retried(ended) /\ attempt(shake.lane, shake.try + 1)
     \/ shake' = [shake EXCEPT !.leg = "failed"] /\ sock' = sock

legs(ended) ==
  /\ discovered(ended) \/ negotiated(ended) \/ authenticated(ended) \/ legFails(ended)
  /\ UNCHANGED <<holder, health, call, net, reply, torn>>
=============================================================================
