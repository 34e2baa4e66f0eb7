--------------------------------- MODULE Lanes ---------------------------------
(***************************************************************************)
(* The authenticated connections of winsh, its lanes: persistentPoster     *)
(* (internal/remote/persistent.go). A lane carries one exchange at a time, *)
(* under its mutex, and numbers its messages for the NTLM session, so that *)
(* it must never carry another once the outcome of one is uncertain.       *)
(*                                                                         *)
(* The module is about the exchanges of a fixed set of goroutines, Procs,  *)
(* over a fixed set of lanes. A request is on the network from the moment  *)
(* it is written: it may reach the host after the client gave it up.       *)
(***************************************************************************)

CONSTANTS
  Procs,   \* the goroutines that post
  LaneSet, \* the lanes
  Free,    \* the holder of a mutex that is not held
  Faults   \* "break": exchanges may fail; "refuse": a lane may be unable to send;
           \* "slow": a heartbeat may get no answer in time

ASSUME ProcsAssumption == Free \notin Procs
ASSUME FaultsAssumption == Faults \subseteq {"break", "refuse", "slow"}

VARIABLES
  holder, \* persistentPoster.mu
  health, \* "new" until it is authenticated, then "good", "failed" or "closed"
  call,   \* the exchange of each goroutine
  net,    \* the requests written that the host has not processed
  reply,  \* what the host answered to the exchange on the lane
  torn,   \* history: the lanes whose last exchange has an uncertain outcome
  sock    \* the TCP connection of each lane, and whether its transport has dialed

laneVars == <<holder, health, call, net, reply, torn, sock>>

Messages == {"Create", "Command", "Send", "Receive", "Signal", "Delete", "Identify"}

\* What the host answers: a valid response ("ok"; to a Receive "more", "done" with
\* the exit code, or "timeout" when there is no output yet) or anything else.
Replies == {"ok", "more", "done", "timeout", "fault"}

\* How an exchange ends: an answer, an error that leaves its outcome uncertain, or
\* an error that precedes sending it (errUnsent).
Outcomes == Replies \cup {"error", "unsent"}

Calls == [lane : LaneSet, message : Messages, stage : {"lock", "wire"} \cup Outcomes]
Idle  == [lane |-> "none", message |-> "none", stage |-> "idle"]

\* What a connection carries: the security context of its lane ("bound"), the first
\* half of one, or none.
Conns == {"none", "plain", "begun", "bound"}
Undialed == [dialed |-> "no", conn |-> "none"]
Pinned   == [dialed |-> "yes", conn |-> "bound"]

LanesTypeOK ==
  /\ holder \in [LaneSet -> Procs \cup {Free}]
  /\ health \in [LaneSet -> {"new", "good", "failed", "closed"}]
  /\ call \in [Procs -> Calls \cup {Idle}]
  /\ net \subseteq [lane : LaneSet, message : Messages]
  /\ reply \in [LaneSet -> Replies \cup {"none"}]
  /\ torn \subseteq LaneSet
  /\ sock \in [LaneSet -> [dialed : {"no", "yes"}, conn : Conns]]

\* The lanes in opened are authenticated.
LanesInit(opened) ==
  /\ holder = [l \in LaneSet |-> Free]
  /\ health = [l \in LaneSet |-> IF l \in opened THEN "good" ELSE "new"]
  /\ call = [p \in Procs |-> Idle]
  /\ net = {}
  /\ reply = [l \in LaneSet |-> "none"]
  /\ torn = {}
  /\ sock = [l \in LaneSet |-> IF l \in opened THEN Pinned ELSE Undialed]

-----------------------------------------------------------------------------
(* A faulty variant of a definition below. *)

failForgotten(l) == health' = health /\ torn' = torn \cup {l}

-----------------------------------------------------------------------------

\* The state of calls once p has called Post on lane l.
Posted(p, l, m) == [call EXCEPT ![p] = [lane |-> l, message |-> m, stage |-> "lock"]]

\* A transport dials once; a second dial is refused, before anything is written.
dialable(l) == sock[l].dialed = "no"

\* The connections a request on lane l may find itself on. net/http takes the one it
\* has; if there is none, or the server has closed it, it dials.
carriers(l) ==
  ({sock[l].conn} \ {"none"})
    \cup IF sock[l].conn = "none" \/ "refuse" \in Faults
         THEN {IF dialable(l) THEN "plain" ELSE "refused"} ELSE {}

\* fail(): the lane is not used again.
fail(l) ==
  /\ health' = [health EXCEPT ![l] = "failed"]
  /\ torn' = torn \cup {l}

\* postLocked up to the moment request m is written, for a p that has the mutex
\* and a context that has ended or not. A request that finds the connection closed
\* by the server and is refused a second one fails the lane unsent, and so does one
\* that cannot be sealed.
written(p, l, m, ended) ==
  LET at(stage) == [call EXCEPT ![p] = [lane |-> l, message |-> m, stage |-> stage]]
  IN  \/ /\ health[l] # "good" \/ ended
         /\ call' = at("unsent")
         /\ UNCHANGED <<holder, health, net, reply, torn, sock>>
      \/ /\ health[l] = "good" /\ ~ended /\ "refused" \in carriers(l)
         /\ call' = at("unsent")
         /\ fail(l)
         /\ UNCHANGED <<holder, net, reply, sock>>
      \/ /\ health[l] = "good" /\ ~ended
         /\ call' = at("wire")
         /\ holder' = [holder EXCEPT ![l] = p]
         /\ net' = net \cup {[lane |-> l, message |-> m]}
         /\ \E c \in carriers(l) \ {"refused"} :
              sock' = [sock EXCEPT ![l] = [dialed |-> "yes", conn |-> c]]
         /\ UNCHANGED <<health, reply, torn>>

\* Post gets the mutex. It waits for it whatever happens to its context.
postLocked(p, ended) ==
  /\ call[p].stage = "lock"
  /\ holder[call[p].lane] = Free
  /\ written(p, call[p].lane, call[p].message, ended)

\* The host has processed request m and answers r to whoever still waits for it.
answered(m, r) ==
  /\ net' = net \ {m}
  /\ reply' = IF \E p \in Procs : call[p] = [lane |-> m.lane, message |-> m.message, stage |-> "wire"]
              THEN [reply EXCEPT ![m.lane] = r] ELSE reply
  /\ UNCHANGED <<holder, health, call, torn, sock>>

\* The response arrives and is one the lane accepts.
replied(p) ==
  LET l == call[p].lane
  IN  /\ call[p].stage = "wire" /\ call[p].message # "Identify"
      /\ reply[l] # "none"
      /\ call' = [call EXCEPT ![p].stage = reply[l]]
      /\ reply' = [reply EXCEPT ![l] = "none"]
      /\ holder' = [holder EXCEPT ![l] = Free]
      /\ UNCHANGED <<health, net, torn, sock>>

\* The same for a heartbeat, which fails the lane unless the response is an
\* IdentifyResponse.
identified(p) ==
  LET l == call[p].lane
  IN  /\ call[p].stage = "wire" /\ call[p].message = "Identify"
      /\ reply[l] # "none"
      /\ reply' = [reply EXCEPT ![l] = "none"]
      /\ holder' = [holder EXCEPT ![l] = Free]
      /\ \/ /\ reply[l] = "ok"
            /\ call' = [call EXCEPT ![p].stage = "ok"]
            /\ UNCHANGED <<health, torn>>
         \/ /\ reply[l] # "ok"
            /\ call' = [call EXCEPT ![p].stage = "error"]
            /\ fail(l)
      /\ UNCHANGED <<net, sock>>

\* The exchange fails: its context has ended, the connection broke, or what came
\* back was no SOAP response. The request may be lost or still on its way.
broken(p, ended) ==
  LET l == call[p].lane
  IN  /\ call[p].stage = "wire"
      /\ ended \/ "break" \in Faults
      /\ call' = [call EXCEPT ![p].stage = "error"]
      /\ \/ net' = net
         \/ net' = net \ {[lane |-> l, message |-> call[p].message]}
      /\ reply' = [reply EXCEPT ![l] = "none"]
      /\ holder' = [holder EXCEPT ![l] = Free]
      /\ fail(l)
      /\ sock' = sock

\* KeepAlive on a lane: held by another exchange or used recently, it is left
\* alone; failed, it is an error; otherwise it gets an Identify at once.
keepAliveSkips(l) == holder[l] # Free \/ health[l] = "good"
keepAliveFails(l) == holder[l] = Free /\ health[l] # "good"
keepAlive(p, l, ended) ==
  /\ holder[l] = Free /\ health[l] = "good"
  /\ written(p, l, "Identify", ended)

\* The posters are closed.
lanesClose(S) ==
  /\ health' = [l \in LaneSet |-> IF l \in S THEN "closed" ELSE health[l]]
  /\ UNCHANGED <<holder, call, net, reply, torn, sock>>

-----------------------------------------------------------------------------
(* Properties. *)

\* A lane never carries a request after an exchange whose outcome is uncertain:
\* its NTLM message numbers would no longer be those of the server. Nor does it ever
\* carry one on a connection other than the one its security context is bound to.
SequenceIntact ==
  \A p \in Procs :
    call[p].stage = "wire" => call[p].lane \notin torn /\ sock[call[p].lane].conn = "bound"

=============================================================================
