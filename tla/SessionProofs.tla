----------------------------- MODULE SessionProofs -----------------------------
(***************************************************************************)
(* What Session guarantees for both callers, every set of faults and       *)
(* lanes, and any number of retries: its type invariant and the inductive  *)
(* invariant that its safety properties and the refinement of RemoteRun    *)
(* follow from.                                                            *)
(***************************************************************************)
EXTENDS Session, SequenceTheorems, TLAPS

\* The request of each goroutine, from where the goroutine is.
CallInv ==
  /\ main \in {"open", "unopened", "none", "receive", "join", "stop", "returned"} => call["main"] = Idle
  /\ main = "create" => call["main"].message = "Create" /\ call["main"].lane = "command"
  /\ main = "command" => call["main"].message = "Command" /\ call["main"].lane = "command"
  /\ main = "send" => call["main"].message = "Send" /\ call["main"].lane = "command"
  /\ main = "signal" => call["main"].message = "Signal" /\ call["main"].lane = "cleanup"
  /\ main \in {"delete", "abandon"} => call["main"].message = "Delete"
  /\ recv = "reply" => call["recv"].message = "Receive" /\ call["recv"].lane = "command"
  /\ recv # "reply" => call["recv"] = Idle
  /\ call["beat"] # Idle => /\ beat \in {"beatcommand", "beatcleanup"}
                            /\ call["beat"].message = "Identify" /\ call["beat"].stage # "lock"
  /\ main \in {"open", "unopened", "none", "create", "command", "abandon"} => recv = "none"
  /\ main = "open" => beat = "none"

\* A lane is opened before the command or for the Delete that waits for it, and the
\* legs already answered left their trace on its connection.
ShakeInv ==
  /\ shake # NoShake =>
       /\ health[shake.lane] = "new"
       /\ main = "open" \/ (call["main"].stage = "lock" /\ call["main"].lane = shake.lane)
       /\ shake.leg = "authenticate" => sock[shake.lane] = [dialed |-> "yes", conn |-> "begun"]
       /\ shake.leg = "done" => sock[shake.lane] = Pinned
  /\ main = "open" => /\ health["cleanup"] = "new"
                      /\ shake.lane # "cleanup" => health["command"] = "new"

\* The mutex of a lane, the exchange on it, its health and its connection agree.
LaneOK(l) ==
  /\ holder[l] # Free => call[holder[l]].stage = "wire" /\ call[holder[l]].lane = l
  /\ health[l] = "good" => l \notin torn /\ sock[l] = Pinned
  /\ health[l] = "new" => l \notin torn /\ holder[l] = Free
  /\ reply[l] # "none" => holder[l] # Free

WireOK(p) ==
  call[p].stage = "wire" =>
    /\ holder[call[p].lane] = p /\ call[p].lane \notin torn /\ sock[call[p].lane] = Pinned

LanesInv == (\A l \in LaneSet : LaneOK(l)) /\ (\A p \in Procs : WireOK(p))

\* The places of main at which request m has not been posted yet.
Before(m) ==
  {"open", "unopened", "none"}
    \cup (IF m = "Create" THEN {} ELSE {"create"})
    \cup (IF m \in {"Create", "Command"} THEN {} ELSE {"command"})
    \cup (IF m = "Send" THEN {"abandon"} ELSE {})
    \cup (IF m = "Signal" THEN {"abandon", "send", "receive"} ELSE {})
    \cup (IF m = "Delete" THEN {"send", "receive", "signal"} ELSE {})

\* The request in hand has been written unless it waits or was refused unsent;
\* those to come have not.
WritesInv ==
  /\ \A m \in Once :
       /\ writes[m] \in {0, 1}
       /\ main \in Before(m) => writes[m] = 0
       /\ call["main"].message = m =>
            (writes[m] = 0 <=> call["main"].stage \in {"lock", "unsent"})
  /\ main \in {"command", "abandon", "send", "receive", "signal", "delete", "join"} =>
       writes["Create"] = 1

\* What a request still on the network says about the session.
NetOK(x) ==
  /\ x.message \in Once => writes[x.message] = 1
  /\ x.message \in {"Create", "Command", "Send", "Receive"} => x.lane = "command"
  /\ \A p \in {"main", "recv"} : call[p].message = x.message =>
       /\ x.lane = call[p].lane /\ call[p].stage \in {"wire", "error"}
       /\ call[p].stage = "wire" => reply[x.lane] = "none"
  /\ x.message = "Create" => shell = "none" /\ main \in {"create", "stop", "returned"}
  /\ x.message = "Command" => recv = "none"
  /\ x.message = "Send" => main = "send" \/ (main # "receive" /\ runErr # {})
  /\ x.message = "Receive" => recv = "reply" \/ (recv = "gone" /\ recvErr # {})
  /\ x.message = "Signal" => main = "signal" \/ signal = "failed"
  /\ x.message = "Delete" => main \in {"delete", "abandon"} \/ deleted = "no"

NetInv == \A x \in net : NetOK(x)

\* Request m of p was answered with r, or the answer is on its way.
Told(p, r) ==
  call[p].stage = r \/ (call[p].stage = "wire" /\ reply[call[p].lane] = r)

\* What the client knows about the host is so.
HostInv ==
  /\ writes["Create"] = 0 => shell = "none"
  /\ deleted = "yes" => shell = "gone"
  /\ main \in {"delete", "abandon"} /\ Told("main", "ok") => shell = "gone"
  /\ recv = "reply" /\ Told("recv", "done") => process = "exited"
  /\ recv = "writelast" \/ (recv = "gone" /\ recvErr = {}) => process = "exited"

\* What an error, or none, stands for.
ErrorInv ==
  /\ runErr \cup recvErr \subseteq {"other", "canceled", "deadline"}
  /\ "canceled" \in runErr \cup recvErr => ctx = "canceled"
  /\ main = "abandon" => runErr # {}
  /\ main \in {"signal", "delete", "join"} /\ runErr = {} => recv = "gone" /\ recvErr = {}
  /\ main \in {"stop", "returned"} /\ errs = {} =>
       /\ recv = "gone" /\ recvErr = {} /\ runErr = {}
       /\ deleted = "yes" /\ signal # "failed"
  /\ main \in {"stop", "returned"} =>
       /\ RunMayReturn(errs, ctx, writes["Create"] > 0)
       /\ errs = {} => writes["Create"] > 0

IndInv ==
  /\ SessionTypeOK /\ CallInv /\ ShakeInv /\ LanesInv /\ WritesInv
  /\ NetInv /\ HostInv /\ ErrorInv /\ NoOrphan

-----------------------------------------------------------------------------
(* The operations on a lane keep its mutex, its health and its connection in *)
(* agreement, whoever uses it.                                               *)

\* The exchanges change, but none gets on or off the network.
LEMMA LanesIdle ==
  ASSUME LanesInv, LanesTypeOK, LanesTypeOK',
         UNCHANGED <<holder, health, torn, sock, reply>>,
         \A p \in Procs : call'[p] = call[p] \/ (call[p].stage # "wire" /\ call'[p].stage # "wire")
  PROVE  LanesInv'
<1>1. ASSUME NEW l \in LaneSet
      PROVE  LaneOK(l)'
  <2>1. holder[l] # Free => holder[l] \in Procs
    BY DEF LanesTypeOK
  <2>. QED
    BY <2>1 DEF LanesInv, LaneOK
<1>2. ASSUME NEW p \in Procs
      PROVE  WireOK(p)'
  BY <1>2 DEF LanesInv, WireOK
<1>. QED
  BY <1>1, <1>2 DEF LanesInv

\* A goroutine that has the mutex writes its request, or fails to.
LEMMA LanesWritten ==
  ASSUME LanesInv, LanesTypeOK, NEW p \in Procs, NEW l \in LaneSet, NEW m \in Messages, NEW ended,
         call[p].stage # "wire", holder[l] = Free, written(p, l, m, ended)
  PROVE  /\ LanesTypeOK' /\ LanesInv'
         /\ \A q \in Procs : q # p => call'[q] = call[q]
         /\ reply' = reply /\ holder[l] = Free
         /\ \A k \in LaneSet : health[k] = "new" <=> health'[k] = "new"
         /\ \A k \in LaneSet : health[k] = "new" => sock'[k] = sock[k]
         /\ \/ call'[p] = [lane |-> l, message |-> m, stage |-> "unsent"] /\ net' = net
            \/ /\ call'[p] = [lane |-> l, message |-> m, stage |-> "wire"]
               /\ net' = net \cup {[lane |-> l, message |-> m]}
<1>0. Free \notin Procs
  BY ProcsAssumption
<1>1. CASE /\ health[l] # "good" \/ ended
           /\ call' = [call EXCEPT ![p] = [lane |-> l, message |-> m, stage |-> "unsent"]]
           /\ UNCHANGED <<holder, health, net, reply, torn, sock>>
  <2>1. LanesTypeOK'
    BY <1>1 DEF LanesTypeOK, Calls, Outcomes
  <2>2. \A q \in Procs : q # p => call'[q] = call[q]
    BY <1>1 DEF LanesTypeOK
  <2>3. call'[p] = [lane |-> l, message |-> m, stage |-> "unsent"]
    BY <1>1 DEF LanesTypeOK
  <2>4. LanesInv'
    BY <1>1, <2>1, <2>2, <2>3, LanesIdle
  <2>. QED
    BY <1>1, <2>1, <2>2, <2>3, <2>4
<1>2. CASE /\ health[l] = "good"
           /\ call' = [call EXCEPT ![p] = [lane |-> l, message |-> m, stage |-> "unsent"]]
           /\ fail(l)
           /\ UNCHANGED <<holder, net, reply, sock>>
  <2>1. LanesTypeOK'
    BY <1>2 DEF LanesTypeOK, Calls, Outcomes, fail
  <2>2. \A q \in Procs : q # p => call'[q] = call[q]
    BY <1>2 DEF LanesTypeOK
  <2>3. call'[p] = [lane |-> l, message |-> m, stage |-> "unsent"]
    BY <1>2 DEF LanesTypeOK
  <2>4. \A k \in LaneSet : k # l => health'[k] = health[k] /\ (k \in torn' <=> k \in torn)
    BY <1>2 DEF fail, LanesTypeOK
  <2>5. health'[l] = "failed"
    BY <1>2 DEF fail, LanesTypeOK
  <2>6. ASSUME NEW k \in LaneSet
        PROVE  LaneOK(k)'
    <3>1. holder[k] # Free => holder[k] \in Procs /\ holder[k] # p
      BY DEF LanesTypeOK, LanesInv, LaneOK
    <3>. QED
      BY <1>2, <2>2, <2>4, <2>5, <3>1 DEF LanesInv, LaneOK
  <2>7. ASSUME NEW q \in Procs
        PROVE  WireOK(q)'
    <3>1. CASE q = p
      BY <2>3, <3>1 DEF WireOK
    <3>2. CASE q # p /\ call[q].stage = "wire"
      <4>1. call[q].lane \in LaneSet /\ call[q].lane # l
        BY <1>0, <2>7, <3>2 DEF LanesInv, WireOK, LanesTypeOK, Calls, Idle
      <4>. QED
        BY <1>2, <2>2, <2>4, <3>2, <4>1 DEF LanesInv, WireOK
    <3>3. CASE q # p /\ call[q].stage # "wire"
      BY <2>2, <3>3 DEF WireOK
    <3>. QED
      BY <3>1, <3>2, <3>3
  <2>. QED
    BY <1>2, <2>1, <2>2, <2>3, <2>4, <2>5, <2>6, <2>7 DEF LanesInv
<1>3. ASSUME NEW c \in carriers(l) \ {"refused"},
             health[l] = "good",
             call' = [call EXCEPT ![p] = [lane |-> l, message |-> m, stage |-> "wire"]],
             holder' = [holder EXCEPT ![l] = p],
             net' = net \cup {[lane |-> l, message |-> m]},
             sock' = [sock EXCEPT ![l] = [dialed |-> "yes", conn |-> c]],
             UNCHANGED <<health, reply, torn>>
      PROVE  /\ LanesTypeOK' /\ LanesInv'
             /\ \A q \in Procs : q # p => call'[q] = call[q]
             /\ reply' = reply /\ holder[l] = Free
             /\ \A k \in LaneSet : health[k] = "new" <=> health'[k] = "new"
             /\ \A k \in LaneSet : health[k] = "new" => sock'[k] = sock[k]
             /\ call'[p] = [lane |-> l, message |-> m, stage |-> "wire"]
  <2>1. sock[l] = Pinned /\ l \notin torn
    BY <1>3 DEF LanesInv, LaneOK
  <2>2. c = "bound"
    BY <1>3, <2>1 DEF carriers, dialable, Pinned
  <2>3. sock' = sock
    BY <1>3, <2>1, <2>2 DEF LanesTypeOK, Pinned
  <2>4. LanesTypeOK'
    BY <1>3, <2>3 DEF LanesTypeOK, Calls
  <2>5. \A q \in Procs : q # p => call'[q] = call[q]
    BY <1>3 DEF LanesTypeOK
  <2>6. call'[p] = [lane |-> l, message |-> m, stage |-> "wire"]
    BY <1>3 DEF LanesTypeOK
  <2>7. holder'[l] = p /\ \A k \in LaneSet : k # l => holder'[k] = holder[k]
    BY <1>3 DEF LanesTypeOK
  <2>8. ASSUME NEW k \in LaneSet
        PROVE  LaneOK(k)'
    <3>1. CASE k = l
      BY <1>0, <1>3, <2>1, <2>3, <2>6, <2>7, <3>1 DEF LanesInv, LaneOK
    <3>2. CASE k # l
      <4>1. holder[k] # Free => holder[k] \in Procs /\ holder[k] # p
        BY DEF LanesTypeOK, LanesInv, LaneOK
      <4>. QED
        BY <1>3, <2>3, <2>5, <2>7, <3>2, <4>1 DEF LanesInv, LaneOK
    <3>. QED
      BY <3>1, <3>2
  <2>9. ASSUME NEW q \in Procs
        PROVE  WireOK(q)'
    <3>1. CASE q = p
      BY <1>3, <2>1, <2>3, <2>6, <2>7, <3>1 DEF WireOK
    <3>2. CASE q # p /\ call[q].stage = "wire"
      <4>1. call[q].lane \in LaneSet /\ call[q].lane # l
        BY <1>0, <2>9, <3>2 DEF LanesInv, WireOK, LanesTypeOK, Calls, Idle
      <4>. QED
        BY <1>3, <2>3, <2>5, <2>7, <3>2, <4>1 DEF LanesInv, WireOK
    <3>3. CASE q # p /\ call[q].stage # "wire"
      BY <2>5, <3>3 DEF WireOK
    <3>. QED
      BY <3>1, <3>2, <3>3
  <2>. QED
    BY <1>3, <2>3, <2>4, <2>5, <2>6, <2>8, <2>9 DEF LanesInv
<1>. QED
  BY <1>1, <1>2, <1>3 DEF written

\* The exchange of p ends: it leaves the network and gives the mutex back, and the
\* lane fails or stays as it is.
LEMMA LanesFreed ==
  ASSUME LanesInv, LanesTypeOK, NEW p \in Procs, NEW stage \in Outcomes,
         call[p].stage = "wire", call' = [call EXCEPT ![p].stage = stage],
         holder' = [holder EXCEPT ![call[p].lane] = Free],
         reply' = [reply EXCEPT ![call[p].lane] = "none"],
         UNCHANGED <<health, torn>> \/ fail(call[p].lane),
         sock' = sock, net' \subseteq net
  PROVE  /\ LanesTypeOK' /\ LanesInv'
         /\ \A q \in Procs : q # p => call'[q] = call[q]
         /\ call'[p] = [lane |-> call[p].lane, message |-> call[p].message, stage |-> stage]
         /\ \A q \in Procs : q # p /\ call[q].stage = "wire" => call[q].lane # call[p].lane
         /\ \A k \in LaneSet : k # call[p].lane => reply'[k] = reply[k]
         /\ reply'[call[p].lane] = "none"
         /\ \A k \in LaneSet : health[k] = "new" <=> health'[k] = "new"
<1>. DEFINE l == call[p].lane
<1>1. Free \notin Procs
  BY ProcsAssumption
<1>2. call[p] \in Calls /\ l \in LaneSet
  BY DEF LanesTypeOK, Calls, Idle
<1>3. call'[p] = [lane |-> l, message |-> call[p].message, stage |-> stage]
  BY <1>2 DEF LanesTypeOK, Calls
<1>4. call'[p] \in Calls
  BY <1>2, <1>3 DEF Calls
<1>5. \A q \in Procs : q # p => call'[q] = call[q]
  BY DEF LanesTypeOK
<1>6. call' \in [Procs -> Calls \cup {Idle}]
  <2>1. call' = [q \in Procs |-> IF q = p THEN call'[p] ELSE call[q]]
    BY DEF LanesTypeOK
  <2>. QED
    BY <1>4, <2>1 DEF LanesTypeOK
<1>7. /\ holder'[l] = Free /\ \A k \in LaneSet : k # l => holder'[k] = holder[k]
      /\ reply'[l] = "none" /\ \A k \in LaneSet : k # l => reply'[k] = reply[k]
      /\ \A k \in LaneSet : k # l => health'[k] = health[k] /\ (k \in torn' <=> k \in torn)
  BY <1>2 DEF LanesTypeOK, fail
<1>8. LanesTypeOK'
  <2>1. /\ holder' \in [LaneSet -> Procs \cup {Free}]
        /\ reply' \in [LaneSet -> Replies \cup {"none"}]
        /\ net' \subseteq [lane : LaneSet, message : Messages]
    BY <1>2 DEF LanesTypeOK
  <2>2. health' \in [LaneSet -> {"new", "good", "failed", "closed"}] /\ torn' \subseteq LaneSet
    BY <1>2 DEF LanesTypeOK, fail
  <2>. QED
    BY <1>6, <2>1, <2>2 DEF LanesTypeOK
<1>9. health[l] # "new" /\ l \notin torn /\ holder[l] = p
  BY <1>1, <1>2 DEF LanesInv, WireOK, LaneOK
<1>10. health'[l] # "new" /\ (health'[l] = "good" => l \notin torn' /\ sock[l] = Pinned)
  BY <1>2, <1>9 DEF fail, LanesInv, LaneOK, LanesTypeOK
<1>11. \A q \in Procs : q # p /\ call[q].stage = "wire" => call[q].lane # l /\ call[q].lane \in LaneSet
  BY <1>9 DEF LanesInv, WireOK, LanesTypeOK, Calls, Idle
<1>. HIDE DEF l
<1>12. ASSUME NEW k \in LaneSet
       PROVE  LaneOK(k)'
  <2>1. CASE k = l
    BY <1>7, <1>10, <2>1 DEF LaneOK
  <2>2. CASE k # l
    <3>1. holder[k] # Free => holder[k] \in Procs /\ holder[k] # p
      BY <2>2 DEF LanesTypeOK, LanesInv, LaneOK, l
    <3>. QED
      BY <1>5, <1>7, <2>2, <3>1 DEF LanesInv, LaneOK
  <2>. QED
    BY <2>1, <2>2
<1>13. ASSUME NEW q \in Procs
       PROVE  WireOK(q)'
  <2>1. CASE q = p
    BY <1>3, <2>1 DEF WireOK, Outcomes, Replies
  <2>2. CASE q # p
    BY <1>5, <1>7, <1>11, <2>2 DEF WireOK, LanesInv
  <2>. QED
    BY <2>1, <2>2
<1>. QED
  BY <1>3, <1>5, <1>7, <1>8, <1>9, <1>10, <1>11, <1>12, <1>13 DEF LanesInv, l

\* The host answers a request.
LEMMA LanesAnswered ==
  ASSUME LanesInv, LanesTypeOK, NEW m \in net, NEW r \in Replies, answered(m, r)
  PROVE  /\ LanesTypeOK' /\ LanesInv'
         /\ \A k \in LaneSet : k # m.lane => reply'[k] = reply[k]
         /\ \/ reply'[m.lane] = reply[m.lane]
           \/ /\ reply'[m.lane] = r
              /\ \E p \in Procs : call[p] = [lane |-> m.lane, message |-> m.message, stage |-> "wire"]
<1>1. m.lane \in LaneSet
  BY DEF LanesTypeOK
<1>2. LanesTypeOK'
  BY <1>1 DEF answered, LanesTypeOK
<1>3. /\ \A k \in LaneSet : k # m.lane => reply'[k] = reply[k]
      /\ \/ reply'[m.lane] = reply[m.lane]
        \/ /\ reply'[m.lane] = r
           /\ \E p \in Procs : call[p] = [lane |-> m.lane, message |-> m.message, stage |-> "wire"]
  <2>1. CASE \E p \in Procs : call[p] = [lane |-> m.lane, message |-> m.message, stage |-> "wire"]
    <3>1. reply' = [reply EXCEPT ![m.lane] = r]
      BY <2>1 DEF answered
    <3>. QED
      BY <1>1, <2>1, <3>1 DEF LanesTypeOK
  <2>2. CASE ~ \E p \in Procs : call[p] = [lane |-> m.lane, message |-> m.message, stage |-> "wire"]
    <3>1. reply' = reply
      BY <2>2 DEF answered
    <3>. QED
      BY <3>1
  <2>. QED
    BY <2>1, <2>2
<1>4. UNCHANGED <<holder, health, call, torn, sock>>
  BY DEF answered
<1>5. ASSUME NEW k \in LaneSet
      PROVE  LaneOK(k)'
  <2>1. reply'[k] # "none" => holder[k] # Free
    <3>1. CASE reply'[k] = reply[k]
      BY <3>1 DEF LanesInv, LaneOK
    <3>2. CASE reply'[k] # reply[k]
      <4>1. PICK p \in Procs : call[p] = [lane |-> m.lane, message |-> m.message, stage |-> "wire"]
        BY <1>3, <3>2
      <4>. QED
        BY <1>3, <3>2, <4>1, ProcsAssumption DEF LanesInv, WireOK
    <3>. QED
      BY <3>1, <3>2
  <2>. QED
    BY <1>4, <2>1 DEF LanesInv, LaneOK
<1>6. ASSUME NEW p \in Procs
      PROVE  WireOK(p)'
  BY <1>4 DEF LanesInv, WireOK
<1>. QED
  BY <1>2, <1>3, <1>5, <1>6 DEF LanesInv

\* Lanes become good, or closed, or their connections change while they are new.
LEMMA LanesHealth ==
  ASSUME LanesInv, LanesTypeOK, LanesTypeOK', UNCHANGED <<holder, call, net, reply, torn>>,
         \A l \in LaneSet :
           /\ sock'[l] = sock[l] \/ health[l] = "new"
           /\ \/ health'[l] = health[l] /\ (health[l] = "new" \/ sock'[l] = sock[l])
              \/ health'[l] = "closed"
              \/ health[l] = "new" /\ health'[l] = "good" /\ sock'[l] = Pinned
  PROVE  LanesInv'
<1>1. ASSUME NEW l \in LaneSet
      PROVE  LaneOK(l)'
  BY DEF LanesInv, LaneOK
<1>2. ASSUME NEW p \in Procs
      PROVE  WireOK(p)'
  <2>1. call[p].stage = "wire" => call[p].lane \in LaneSet /\ health[call[p].lane] # "new"
    BY ProcsAssumption DEF LanesInv, WireOK, LaneOK, LanesTypeOK, Calls, Idle
  <2>. QED
    BY <2>1 DEF LanesInv, WireOK
<1>. QED
  BY <1>1, <1>2 DEF LanesInv

-----------------------------------------------------------------------------
(* runWithPosters: the steps at which an exchange of main has ended. *)

LEMMA Places == /\ "main" \in Procs /\ "recv" \in Procs /\ "beat" \in Procs
                /\ "command" \in LaneSet /\ "cleanup" \in LaneSet /\ "fresh" \in LaneSet
                /\ Free \notin Procs /\ \A p \in Procs : p \in {"main", "recv", "beat"}
BY GoroutinesAssumption, LanesAssumption, ProcsAssumption

\* What main waited for is over, and it takes up the exchange c or none.
LEMMA MainMoves ==
  ASSUME IndInv, NEW c \in Calls \cup {Idle}, c.stage \in {"lock", "idle"},
         call["main"].stage \notin {"wire", "lock"}, main # "open", main' # "open",
         call' = [call EXCEPT !["main"] = c],
         UNCHANGED <<holder, health, net, reply, torn, sock, shake>>
  PROVE  /\ LanesTypeOK' /\ HandshakeTypeOK' /\ LanesInv' /\ ShakeInv'
         /\ call'["main"] = c /\ call'["recv"] = call["recv"] /\ call'["beat"] = call["beat"]
<1>. USE Places DEF IndInv, SessionTypeOK
<1>1. LanesTypeOK' /\ HandshakeTypeOK'
  BY DEF LanesTypeOK, HandshakeTypeOK
<1>2. call'["main"] = c /\ \A p \in Procs : p # "main" => call'[p] = call[p]
  BY DEF LanesTypeOK
<1>3. LanesInv'
  <2>1. \A p \in Procs : call'[p] = call[p] \/ (call[p].stage # "wire" /\ call'[p].stage # "wire")
    BY <1>2
  <2>. QED
    BY <1>1, <2>1, LanesIdle
<1>4. ShakeInv'
  BY DEF ShakeInv
<1>. QED
  BY <1>1, <1>2, <1>3, <1>4

\* What changes at no return of an exchange.
mainFrame == UNCHANGED <<holder, health, net, reply, torn, sock, beat, hostVars, writes, mode, shake>>

\* Nothing of a request is on the network before it has been written.
LEMMA NotYet ==
  ASSUME WritesInv, NetInv, NEW m \in Once,
         main \in Before(m) \/ (call["main"].message = m /\ call["main"].stage \in {"lock", "unsent"})
  PROVE  writes[m] = 0 /\ \A x \in net : x.message # m
BY DEF WritesInv, NetInv, NetOK

\* Nothing of a request is on the network once it was answered.
LEMMA NoMore ==
  ASSUME NetInv, NEW p \in {"main", "recv"}, call[p].stage \notin {"wire", "error"}
  PROVE  \A x \in net : x.message # call[p].message
BY DEF NetInv, NetOK

LEMMA ExchangeErrors ==
  ASSUME NEW stage, ctx \in {"live", "canceled", "deadline"}, NEW e \in exchangeErrors(stage, ctx)
  PROVE  /\ e \subseteq {"other", "canceled", "deadline"} /\ "other" \in e
         /\ "canceled" \in e => ctx = "canceled"
         /\ stage = "unsent" /\ "deadline" \in e => ctx = "deadline"
BY DEF exchangeErrors

LEMMA CreateStep == ASSUME IndInv, createReturns, mainFrame PROVE IndInv'
<1>. USE Places DEF IndInv, SessionTypeOK, mainFrame, recvVars, hostVars
<1>1. /\ main = "create" /\ call["main"].message = "Create"
      /\ UNCHANGED <<ctx, budget, runErr, route, signal, deleted, closed, output, recv, recvErr>>
  BY DEF createReturns, CallInv
<1>2. CASE Returned("ok") /\ main' = "command" /\ call' = Posted("main", "command", "Command") /\ errs' = errs
  <2>. DEFINE c == [lane |-> "command", message |-> "Command", stage |-> "lock"]
  <2>1. c \in Calls
    BY DEF Calls, Messages
  <2>2. /\ LanesTypeOK' /\ HandshakeTypeOK' /\ LanesInv' /\ ShakeInv'
        /\ call'["main"] = c /\ call'["recv"] = call["recv"] /\ call'["beat"] = call["beat"]
    BY <1>1, <1>2, <2>1, MainMoves DEF Posted, Returned
  <2>3. SessionTypeOK'
    BY <1>1, <1>2, <2>2
  <2>4. CallInv'
    BY <1>1, <1>2, <2>2 DEF CallInv, Idle
  <2>5. WritesInv'
    BY <1>1, <1>2, <2>2 DEF WritesInv, Before, Once, Returned
  <2>6. NetInv'
    <3>1. \A x \in net : x.message # "Create" /\ x.message # "Command"
      BY <1>1, <1>2, NoMore, NotYet DEF Before, Once, Returned
    <3>2. \A x \in net : NetOK(x)'
      BY <1>1, <1>2, <2>2, <3>1 DEF NetInv, NetOK
    <3>. QED
      BY <3>2 DEF NetInv
  <2>7. HostInv'
    BY <1>1, <1>2, <2>2 DEF HostInv, Told
  <2>8. ErrorInv' /\ NoOrphan'
    BY <1>1, <1>2 DEF ErrorInv, NoOrphan
  <2>. QED
    BY <2>2, <2>3, <2>4, <2>5, <2>6, <2>7, <2>8
<1>3. ASSUME NEW stage \in {"unsent", "error", "fault"}, Returned(stage),
             NEW e \in exchangeErrors(stage, ctx), finish(createErrors(stage) \cup e)
      PROVE  IndInv'
  <2>1. /\ main' \in {"stop", "returned"} /\ errs' = createErrors(stage) \cup e
        /\ call' = [call EXCEPT !["main"] = Idle] /\ call["main"].stage = stage
    BY <1>3 DEF finish, Returned
  <2>2. /\ LanesTypeOK' /\ HandshakeTypeOK' /\ LanesInv' /\ ShakeInv'
        /\ call'["main"] = Idle /\ call'["recv"] = call["recv"] /\ call'["beat"] = call["beat"]
    BY <1>1, <2>1, MainMoves DEF Idle
  <2>3. e \subseteq {"other", "canceled", "deadline"} /\ "other" \in e
    BY ExchangeErrors
  <2>4. errs' \subseteq Sentinels
    BY <2>1, <2>3 DEF createErrors, Sentinels
  <2>5. SessionTypeOK'
    BY <1>1, <2>1, <2>2, <2>4
  <2>6. CallInv'
    BY <1>1, <2>1, <2>2 DEF CallInv, Idle
  <2>7. WritesInv'
    BY <1>1, <2>1, <2>2 DEF WritesInv, Before, Once, Idle
  <2>8. NetInv'
    <3>1. \A x \in net : NetOK(x)'
      BY <1>1, <2>1, <2>2 DEF NetInv, NetOK, Idle, LanesTypeOK, Messages
    <3>. QED
      BY <3>1 DEF NetInv
  <2>9. HostInv'
    BY <1>1, <2>1, <2>2 DEF HostInv, Told
  <2>10. writes["Create"] = 0 <=> stage = "unsent"
    BY <1>1, <2>1 DEF WritesInv, Once
  <2>11. ErrorInv'
    <3>1. errs' # {}
      BY <2>1, <2>3
    <3>2. RunMayReturn(errs, ctx, writes["Create"] > 0)'
      <4>1. writes["Create"] > 0 <=> stage # "unsent"
        BY <2>10 DEF WritesInv, Once
      <4>2. RunMayReturn(errs', ctx, stage # "unsent")
        BY <2>1, <2>3, ExchangeErrors DEF RunMayReturn, createErrors
      <4>. QED
        BY <1>1, <4>1, <4>2
    <3>. QED
      BY <1>1, <2>1, <3>1, <3>2 DEF ErrorInv
  <2>12. NoOrphan'
    <3>1. CASE stage = "unsent"
      BY <1>1, <2>1, <2>10, <3>1, NotYet DEF NoOrphan, HostInv, Once
    <3>2. CASE stage # "unsent"
      BY <2>1, <3>2 DEF NoOrphan, createErrors
    <3>. QED
      BY <3>1, <3>2
  <2>. QED
    BY <2>2, <2>5, <2>6, <2>7, <2>8, <2>9, <2>11, <2>12
<1>. QED
  BY <1>2, <1>3 DEF createReturns

LEMMA CommandStep == ASSUME IndInv, commandReturns, mainFrame PROVE IndInv'
<1>. USE Places DEF IndInv, SessionTypeOK, mainFrame, hostVars
<1>1. /\ main = "command" /\ call["main"].message = "Command" /\ recv = "none"
      /\ UNCHANGED <<ctx, signal, deleted, errs, closed, output, recvErr>>
  BY DEF commandReturns, CallInv
<1>2. CASE /\ Returned("ok") /\ main' = "send" /\ recv' = "wait"
           /\ call' = Posted("main", "command", "Send")
           /\ UNCHANGED <<budget, runErr, route>>
  <2>. DEFINE c == [lane |-> "command", message |-> "Send", stage |-> "lock"]
  <2>1. c \in Calls
    BY DEF Calls, Messages
  <2>2. /\ LanesTypeOK' /\ HandshakeTypeOK' /\ LanesInv' /\ ShakeInv'
        /\ call'["main"] = c /\ call'["recv"] = call["recv"] /\ call'["beat"] = call["beat"]
    BY <1>1, <1>2, <2>1, MainMoves DEF Posted, Returned
  <2>3. SessionTypeOK'
    BY <1>1, <1>2, <2>2
  <2>4. CallInv'
    BY <1>1, <1>2, <2>2 DEF CallInv, Idle
  <2>5. WritesInv'
    BY <1>1, <1>2, <2>2 DEF WritesInv, Before, Once, Returned
  <2>6. NetInv'
    <3>1. \A x \in net : x.message # "Command" /\ x.message # "Send"
      BY <1>1, <1>2, NoMore, NotYet DEF Before, Once, Returned
    <3>2. \A x \in net : NetOK(x)'
      BY <1>1, <1>2, <2>2, <3>1 DEF NetInv, NetOK
    <3>. QED
      BY <3>2 DEF NetInv
  <2>7. HostInv'
    BY <1>1, <1>2, <2>2 DEF HostInv, Told
  <2>8. ErrorInv' /\ NoOrphan'
    BY <1>1, <1>2 DEF ErrorInv, NoOrphan
  <2>. QED
    BY <2>2, <2>3, <2>4, <2>5, <2>6, <2>7, <2>8
<1>3. ASSUME NEW stage \in {"unsent", "error", "fault"}, Returned(stage),
             runErr' \in exchangeErrors(stage, ctx), main' = "abandon", budget' = "live",
             call' = Posted("main", "cleanup", "Delete"), route' = Fallback, recv' = recv
      PROVE  IndInv'
  <2>. DEFINE c == [lane |-> "cleanup", message |-> "Delete", stage |-> "lock"]
  <2>1. c \in Calls
    BY DEF Calls, Messages
  <2>2. /\ LanesTypeOK' /\ HandshakeTypeOK' /\ LanesInv' /\ ShakeInv'
        /\ call'["main"] = c /\ call'["recv"] = call["recv"] /\ call'["beat"] = call["beat"]
    BY <1>1, <1>3, <2>1, MainMoves DEF Posted, Returned
  <2>3. /\ runErr' \subseteq {"other", "canceled", "deadline"} /\ runErr' # {}
        /\ "canceled" \in runErr' => ctx = "canceled"
    BY <1>3, ExchangeErrors
  <2>4. Fallback \in Seq(LaneSet)
    BY EmptySeq DEF Fallback
  <2>5. SessionTypeOK'
    BY <1>1, <1>3, <2>2, <2>3, <2>4 DEF Sentinels
  <2>6. CallInv'
    BY <1>1, <1>3, <2>2 DEF CallInv, Idle
  <2>7. WritesInv'
    BY <1>1, <1>3, <2>2 DEF WritesInv, Before, Once
  <2>8. NetInv'
    <3>1. \A x \in net : x.message # "Send" /\ x.message # "Delete"
      BY <1>1, NotYet DEF Before, Once
    <3>2. \A x \in net : NetOK(x)'
      BY <1>1, <1>3, <2>2, <3>1 DEF NetInv, NetOK
    <3>. QED
      BY <3>2 DEF NetInv
  <2>9. HostInv'
    BY <1>1, <1>3, <2>2 DEF HostInv, Told
  <2>10. ErrorInv' /\ NoOrphan'
    BY <1>1, <1>3, <2>3 DEF ErrorInv, NoOrphan
  <2>. QED
    BY <2>2, <2>5, <2>6, <2>7, <2>8, <2>9, <2>10
<1>. QED
  BY <1>2, <1>3 DEF commandReturns

\* closeWith begins: with a Signal, or with the Delete on the command lane when the
\* command has ended by itself.
LEMMA ClosingStep ==
  ASSUME IndInv, mainFrame, NEW interrupted \in BOOLEAN, closeWith(interrupted),
         UNCHANGED <<ctx, signal, deleted, errs, output, recv, recvErr>>,
         main = "send" \/ main = "receive", call["main"].stage \notin {"wire", "lock"},
         runErr' \subseteq {"other", "canceled", "deadline"},
         "canceled" \in runErr' => ctx = "canceled",
         runErr' = {} => main = "receive" /\ recv = "gone" /\ recvErr = {}
  PROVE  IndInv'
<1>. USE Places DEF IndInv, SessionTypeOK, mainFrame, hostVars
<1>1. PICK c \in Calls : /\ call' = [call EXCEPT !["main"] = c] /\ c.stage = "lock"
                         /\ \/ main' = "signal" /\ c.message = "Signal" /\ c.lane = "cleanup"
                            \/ main' = "delete" /\ c.message = "Delete" /\ c.lane = "command"
  <2>1. /\ [lane |-> "cleanup", message |-> "Signal", stage |-> "lock"] \in Calls
        /\ [lane |-> "command", message |-> "Delete", stage |-> "lock"] \in Calls
    BY DEF Calls, Messages
  <2>. QED
    BY <2>1 DEF closeWith, Posted
<1>2. /\ LanesTypeOK' /\ HandshakeTypeOK' /\ LanesInv' /\ ShakeInv'
      /\ call'["main"] = c /\ call'["recv"] = call["recv"] /\ call'["beat"] = call["beat"]
  BY <1>1, MainMoves
<1>3. route' \in Seq(LaneSet)
  <2>1. route' = <<"cleanup">> \o Fallback
    BY DEF closeWith
  <2>2. <<"cleanup">> \in Seq(LaneSet) /\ Fallback \in Seq(LaneSet)
    BY EmptySeq DEF Fallback
  <2>. QED
    BY <2>1, <2>2, ConcatProperties
<1>4. SessionTypeOK'
  BY <1>1, <1>2, <1>3 DEF closeWith, Sentinels
<1>5. CallInv'
  BY <1>1, <1>2 DEF CallInv, Calls
<1>6. WritesInv'
  BY <1>1, <1>2 DEF WritesInv, Before, Once
<1>7. NetInv'
  <2>1. \A x \in net : x.message # "Signal" /\ x.message # "Delete"
    BY NotYet DEF Before, Once
  <2>2. \A x \in net : x.message = "Send" => main = "send" /\ runErr' # {}
    BY DEF NetInv, NetOK
  <2>3. \A x \in net : NetOK(x)'
    BY <1>1, <1>2, <2>1, <2>2 DEF NetInv, NetOK
  <2>. QED
    BY <2>3 DEF NetInv
<1>8. HostInv'
  BY <1>1, <1>2 DEF HostInv, Told
<1>9. ErrorInv' /\ NoOrphan'
  BY <1>1 DEF ErrorInv, NoOrphan
<1>. QED
  BY <1>2, <1>4, <1>5, <1>6, <1>7, <1>8, <1>9

LEMMA SendStep == ASSUME IndInv, sendReturns, mainFrame PROVE IndInv'
<1>. USE Places DEF IndInv, SessionTypeOK, mainFrame, recvVars, hostVars
<1>1. /\ main = "send" /\ call["main"].message = "Send"
      /\ UNCHANGED <<ctx, signal, deleted, errs, recv, recvErr>>
  BY DEF sendReturns, CallInv
<1>2. CASE /\ Returned("ok") /\ main' = "receive" /\ output' = "set"
           /\ call' = [call EXCEPT !["main"] = Idle]
           /\ UNCHANGED <<budget, runErr, route, closed>>
  <2>1. /\ LanesTypeOK' /\ HandshakeTypeOK' /\ LanesInv' /\ ShakeInv'
        /\ call'["main"] = Idle /\ call'["recv"] = call["recv"] /\ call'["beat"] = call["beat"]
    BY <1>1, <1>2, MainMoves DEF Returned, Idle
  <2>2. SessionTypeOK' /\ CallInv'
    BY <1>1, <1>2, <2>1 DEF CallInv, Idle
  <2>3. WritesInv'
    BY <1>1, <1>2, <2>1 DEF WritesInv, Before, Once, Idle
  <2>4. NetInv'
    <3>1. \A x \in net : x.message # "Send"
      BY <1>1, <1>2, NoMore DEF Returned
    <3>2. \A x \in net : NetOK(x)'
      BY <1>1, <1>2, <2>1, <3>1 DEF NetInv, NetOK, Idle, LanesTypeOK, Messages
    <3>. QED
      BY <3>2 DEF NetInv
  <2>5. HostInv' /\ ErrorInv' /\ NoOrphan'
    BY <1>1, <1>2, <2>1 DEF HostInv, Told, ErrorInv, NoOrphan
  <2>. QED
    BY <2>1, <2>2, <2>3, <2>4, <2>5
<1>3. ASSUME NEW stage \in {"unsent", "error", "fault"}, Returned(stage),
             runErr' \in exchangeErrors(stage, ctx), closeWith(TRUE), output' = output
      PROVE  IndInv'
  <2>1. /\ runErr' \subseteq {"other", "canceled", "deadline"} /\ runErr' # {}
        /\ "canceled" \in runErr' => ctx = "canceled"
    BY <1>3, ExchangeErrors
  <2>2. call["main"].stage \notin {"wire", "lock"}
    BY <1>3 DEF Returned
  <2>. QED
    BY <1>1, <1>3, <2>1, <2>2, ClosingStep
<1>. QED
  BY <1>2, <1>3 DEF sendReturns

LEMMA ReceiveStep == ASSUME IndInv, receiveReturns, mainFrame PROVE IndInv'
<1>. USE DEF IndInv, SessionTypeOK, recvVars
<1>1. /\ main = "receive" /\ call["main"] = Idle
      /\ UNCHANGED <<ctx, signal, deleted, errs, output, recv, recvErr>>
      /\ (recv = "gone" /\ runErr' = recvErr) \/ (ctx # "live" /\ runErr' = {ctx})
  BY DEF receiveReturns, CallInv, recvResult
<1>2. /\ runErr' \subseteq {"other", "canceled", "deadline"}
      /\ "canceled" \in runErr' => ctx = "canceled"
      /\ runErr' = {} => recv = "gone" /\ recvErr = {}
  BY <1>1 DEF ErrorInv
<1>3. PICK interrupted \in BOOLEAN : closeWith(interrupted)
  BY DEF receiveReturns
<1>. QED
  BY <1>1, <1>2, <1>3, ClosingStep DEF Idle

LEMMA SignalStep == ASSUME IndInv, signalReturns, mainFrame PROVE IndInv'
<1>. USE Places DEF IndInv, SessionTypeOK, mainFrame, recvVars, hostVars
<1>. DEFINE c == [lane |-> "cleanup", message |-> "Delete", stage |-> "lock"]
<1>1. /\ main = "signal" /\ call["main"].message = "Signal" /\ main' = "delete"
      /\ call["main"].stage \in Outcomes
      /\ signal' = IF call["main"].stage = "ok" THEN "ok" ELSE "failed"
      /\ call' = [call EXCEPT !["main"] = c]
      /\ UNCHANGED <<ctx, budget, runErr, route, deleted, errs, closed, output, recv, recvErr>>
  BY DEF signalReturns, CallInv, Posted, Returned
<1>2. c \in Calls
  BY DEF Calls, Messages
<1>3. /\ LanesTypeOK' /\ HandshakeTypeOK' /\ LanesInv' /\ ShakeInv'
      /\ call'["main"] = c /\ call'["recv"] = call["recv"] /\ call'["beat"] = call["beat"]
  BY <1>1, <1>2, MainMoves DEF Outcomes, Replies
<1>4. SessionTypeOK' /\ CallInv'
  BY <1>1, <1>3 DEF CallInv
<1>5. WritesInv'
  BY <1>1, <1>3 DEF WritesInv, Before, Once
<1>6. NetInv'
  <2>1. \A x \in net : x.message # "Delete"
    BY <1>1, NotYet DEF Before, Once
  <2>2. \A x \in net : x.message = "Signal" => signal' = "failed"
    BY <1>1, NoMore
  <2>3. \A x \in net : NetOK(x)'
    BY <1>1, <1>3, <2>1, <2>2 DEF NetInv, NetOK
  <2>. QED
    BY <2>3 DEF NetInv
<1>7. HostInv'
  BY <1>1, <1>3 DEF HostInv, Told
<1>8. ErrorInv' /\ NoOrphan'
  BY <1>1 DEF ErrorInv, NoOrphan
<1>. QED
  BY <1>3, <1>4, <1>5, <1>6, <1>7, <1>8

\* The function returns an error set it may return, and one that tells of a Shell
\* left behind.
LEMMA FinishStep ==
  ASSUME IndInv, mainFrame, NEW es, finish(es), es \subseteq Sentinels,
         UNCHANGED <<ctx, budget, runErr, signal, closed, output, recv, recvErr>>,
         route' \in Seq(LaneSet), deleted' \in {"no", "yes"},
         main \in {"abandon", "join"}, call["main"].stage \notin {"wire", "lock"},
         deleted' = "yes" => shell = "gone" /\ \A x \in net : x.message # "Delete",
         deleted' = "no" => "unknown" \in es,
         RunMayReturn(es, ctx, TRUE),
         es = {} => recv = "gone" /\ recvErr = {} /\ runErr = {} /\ signal # "failed",
         main = "abandon" => runErr # {}
  PROVE  IndInv'
<1>. USE Places DEF IndInv, SessionTypeOK, mainFrame, hostVars
<1>1. /\ main' \in {"stop", "returned"} /\ errs' = es
      /\ call' = [call EXCEPT !["main"] = Idle]
  BY DEF finish
<1>2. /\ LanesTypeOK' /\ HandshakeTypeOK' /\ LanesInv' /\ ShakeInv'
      /\ call'["main"] = Idle /\ call'["recv"] = call["recv"] /\ call'["beat"] = call["beat"]
  BY <1>1, MainMoves DEF Idle
<1>3. SessionTypeOK' /\ CallInv'
  BY <1>1, <1>2 DEF CallInv, Idle
<1>4. WritesInv'
  BY <1>1, <1>2 DEF WritesInv, Before, Once, Idle
<1>5. NetInv'
  <2>1. \A x \in net : x.message \in Messages
    BY DEF LanesTypeOK
  <2>2. \A x \in net : x.message # "Create" /\ x.message # Idle.message
    BY <2>1 DEF NetInv, NetOK, Idle, Messages
  <2>3. \A x \in net : NetOK(x)'
    BY <1>1, <1>2, <2>2 DEF NetInv, NetOK
  <2>. QED
    BY <2>3 DEF NetInv
<1>6. HostInv'
  BY <1>1, <1>2 DEF HostInv, Told
<1>7. ErrorInv'
  <2>1. writes["Create"] > 0
    BY DEF WritesInv
  <2>2. RunMayReturn(errs, ctx, writes["Create"] > 0)'
    <3>1. (writes["Create"] > 0)' = TRUE
      BY <2>1
    <3>. QED
      BY <1>1, <3>1
  <2>. QED
    BY <1>1, <2>1, <2>2 DEF ErrorInv
<1>8. NoOrphan'
  <2>1. \A x \in net : x.message # "Create"
    BY DEF NetInv, NetOK
  <2>. QED
    BY <1>1, <2>1 DEF NoOrphan
<1>. QED
  BY <1>2, <1>3, <1>4, <1>5, <1>6, <1>7, <1>8

LEMMA DeleteStep == ASSUME IndInv, deleteReturns, mainFrame PROVE IndInv'
<1>. USE Places DEF IndInv, SessionTypeOK, mainFrame, recvVars, hostVars
<1>1. /\ main \in {"delete", "abandon"} /\ call["main"].message = "Delete"
      /\ call["main"].stage \in Outcomes /\ call["main"].stage \notin {"wire", "lock"}
      /\ UNCHANGED <<ctx, budget, runErr, signal, closed, output, recv, recvErr>>
  BY DEF deleteReturns, CallInv, Outcomes, Replies
<1>2. CASE /\ call["main"].stage = "unsent" /\ route # << >>
           /\ call' = Posted("main", Head(route), "Delete")
           /\ route' = Tail(route)
           /\ UNCHANGED <<main, deleted, errs>>
  <2>. DEFINE c == [lane |-> Head(route), message |-> "Delete", stage |-> "lock"]
  <2>1. Head(route) \in LaneSet /\ Tail(route) \in Seq(LaneSet)
    BY <1>2, HeadTailProperties
  <2>2. c \in Calls
    BY <2>1 DEF Calls, Messages
  <2>3. /\ LanesTypeOK' /\ HandshakeTypeOK' /\ LanesInv' /\ ShakeInv'
        /\ call'["main"] = c /\ call'["recv"] = call["recv"] /\ call'["beat"] = call["beat"]
    BY <1>1, <1>2, <2>2, MainMoves DEF Posted
  <2>4. SessionTypeOK' /\ CallInv'
    BY <1>1, <1>2, <2>1, <2>3 DEF CallInv
  <2>5. WritesInv'
    BY <1>1, <1>2, <2>3 DEF WritesInv, Before, Once
  <2>6. NetInv'
    <3>1. \A x \in net : x.message # "Delete"
      BY <1>1, <1>2, NotYet DEF Before, Once
    <3>2. \A x \in net : NetOK(x)'
      BY <1>1, <1>2, <2>3, <3>1 DEF NetInv, NetOK
    <3>. QED
      BY <3>2 DEF NetInv
  <2>7. HostInv' /\ ErrorInv' /\ NoOrphan'
    BY <1>1, <1>2, <2>3 DEF HostInv, Told, ErrorInv, NoOrphan
  <2>. QED
    BY <2>3, <2>4, <2>5, <2>6, <2>7
<1>3. CASE route' = route /\ deleted' = IF call["main"].stage = "ok" THEN "yes" ELSE "no"
  <2>1. deleted' = "yes" => shell = "gone" /\ \A x \in net : x.message # "Delete"
    BY <1>1, <1>3, NoMore DEF HostInv, Told
  <2>2. CASE main = "delete" /\ main' = "join" /\ call' = [call EXCEPT !["main"] = Idle] /\ errs' = errs
    <3>1. /\ LanesTypeOK' /\ HandshakeTypeOK' /\ LanesInv' /\ ShakeInv'
          /\ call'["main"] = Idle /\ call'["recv"] = call["recv"] /\ call'["beat"] = call["beat"]
      BY <1>1, <2>2, MainMoves DEF Idle
    <3>2. SessionTypeOK' /\ CallInv'
      BY <1>1, <1>3, <2>2, <3>1 DEF CallInv, Idle
    <3>3. WritesInv'
      BY <1>1, <2>2, <3>1 DEF WritesInv, Before, Once, Idle
    <3>4. NetInv'
      <4>1. \A x \in net : NetOK(x)'
        BY <1>1, <1>3, <2>1, <2>2, <3>1 DEF NetInv, NetOK, Idle, LanesTypeOK, Messages
      <4>. QED
        BY <4>1 DEF NetInv
    <3>5. HostInv' /\ ErrorInv' /\ NoOrphan'
      BY <1>1, <2>1, <2>2, <3>1 DEF HostInv, Told, ErrorInv, NoOrphan
    <3>. QED
      BY <3>1, <3>2, <3>3, <3>4, <3>5
  <2>3. ASSUME main = "abandon", NEW es, finish(es),
               es = runErr \cup (IF call["main"].stage = "ok" THEN {} ELSE {"unknown"})
        PROVE  IndInv'
    <3>1. /\ es \subseteq Sentinels /\ runErr # {}
          /\ deleted' = "no" => "unknown" \in es
          /\ deleted' \in {"no", "yes"}
      BY <1>3, <2>3 DEF Sentinels, ErrorInv
    <3>2. RunMayReturn(es, ctx, TRUE)
      BY <2>3 DEF RunMayReturn, ErrorInv
    <3>3. es # {}
      BY <2>3, <3>1
    <3>. QED
      BY <1>1, <1>3, <2>1, <2>3, <3>1, <3>2, <3>3, FinishStep
  <2>. QED
    BY <1>3, <2>2, <2>3, <1>1 DEF deleteReturns, Returned
<1>. QED
  BY <1>2, <1>3 DEF deleteReturns, resendable, Returned

LEMMA CloseStep == ASSUME IndInv, closeReturns, mainFrame PROVE IndInv'
<1>. USE DEF IndInv, SessionTypeOK, recvVars
<1>. DEFINE errors(late) == IF mode = "run" /\ runErr = {} THEN cleanupErrors(late)
                            ELSE runErr \cup cleanupErrors(late)
                                        \cup (IF late THEN {"deadline"} ELSE {})
<1>0. PICK late \in BOOLEAN : joined(late) /\ finish(errors(late))
  BY DEF closeReturns
<1>. DEFINE es == errors(late)
<1>1. /\ main = "join" /\ call["main"] = Idle /\ finish(es)
      /\ UNCHANGED <<ctx, budget, runErr, route, signal, deleted, closed, output, recv, recvErr>>
  BY <1>0 DEF closeReturns, CallInv
<1>2. es \subseteq Sentinels
  BY DEF Sentinels, cleanupErrors
<1>3. deleted = "yes" => shell = "gone" /\ \A x \in net : x.message # "Delete"
  BY <1>1 DEF HostInv, NetInv, NetOK
<1>4. deleted = "no" => "unknown" \in es
  BY DEF cleanupErrors
<1>5. RunMayReturn(es, ctx, TRUE)
  BY DEF RunMayReturn, ErrorInv, cleanupErrors
<1>6. es = {} => recv = "gone" /\ recvErr = {} /\ runErr = {} /\ signal # "failed"
  <2>1. es = {} => runErr = {} /\ cleanupErrors(late) = {}
    OBVIOUS
  <2>2. cleanupErrors(late) = {} => signal # "failed" /\ recv = "gone"
    BY <1>0 DEF cleanupErrors, joined
  <2>. QED
    BY <1>1, <2>1, <2>2 DEF ErrorInv
<1>7. /\ route' \in Seq(LaneSet) /\ deleted' \in {"no", "yes"}
      /\ main \in {"abandon", "join"} /\ call["main"].stage \notin {"wire", "lock"}
      /\ main = "abandon" => runErr # {}
      /\ deleted' = deleted
  BY <1>1 DEF Idle
<1>8. IndInv
  OBVIOUS
<1>. HIDE DEF es, IndInv
<1>. QED
  BY <1>1, <1>2, <1>3, <1>4, <1>5, <1>6, <1>7, <1>8, FinishStep

LEMMA MainReturnsStep == ASSUME IndInv, mainReturns PROVE IndInv'
<1>1. mainFrame
  BY DEF mainReturns, mainFrame
<1>. QED
  BY <1>1, CreateStep, CommandStep, SendStep, ReceiveStep, SignalStep, DeleteStep, CloseStep
  DEF mainReturns

-----------------------------------------------------------------------------
(* The other steps of main: it starts, opens lanes, writes and stops. *)

LEMMA StartStep == ASSUME IndInv, mainStarts PROVE IndInv'
<1>. USE Places DEF IndInv, SessionTypeOK, recvVars, hostVars
<1>1. /\ main = "none" /\ call["main"] = Idle /\ recv = "none"
      /\ UNCHANGED <<holder, health, net, reply, torn, sock, ctx, budget, runErr, route, signal,
                     deleted, closed, output, recv, recvErr, beat, shell, process, writes, mode, shake>>
  BY DEF mainStarts, CallInv
<1>2. /\ \A x \in net : x.message \notin Once
      /\ call["main"].stage \notin {"wire", "lock"} /\ Idle.stage = "idle"
  BY <1>1, NotYet DEF Before, Once, Idle
<1>3. CASE main' = "create" /\ errs' = errs /\ call' = Posted("main", "command", "Create")
  <2>. DEFINE c == [lane |-> "command", message |-> "Create", stage |-> "lock"]
  <2>1. c \in Calls
    BY DEF Calls, Messages
  <2>2. /\ LanesTypeOK' /\ HandshakeTypeOK' /\ LanesInv' /\ ShakeInv'
        /\ call'["main"] = c /\ call'["recv"] = call["recv"] /\ call'["beat"] = call["beat"]
    BY <1>1, <1>2, <1>3, <2>1, MainMoves DEF Posted
  <2>3. SessionTypeOK' /\ CallInv'
    BY <1>1, <1>3, <2>2 DEF CallInv, Idle
  <2>4. WritesInv'
    BY <1>1, <1>3, <2>2 DEF WritesInv, Before, Once
  <2>5. NetInv'
    <3>1. \A x \in net : NetOK(x)'
      BY <1>1, <1>2, <1>3, <2>2 DEF NetInv, NetOK, Once
    <3>. QED
      BY <1>1, <3>1 DEF NetInv
  <2>6. HostInv' /\ ErrorInv' /\ NoOrphan'
    BY <1>1, <1>3, <2>2 DEF HostInv, Told, ErrorInv, NoOrphan
  <2>. QED
    BY <2>2, <2>3, <2>4, <2>5, <2>6
<1>4. CASE finish({"other"})
  <2>1. /\ main' \in {"stop", "returned"} /\ errs' = {"other"}
        /\ call' = [call EXCEPT !["main"] = Idle]
    BY <1>4 DEF finish
  <2>2. /\ LanesTypeOK' /\ HandshakeTypeOK' /\ LanesInv' /\ ShakeInv'
        /\ call'["main"] = Idle /\ call'["recv"] = call["recv"] /\ call'["beat"] = call["beat"]
    BY <1>1, <1>2, <2>1, MainMoves
  <2>3. SessionTypeOK' /\ CallInv'
    BY <1>1, <2>1, <2>2 DEF CallInv, Idle, Sentinels
  <2>4. WritesInv'
    BY <1>1, <2>1, <2>2 DEF WritesInv, Before, Once, Idle
  <2>5. NetInv'
    <3>1. \A x \in net : NetOK(x)'
      BY <1>1, <1>2, <2>1, <2>2 DEF NetInv, NetOK, Once, Idle, LanesTypeOK, Messages
    <3>. QED
      BY <1>1, <3>1 DEF NetInv
  <2>6. HostInv'
    BY <1>1, <2>1, <2>2 DEF HostInv, Told
  <2>7. ErrorInv' /\ NoOrphan'
    <3>1. shell = "none"
      BY <1>1 DEF WritesInv, HostInv, Before, Once
    <3>. QED
      BY <1>1, <1>2, <2>1, <3>1 DEF ErrorInv, NoOrphan, RunMayReturn, Once
  <2>. QED
    BY <2>2, <2>3, <2>4, <2>5, <2>6, <2>7
<1>. QED
  BY <1>3, <1>4 DEF mainStarts

\* Run closes its lanes.
LEMMA StopStep == ASSUME IndInv, lanesStop PROVE IndInv'
<1>. USE Places DEF IndInv, SessionTypeOK, recvVars, hostVars, lanesStop, lanesClose
<1>1. LanesTypeOK'
  BY DEF LanesTypeOK
<1>2. LanesInv'
  <2>1. \A l \in LaneSet : health'[l] = health[l] \/ health'[l] = "closed"
    OBVIOUS
  <2>. QED
    BY <1>1, <2>1, LanesHealth
<1>3. SessionTypeOK' /\ CallInv'
  BY <1>1 DEF CallInv, HandshakeTypeOK
<1>4. ShakeInv'
  BY DEF ShakeInv, CallInv, Idle
<1>5. WritesInv'
  BY DEF WritesInv, Before, Once
<1>6. NetInv'
  <2>1. \A x \in net : NetOK(x)'
    BY DEF NetInv, NetOK
  <2>. QED
    BY <2>1 DEF NetInv
<1>7. HostInv' /\ ErrorInv' /\ NoOrphan'
  BY DEF HostInv, Told, ErrorInv, NoOrphan, RunMayReturn
<1>. QED
  BY <1>2, <1>3, <1>4, <1>5, <1>6, <1>7

\* A step that opens a lane leaves the session and the host alone.
LEMMA OpeningKeeps ==
  ASSUME IndInv, LanesTypeOK', HandshakeTypeOK', LanesInv', ShakeInv', CallInv',
         UNCHANGED <<holder, net, reply, torn, ctx, budget, runErr, route, signal, deleted, closed,
                     output, recv, recvErr, shell, process, writes, mode>>,
         beat' \in {"none", "wait", "beatcommand", "beatcleanup", "gone"}, errs' \subseteq Sentinels,
         call'["recv"] = call["recv"],
         \/ main' = main /\ errs' = errs
         \/ main = "open" /\ main' \in {"none", "unopened"} /\ call' = call,
         \/ call' = call
         \/ /\ call["main"].stage = "lock" /\ call'["main"].stage = "unsent"
            /\ call'["main"].message = call["main"].message
  PROVE  IndInv'
<1>. USE Places DEF IndInv, SessionTypeOK
<1>1. SessionTypeOK'
  OBVIOUS
<1>2. WritesInv'
  BY DEF WritesInv, Before, Once
<1>3. NetInv'
  <2>1. \A x \in net : NetOK(x)'
    BY DEF NetInv, NetOK
  <2>. QED
    BY <2>1 DEF NetInv
<1>4. HostInv' /\ ErrorInv' /\ NoOrphan'
  BY DEF HostInv, Told, ErrorInv, NoOrphan
<1>. QED
  BY <1>1, <1>2, <1>3, <1>4

LEMMA LanesOpenStep == ASSUME IndInv, lanesOpen PROVE IndInv'
<1>. USE Places DEF IndInv, SessionTypeOK, sessionVars, recvVars, hostVars
<1>1. PICK l \in LaneSet :
        /\ attempt(l, 0) /\ health[l] = "new" /\ shake = NoShake
        /\ (main = "open" /\ l = "command") \/ (call["main"].stage = "lock" /\ call["main"].lane = l)
  BY DEF lanesOpen, LanesTypeOK, Calls, Idle, ShakeInv, NoShake
<1>2. LanesTypeOK' /\ HandshakeTypeOK'
  BY <1>1, RetriesAssumption DEF lanesOpen, LanesTypeOK, HandshakeTypeOK, attempt, Undialed, Conns, Legs
<1>3. LanesInv'
  <2>1. \A k \in LaneSet : sock'[k] = sock[k] \/ health[k] = "new"
    BY <1>1 DEF attempt, LanesTypeOK
  <2>. QED
    BY <1>2, <2>1, LanesHealth DEF lanesOpen
<1>4. ShakeInv' /\ CallInv'
  BY <1>1 DEF lanesOpen, attempt, ShakeInv, CallInv, NoShake, Idle
<1>. QED
  BY <1>2, <1>3, <1>4, OpeningKeeps DEF lanesOpen

LEMMA AuthenticateStep == ASSUME IndInv, lanesAuthenticate PROVE IndInv'
<1>. USE Places DEF IndInv, SessionTypeOK, sessionVars, recvVars, hostVars
<1>1. PICK ended : legs(ended)
  BY DEF lanesAuthenticate
<1>2. /\ shake.leg \in Legs /\ shake # NoShake
      /\ shake \in [lane : LaneSet, leg : Legs \cup {"done", "failed"}, try : 0..Retries]
  BY <1>1 DEF legs, discovered, negotiated, authenticated, legFails, legOf, Legs, NoShake, HandshakeTypeOK
<1>. DEFINE l == shake.lane
<1>3. l \in LaneSet /\ health[l] = "new" /\ sock[l] \in [dialed : {"no", "yes"}, conn : Conns]
  BY <1>2 DEF ShakeInv, LanesTypeOK
<1>4. UNCHANGED <<holder, health, call, net, reply, torn>>
  BY <1>1 DEF legs
<1>5. PICK s \in [dialed : {"no", "yes"}, conn : Conns] :
        /\ sock' = [sock EXCEPT ![l] = s] \/ (sock' = sock /\ s = sock[l])
        /\ shake' \in [lane : LaneSet, leg : Legs \cup {"done", "failed"}, try : 0..Retries]
        /\ shake'.lane = l
        /\ shake'.leg = "authenticate" => s = [dialed |-> "yes", conn |-> "begun"]
        /\ shake'.leg = "done" => s = Pinned
  <2>1. CASE discovered(ended)
    <3>1. sock' = [sock EXCEPT ![l] = Undialed] /\ shake' = [shake EXCEPT !.leg = "negotiate"]
      BY <2>1 DEF discovered, legOf
    <3>2. Undialed \in [dialed : {"no", "yes"}, conn : Conns]
      BY DEF Undialed, Conns
    <3>. QED
      BY <1>2, <3>1, <3>2 DEF Legs
  <2>2. CASE negotiated(ended)
    <3>1. /\ sock' = [sock EXCEPT ![l] = [dialed |-> "yes", conn |-> "begun"]]
          /\ shake' = [shake EXCEPT !.leg = "authenticate"]
      BY <2>2 DEF negotiated, legOf, begins
    <3>2. [dialed |-> "yes", conn |-> "begun"] \in [dialed : {"no", "yes"}, conn : Conns]
      BY DEF Conns
    <3>. QED
      BY <1>2, <3>1, <3>2 DEF Legs
  <2>3. CASE authenticated(ended)
    <3>1. /\ shake.leg = "authenticate" /\ shake' = [shake EXCEPT !.leg = "done"]
          /\ sock' = [sock EXCEPT ![l].conn = "bound"]
      BY <2>3 DEF authenticated, legOf
    <3>2. sock[l] = [dialed |-> "yes", conn |-> "begun"]
      BY <1>2, <3>1 DEF ShakeInv
    <3>3. [sock[l] EXCEPT !.conn = "bound"] = Pinned
      BY <3>2 DEF Pinned
    <3>4. sock' = [sock EXCEPT ![l] = Pinned]
      BY <3>1, <3>3
    <3>5. Pinned \in [dialed : {"no", "yes"}, conn : Conns]
      BY DEF Pinned, Conns
    <3>. QED
      BY <1>2, <3>1, <3>4, <3>5 DEF Legs
  <2>4. CASE legFails(ended)
    <3>1. CASE retried(ended) /\ attempt(l, shake.try + 1)
      <4>1. Undialed \in [dialed : {"no", "yes"}, conn : Conns]
        BY DEF Undialed, Conns
      <4>2. shake.try + 1 \in 0..Retries
        BY <1>2, <3>1, RetriesAssumption DEF retried
      <4>. QED
        BY <1>2, <3>1, <4>1, <4>2 DEF attempt, Legs
    <3>2. CASE shake' = [shake EXCEPT !.leg = "failed"] /\ sock' = sock
      BY <1>2, <1>3, <3>2 DEF Legs
    <3>. QED
      BY <2>4, <3>1, <3>2 DEF legFails
  <2>. QED
    BY <1>1, <2>1, <2>2, <2>3, <2>4 DEF legs
<1>6. sock'[l] = s /\ \A k \in LaneSet : k # l => sock'[k] = sock[k]
  BY <1>3, <1>5 DEF LanesTypeOK
<1>7. LanesTypeOK' /\ HandshakeTypeOK'
  <2>1. sock' \in [LaneSet -> [dialed : {"no", "yes"}, conn : Conns]]
    BY <1>3, <1>5 DEF LanesTypeOK
  <2>. QED
    BY <1>4, <1>5, <2>1 DEF LanesTypeOK, HandshakeTypeOK
<1>8. LanesInv'
  BY <1>3, <1>4, <1>6, <1>7, LanesHealth
<1>9. ShakeInv'
  <2>1. \/ main = "open" /\ main' = main
        \/ call["main"].stage = "lock" /\ call["main"].lane = l /\ main' = main
    BY <1>2 DEF ShakeInv, lanesAuthenticate
  <2>. QED
    BY <1>3, <1>4, <1>5, <1>6, <2>1, <1>2 DEF ShakeInv
<1>10. CallInv'
  BY <1>4 DEF CallInv, lanesAuthenticate
<1>. QED
  BY <1>4, <1>7, <1>8, <1>9, <1>10, OpeningKeeps DEF lanesAuthenticate

LEMMA LanesOpenedStep == ASSUME IndInv, lanesOpened PROVE IndInv'
<1>. USE Places DEF IndInv, SessionTypeOK, recvVars, hostVars
<1>1. /\ main = "open" /\ call["main"] = Idle /\ shake # NoShake /\ recv = "none"
      /\ UNCHANGED <<holder, call, net, reply, torn, ctx, budget, runErr, route, signal, deleted,
                     closed, output, recv, recvErr, shell, process, writes, mode>>
  BY DEF lanesOpened, CallInv, NoShake
<1>2. CASE /\ shake.leg = "done" /\ shake.lane = "command"
           /\ health' = [health EXCEPT !["command"] = "good"]
           /\ attempt("cleanup", 0)
           /\ UNCHANGED <<main, beat, errs>>
  <2>1. health["command"] = "new" /\ health["cleanup"] = "new" /\ sock["command"] = Pinned
    BY <1>1, <1>2 DEF ShakeInv
  <2>2. LanesTypeOK' /\ HandshakeTypeOK'
    BY <1>1, <1>2, RetriesAssumption DEF LanesTypeOK, HandshakeTypeOK, attempt, Undialed, Conns, Legs
  <2>3. /\ health'["command"] = "good" /\ sock'["command"] = Pinned
        /\ health'["cleanup"] = "new"
        /\ \A k \in LaneSet : k # "command" => health'[k] = health[k]
        /\ \A k \in LaneSet : k # "cleanup" => sock'[k] = sock[k]
    BY <1>2, <2>1 DEF LanesTypeOK, attempt
  <2>4. LanesInv'
    BY <1>1, <2>1, <2>2, <2>3, LanesHealth
  <2>5. ShakeInv' /\ CallInv'
    BY <1>1, <1>2, <2>3 DEF ShakeInv, CallInv, attempt
  <2>. QED
    BY <1>1, <1>2, <2>2, <2>4, <2>5, OpeningKeeps
<1>3. CASE /\ shake.leg = "done" /\ shake.lane = "cleanup"
           /\ health' = [health EXCEPT !["cleanup"] = "good"]
           /\ main' = "none" /\ beat' = "wait"
           /\ shake' = NoShake /\ sock' = sock /\ errs' = errs
  <2>1. health["cleanup"] = "new" /\ sock["cleanup"] = Pinned
    BY <1>1, <1>3 DEF ShakeInv
  <2>2. LanesTypeOK' /\ HandshakeTypeOK'
    BY <1>1, <1>3 DEF LanesTypeOK, HandshakeTypeOK
  <2>3. /\ health'["cleanup"] = "good"
        /\ \A k \in LaneSet : k # "cleanup" => health'[k] = health[k]
    BY <1>3 DEF LanesTypeOK
  <2>4. LanesInv'
    BY <1>1, <1>3, <2>1, <2>2, <2>3, LanesHealth
  <2>5. ShakeInv' /\ CallInv'
    BY <1>1, <1>3 DEF ShakeInv, CallInv, Idle
  <2>. QED
    BY <1>1, <1>3, <2>2, <2>4, <2>5, OpeningKeeps
<1>4. CASE /\ health' = [l \in LaneSet |-> IF health[l] = "good" THEN "closed" ELSE health[l]]
           /\ main' = "unopened" /\ beat' = beat
           /\ errs' \in exchangeErrors("error", ctx)
           /\ shake' = NoShake /\ sock' = sock
  <2>1. LanesTypeOK' /\ HandshakeTypeOK'
    BY <1>1, <1>4 DEF LanesTypeOK, HandshakeTypeOK
  <2>2. LanesInv'
    BY <1>1, <1>4, <2>1, LanesHealth
  <2>3. ShakeInv' /\ CallInv'
    BY <1>1, <1>4 DEF ShakeInv, CallInv, Idle
  <2>4. errs' \subseteq Sentinels
    BY <1>4, ExchangeErrors DEF Sentinels
  <2>. QED
    BY <1>1, <1>4, <2>1, <2>2, <2>3, <2>4, OpeningKeeps
<1>. QED
  BY <1>2, <1>3, <1>4 DEF lanesOpened

LEMMA FreshOpenedStep == ASSUME IndInv, freshOpened PROVE IndInv'
<1>. USE Places DEF IndInv, SessionTypeOK, sessionVars, recvVars, hostVars
<1>1. /\ main # "open" /\ shake # NoShake /\ shake' = NoShake
      /\ UNCHANGED <<holder, net, reply, torn, sock, ctx, budget, main, runErr, route, signal, deleted,
                     errs, closed, output, recv, recvErr, beat, shell, process, writes, mode>>
  BY DEF freshOpened, NoShake
<1>2. /\ call["main"].stage = "lock" /\ call["main"].lane = shake.lane
      /\ call["main"] \in Calls /\ shake.lane \in LaneSet /\ health[shake.lane] = "new"
  BY <1>1 DEF ShakeInv, LanesTypeOK, Calls, Idle
<1>3. CASE /\ shake.leg = "done"
           /\ health' = [health EXCEPT ![shake.lane] = "good"] /\ call' = call
  <2>1. LanesTypeOK' /\ HandshakeTypeOK'
    BY <1>1, <1>3 DEF LanesTypeOK, HandshakeTypeOK
  <2>2. sock[shake.lane] = Pinned
    BY <1>1, <1>3 DEF ShakeInv
  <2>3. LanesInv'
    <3>1. \A k \in LaneSet : health'[k] = IF k = shake.lane THEN "good" ELSE health[k]
      BY <1>3 DEF LanesTypeOK
    <3>. QED
      BY <1>1, <1>2, <1>3, <2>1, <2>2, <3>1, LanesHealth
  <2>4. ShakeInv' /\ CallInv'
    BY <1>1, <1>3 DEF ShakeInv, CallInv
  <2>. QED
    BY <1>1, <1>3, <2>1, <2>3, <2>4, OpeningKeeps
<1>4. CASE call' = [call EXCEPT !["main"].stage = "unsent"] /\ health' = health
  <2>1. /\ call'["main"] = [lane |-> call["main"].lane, message |-> call["main"].message, stage |-> "unsent"]
        /\ \A p \in Procs : p # "main" => call'[p] = call[p]
        /\ call' = [call EXCEPT !["main"] = call'["main"]]
    BY <1>2, <1>4 DEF LanesTypeOK, Calls
  <2>2. call'["main"] \in Calls
    BY <1>2, <2>1 DEF Calls, Outcomes
  <2>3. LanesTypeOK' /\ HandshakeTypeOK'
    BY <1>1, <1>4, <2>1, <2>2 DEF LanesTypeOK, HandshakeTypeOK
  <2>4. LanesInv'
    <3>1. \A p \in Procs : call'[p] = call[p] \/ (call[p].stage # "wire" /\ call'[p].stage # "wire")
      BY <1>2, <2>1
    <3>. QED
      BY <1>1, <1>4, <2>3, <3>1, LanesIdle
  <2>5. ShakeInv' /\ CallInv'
    BY <1>1, <1>2, <2>1 DEF ShakeInv, CallInv, Idle
  <2>. QED
    BY <1>1, <1>2, <1>4, <2>1, <2>3, <2>4, <2>5, OpeningKeeps
<1>. QED
  BY <1>3, <1>4 DEF freshOpened

\* main writes its request, or fails to.
LEMMA PostStep == ASSUME IndInv, mainPosts PROVE IndInv'
<1>. USE Places DEF IndInv, SessionTypeOK, sessionVars, recvVars, hostVars
<1>. DEFINE l == call["main"].lane
            m == call["main"].message
<1>1. PICK ended : written("main", l, m, ended)
  BY DEF mainPosts, postLocked
<1>2. /\ call["main"].stage = "lock" /\ holder[l] = Free /\ health[l] # "new"
      /\ UNCHANGED <<ctx, budget, main, runErr, route, signal, deleted, errs, closed, output, recv,
                     recvErr, beat, shell, process, mode, shake>>
  BY DEF mainPosts, postLocked
<1>3. /\ call["main"] \in Calls /\ l \in LaneSet /\ m \in Messages
      /\ main \in {"create", "command", "send", "signal", "delete", "abandon"} /\ m \in Once
  <2>1. call["main"] # Idle
    BY <1>2 DEF Idle
  <2>. QED
    BY <2>1 DEF LanesTypeOK, Calls, CallInv, Once
<1>4. /\ LanesTypeOK' /\ LanesInv' /\ reply' = reply
      /\ call'["recv"] = call["recv"] /\ call'["beat"] = call["beat"]
      /\ \/ call'["main"] = [lane |-> l, message |-> m, stage |-> "unsent"] /\ net' = net
         \/ /\ call'["main"] = [lane |-> l, message |-> m, stage |-> "wire"]
            /\ net' = net \cup {[lane |-> l, message |-> m]}
  BY <1>1, <1>2, <1>3, LanesWritten
<1>5. reply[l] = "none"
  BY <1>2, <1>3 DEF LanesInv, LaneOK
<1>6. writes[m] = 0 /\ \A x \in net : x.message # m
  BY <1>2, <1>3, NotYet
<1>7. ShakeInv' /\ CallInv'
  BY <1>2, <1>3, <1>4 DEF ShakeInv, CallInv, Idle, Calls
<1>8. CASE call'["main"] = [lane |-> l, message |-> m, stage |-> "unsent"] /\ net' = net
  <2>1. writes' = writes
    BY <1>8 DEF mainPosts
  <2>2. SessionTypeOK' /\ HandshakeTypeOK'
    BY <1>2, <1>4, <2>1 DEF HandshakeTypeOK
  <2>3. WritesInv'
    BY <1>2, <1>6, <1>8, <2>1 DEF WritesInv
  <2>4. NetInv'
    <3>1. \A x \in net : NetOK(x)'
      BY <1>2, <1>4, <1>6, <1>8, <2>1 DEF NetInv, NetOK
    <3>. QED
      BY <1>8, <3>1 DEF NetInv
  <2>5. HostInv' /\ ErrorInv' /\ NoOrphan'
    BY <1>2, <1>3, <1>4, <1>8, <2>1 DEF HostInv, Told, ErrorInv, NoOrphan
  <2>. QED
    BY <1>4, <1>7, <2>2, <2>3, <2>4, <2>5
<1>9. CASE /\ call'["main"] = [lane |-> l, message |-> m, stage |-> "wire"]
           /\ net' = net \cup {[lane |-> l, message |-> m]}
  <2>1. writes' = [writes EXCEPT ![m] = 1]
    <3>1. writes' = [writes EXCEPT ![m] = writes[m] + 1] /\ writes[m] + 1 = 1
      BY <1>6, <1>9 DEF mainPosts
    <3>. QED
      BY <3>1
  <2>2. writes'[m] = 1 /\ \A n \in Once : n # m => writes'[n] = writes[n]
    BY <1>3, <2>1
  <2>3. SessionTypeOK' /\ HandshakeTypeOK'
    <3>1. writes' \in [Once -> Nat]
      BY <2>1
    <3>. QED
      BY <1>2, <1>4, <3>1 DEF HandshakeTypeOK
  <2>4. WritesInv'
    BY <1>2, <1>3, <1>9, <2>2 DEF WritesInv, Before, CallInv, Once
  <2>5. NetInv'
    <3>1. \A x \in net : NetOK(x)'
      BY <1>2, <1>4, <1>6, <1>9, <2>2 DEF NetInv, NetOK
    <3>2. NetOK([lane |-> l, message |-> m])'
      BY <1>2, <1>3, <1>4, <1>5, <1>6, <1>9, <2>2 DEF NetOK, CallInv, HostInv, Idle, Once
    <3>. QED
      BY <1>9, <3>1, <3>2 DEF NetInv
  <2>6. HostInv'
    <3>1. ~Told("main", "ok")'
      BY <1>4, <1>5, <1>9 DEF Told
    <3>. QED
      BY <1>2, <1>4, <2>2, <3>1 DEF HostInv, Told, Once
  <2>7. ErrorInv' /\ NoOrphan'
    BY <1>2, <1>3 DEF ErrorInv, NoOrphan
  <2>. QED
    BY <1>4, <1>7, <2>3, <2>4, <2>5, <2>6, <2>7
<1>. QED
  BY <1>4, <1>8, <1>9

-----------------------------------------------------------------------------
(* receiveLoop and the heartbeats. *)

LEMMA RecvPostStep == ASSUME IndInv, recvPosts PROVE IndInv'
<1>. USE Places DEF IndInv, SessionTypeOK, sessionVars, recvVars, hostVars
<1>1. /\ call["recv"].stage = "lock"
      /\ UNCHANGED <<ctx, budget, main, runErr, route, signal, deleted, errs, closed, output, recv,
                     recvErr, beat, shell, process, writes, mode, shake>>
  BY DEF recvPosts, postLocked
<1>2. recv = "reply" /\ call["recv"].lane = "command" /\ call["recv"].message = "Receive"
  BY <1>1 DEF CallInv, Idle
<1>3. PICK ended : written("recv", "command", "Receive", ended) /\ holder["command"] = Free
  BY <1>2 DEF recvPosts, postLocked
<1>4. /\ LanesTypeOK' /\ LanesInv' /\ reply' = reply
      /\ call'["main"] = call["main"] /\ call'["beat"] = call["beat"]
      /\ \A k \in LaneSet : health[k] = "new" <=> health'[k] = "new"
      /\ \A k \in LaneSet : health[k] = "new" => sock'[k] = sock[k]
      /\ \/ call'["recv"] = [lane |-> "command", message |-> "Receive", stage |-> "unsent"] /\ net' = net
         \/ /\ call'["recv"] = [lane |-> "command", message |-> "Receive", stage |-> "wire"]
            /\ net' = net \cup {[lane |-> "command", message |-> "Receive"]}
  <2>1. "Receive" \in Messages
    BY DEF Messages
  <2>. QED
    BY <1>1, <1>3, <2>1, LanesWritten
<1>5. reply["command"] = "none" /\ \A x \in net : x.message # "Receive"
  BY <1>1, <1>2, <1>3 DEF LanesInv, LaneOK, NetInv, NetOK
<1>6. SessionTypeOK' /\ CallInv' /\ WritesInv'
  BY <1>1, <1>2, <1>4 DEF CallInv, WritesInv, Before, HandshakeTypeOK, Idle
<1>7. ShakeInv'
  <2>1. shake # NoShake => shake.lane \in LaneSet
    BY DEF HandshakeTypeOK
  <2>. QED
    BY <1>1, <1>4, <2>1 DEF ShakeInv
<1>8. NetInv'
  <2>1. \A x \in net : NetOK(x)'
    BY <1>1, <1>4, <1>5 DEF NetInv, NetOK
  <2>2. call'["recv"].stage = "wire" => NetOK([lane |-> "command", message |-> "Receive"])'
    BY <1>1, <1>2, <1>4, <1>5 DEF NetOK, CallInv, Idle, Once
  <2>. QED
    BY <1>4, <2>1, <2>2 DEF NetInv
<1>9. HostInv'
  <2>1. ~Told("recv", "done")'
    BY <1>4, <1>5 DEF Told
  <2>. QED
    BY <1>1, <1>4, <2>1 DEF HostInv, Told
<1>10. ErrorInv' /\ NoOrphan'
  BY <1>1, <1>4 DEF ErrorInv, NoOrphan
<1>. QED
  BY <1>4, <1>6, <1>7, <1>8, <1>9, <1>10

\* The exchange of p ends, with the answer that came or with an error.
LEMMA EndStep ==
  ASSUME IndInv, NEW p \in Procs, NEW stage \in Outcomes,
         call[p].stage = "wire", call' = [call EXCEPT ![p].stage = stage],
         stage = "error" \/ stage = reply[call[p].lane],
         holder' = [holder EXCEPT ![call[p].lane] = Free],
         reply' = [reply EXCEPT ![call[p].lane] = "none"],
         UNCHANGED <<health, torn>> \/ fail(call[p].lane),
         sock' = sock, net' \subseteq net,
         UNCHANGED <<sessionVars, recvVars, beat, hostVars, writes, mode, shake>>
  PROVE  IndInv'
<1>. USE Places DEF IndInv, SessionTypeOK, sessionVars, recvVars, hostVars
<1>. DEFINE l == call[p].lane
<1>1. /\ LanesTypeOK' /\ LanesInv'
      /\ \A q \in Procs : q # p => call'[q] = call[q]
      /\ call'[p] = [lane |-> l, message |-> call[p].message, stage |-> stage]
      /\ \A q \in Procs : q # p /\ call[q].stage = "wire" => call[q].lane # l
      /\ \A k \in LaneSet : k # l => reply'[k] = reply[k]
      /\ reply'[l] = "none"
      /\ \A k \in LaneSet : health[k] = "new" <=> health'[k] = "new"
  BY LanesFreed
<1>2. /\ stage \notin {"lock", "wire", "none"} /\ call[p] # Idle
      /\ stage = "unsent" => FALSE
  <2>1. l \in LaneSet
    BY DEF LanesTypeOK, Calls, Idle
  <2>2. reply[l] \in Replies \cup {"none"}
    BY <2>1 DEF LanesTypeOK
  <2>. QED
    BY <2>2 DEF Outcomes, Replies, Idle
<1>3. l \in LaneSet
  BY DEF LanesTypeOK, Calls, Idle
<1>4. SessionTypeOK' /\ HandshakeTypeOK'
  BY <1>1 DEF HandshakeTypeOK
<1>5. CallInv'
  BY <1>1, <1>2 DEF CallInv, Idle
<1>6. ShakeInv'
  <2>1. shake # NoShake => shake.lane \in LaneSet
    BY DEF HandshakeTypeOK
  <2>2. call["main"].stage = "lock" => call'["main"] = call["main"]
    BY <1>1
  <2>. QED
    BY <1>1, <2>1, <2>2 DEF ShakeInv
<1>7. WritesInv'
  <2>1. /\ call'["main"].message = call["main"].message
        /\ call'["main"].stage \in {"lock", "unsent"} <=> call["main"].stage \in {"lock", "unsent"}
    BY <1>1, <1>2
  <2>. QED
    BY <2>1 DEF WritesInv
<1>8. NetInv'
  <2>1. ASSUME NEW x \in net, NEW q \in {"main", "recv"}, call'[q].message = x.message
        PROVE  /\ x.lane = call'[q].lane /\ call'[q].stage \in {"wire", "error"}
               /\ call'[q].stage = "wire" => reply'[x.lane] = "none"
    <3>1. /\ call[q].message = x.message /\ x.lane = call[q].lane /\ call[q].stage \in {"wire", "error"}
          /\ call[q].stage = "wire" => reply[x.lane] = "none"
      BY <1>1, <2>1 DEF NetInv, NetOK
    <3>2. x.lane \in LaneSet
      BY DEF LanesTypeOK
    <3>3. CASE q = p
      BY <1>1, <1>2, <3>1, <3>3
    <3>4. CASE q # p
      BY <1>1, <3>1, <3>2, <3>4
    <3>. QED
      BY <3>3, <3>4
  <2>2. \A x \in net : NetOK(x)'
    BY <2>1 DEF NetInv, NetOK
  <2>. QED
    BY <2>2 DEF NetInv
<1>9. HostInv'
  <2>1. ASSUME NEW q \in Procs, NEW r \in {"ok", "done"}, Told(q, r)'
        PROVE  Told(q, r)
    <3>1. CASE q = p
      BY <1>1, <1>2, <2>1, <3>1 DEF Told
    <3>2. CASE q # p /\ call[q].stage = "wire"
      <4>1. call[q].lane \in LaneSet
        BY <3>2 DEF LanesTypeOK, Calls, Idle
      <4>. QED
        BY <1>1, <2>1, <3>2, <4>1 DEF Told
    <3>3. CASE q # p /\ call[q].stage # "wire"
      BY <1>1, <2>1, <3>3 DEF Told
    <3>. QED
      BY <3>1, <3>2, <3>3
  <2>2. Told("main", "ok")' => Told("main", "ok")
    BY <2>1
  <2>3. Told("recv", "done")' => Told("recv", "done")
    BY <2>1
  <2>. QED
    BY <2>2, <2>3 DEF HostInv
<1>10. ErrorInv' /\ NoOrphan'
  BY DEF ErrorInv, NoOrphan
<1>. QED
  BY <1>1, <1>4, <1>5, <1>6, <1>7, <1>8, <1>9, <1>10

LEMMA ExchangeStep == ASSUME IndInv, exchangeEnds PROVE IndInv'
<1>. USE Places
<1>0. UNCHANGED <<sessionVars, recvVars, beat, hostVars, writes, mode, shake>>
  BY DEF exchangeEnds
<1>1. ASSUME NEW p \in Procs, NEW ended, broken(p, ended)
      PROVE  IndInv'
  <2>1. "error" \in Outcomes
    BY DEF Outcomes
  <2>2. /\ call[p].stage = "wire" /\ call' = [call EXCEPT ![p].stage = "error"]
        /\ holder' = [holder EXCEPT ![call[p].lane] = Free]
        /\ reply' = [reply EXCEPT ![call[p].lane] = "none"]
        /\ fail(call[p].lane) /\ sock' = sock /\ net' \subseteq net
    BY <1>1 DEF broken
  <2>. QED
    BY <1>0, <2>1, <2>2, EndStep
<1>2. ASSUME NEW p \in Procs, replied(p)
      PROVE  IndInv'
  <2>1. call[p].lane \in LaneSet
    BY <1>2 DEF replied, IndInv, SessionTypeOK, LanesTypeOK, Calls, Idle
  <2>2. reply[call[p].lane] \in Outcomes
    BY <1>2, <2>1 DEF replied, IndInv, SessionTypeOK, LanesTypeOK, Outcomes
  <2>3. /\ call[p].stage = "wire" /\ call' = [call EXCEPT ![p].stage = reply[call[p].lane]]
        /\ holder' = [holder EXCEPT ![call[p].lane] = Free]
        /\ reply' = [reply EXCEPT ![call[p].lane] = "none"]
        /\ UNCHANGED <<health, torn>> /\ sock' = sock /\ net' \subseteq net
    BY <1>2 DEF replied
  <2>. QED
    BY <1>0, <2>2, <2>3, EndStep
<1>3. ASSUME NEW p \in Procs, identified(p)
      PROVE  IndInv'
  <2>1. /\ call[p].stage = "wire"
        /\ holder' = [holder EXCEPT ![call[p].lane] = Free]
        /\ reply' = [reply EXCEPT ![call[p].lane] = "none"]
        /\ sock' = sock /\ net' \subseteq net
    BY <1>3 DEF identified
  <2>2. CASE /\ reply[call[p].lane] = "ok" /\ call' = [call EXCEPT ![p].stage = "ok"]
             /\ UNCHANGED <<health, torn>>
    <3>1. "ok" \in Outcomes
      BY DEF Outcomes, Replies
    <3>. QED
      BY <1>0, <2>1, <2>2, <3>1, EndStep
  <2>3. CASE call' = [call EXCEPT ![p].stage = "error"] /\ fail(call[p].lane)
    <3>1. "error" \in Outcomes
      BY DEF Outcomes
    <3>. QED
      BY <1>0, <2>1, <2>3, <3>1, EndStep
  <2>. QED
    BY <1>3, <2>2, <2>3 DEF identified
<1>. QED
  BY <1>1, <1>2, <1>3 DEF exchangeEnds, mainBreaks, recvBreaks, beatBreaks

\* receiveLoop goes on, from a place it does not stay at for ever, to its next
\* exchange c or to none; or it ends, with an error unless all output was written.
LEMMA RecvMoves ==
  ASSUME IndInv, NEW c \in Calls \cup {Idle}, call' = [call EXCEPT !["recv"] = c],
         call["recv"].stage # "wire", recv \notin {"none", "gone"},
         UNCHANGED <<holder, health, net, reply, torn, sock, sessionVars, beat, hostVars, writes,
                     mode, shake>>,
         recv' \in {"poll", "reply", "write", "writelast", "gone"},
         recvErr' \subseteq {"other", "canceled", "deadline"},
         "canceled" \in recvErr' => ctx = "canceled",
         IF recv' = "reply"
         THEN c = [lane |-> "command", message |-> "Receive", stage |-> "lock"]
         ELSE c = Idle,
         \A x \in net : x.message = "Receive" => recv' = "gone" /\ recvErr' # {},
         recv' = "writelast" \/ (recv' = "gone" /\ recvErr' = {}) => process = "exited"
  PROVE  IndInv'
<1>. USE Places DEF IndInv, SessionTypeOK, sessionVars, hostVars
<1>1. call'["recv"] = c /\ \A p \in Procs : p # "recv" => call'[p] = call[p]
  BY DEF LanesTypeOK
<1>2. LanesTypeOK' /\ HandshakeTypeOK'
  BY DEF LanesTypeOK, HandshakeTypeOK
<1>3. LanesInv'
  <2>1. \A p \in Procs : call'[p] = call[p] \/ (call[p].stage # "wire" /\ call'[p].stage # "wire")
    BY <1>1 DEF Idle
  <2>. QED
    BY <1>2, <2>1, LanesIdle
<1>4. SessionTypeOK' /\ ShakeInv' /\ WritesInv'
  BY <1>1, <1>2 DEF ShakeInv, WritesInv, Sentinels
<1>5. CallInv'
  BY <1>1 DEF CallInv
<1>6. NetInv'
  <2>1. \A x \in net : x.message \in Messages
    BY DEF LanesTypeOK
  <2>2. ASSUME NEW x \in net
        PROVE  NetOK(x)'
    <3>1. call'["recv"].message # x.message
      BY <1>1, <2>1 DEF Idle, Messages
    <3>. QED
      BY <1>1, <3>1 DEF NetInv, NetOK
  <2>. QED
    BY <2>2 DEF NetInv
<1>7. HostInv'
  BY <1>1 DEF HostInv, Told
<1>8. ErrorInv' /\ NoOrphan'
  BY DEF ErrorInv, NoOrphan
<1>. QED
  BY <1>2, <1>3, <1>4, <1>5, <1>6, <1>7, <1>8

LEMMA RecvPollsStep == ASSUME IndInv, recvPolls PROVE IndInv'
<1>. USE Places DEF recvPolls, recvVars
<1>1. /\ recv \in {"wait", "poll"} /\ call["recv"] = Idle /\ Idle.stage # "wire"
      /\ call \in [Procs -> Calls \cup {Idle}]
  BY DEF IndInv, CallInv, Idle, SessionTypeOK, LanesTypeOK
<1>2. \A x \in net : x.message # "Receive"
  BY <1>1 DEF IndInv, NetInv, NetOK
<1>3. /\ ctx \in {"live", "canceled", "deadline"}
      /\ recvErr \subseteq {"other", "canceled", "deadline"}
      /\ "canceled" \in recvErr => ctx = "canceled"
  BY DEF IndInv, SessionTypeOK, ErrorInv
<1>4. /\ call = [call EXCEPT !["recv"] = Idle]
      /\ UNCHANGED <<holder, health, net, reply, torn, sock, sessionVars, beat, hostVars, writes,
                     mode, shake>>
  BY <1>1
<1>5. CASE call' = call /\ recv' = "poll" /\ recvErr' = recvErr
  BY <1>1, <1>2, <1>3, <1>4, <1>5, RecvMoves
<1>6. CASE call' = call /\ recv' = "gone" /\ recvErr' = {IF ctx # "live" THEN ctx ELSE "other"}
  <2>1. /\ recvErr' \subseteq {"other", "canceled", "deadline"} /\ recvErr' # {}
        /\ "canceled" \in recvErr' => ctx = "canceled"
    BY <1>3, <1>6
  <2>. QED
    BY <1>1, <1>2, <1>4, <1>6, <2>1, RecvMoves
<1>7. CASE recv' = "reply" /\ call' = Posted("recv", "command", "Receive") /\ recvErr' = recvErr
  <2>. DEFINE c == [lane |-> "command", message |-> "Receive", stage |-> "lock"]
  <2>1. c \in Calls
    BY DEF Calls, Messages
  <2>2. call' = [call EXCEPT !["recv"] = c]
    BY <1>7 DEF Posted
  <2>. QED
    BY <1>1, <1>2, <1>3, <1>4, <1>7, <2>1, <2>2, RecvMoves
<1>. QED
  BY <1>5, <1>6, <1>7

LEMMA RecvReturnsStep == ASSUME IndInv, recvReturns PROVE IndInv'
<1>. USE Places DEF recvVars
<1>1. PICK stage \in Outcomes :
        /\ call["recv"].stage = stage
        /\ \/ stage = "timeout" /\ recv' = "poll" /\ recvErr' = recvErr
           \/ stage = "more" /\ recv' = "write" /\ recvErr' = recvErr
           \/ stage = "done" /\ recv' = "writelast" /\ recvErr' = recvErr
           \/ /\ stage \in {"unsent", "error", "fault"}
              /\ recv' = "gone"
              /\ recvErr' \in exchangeErrors(stage, ctx)
  BY DEF recvReturns
<1>2. /\ recv = "reply" /\ call["recv"].message = "Receive" /\ call["recv"].stage # "wire"
      /\ call' = [call EXCEPT !["recv"] = Idle]
      /\ UNCHANGED <<holder, health, net, reply, torn, sock, sessionVars, beat, hostVars, writes,
                     mode, shake>>
  BY <1>1 DEF recvReturns, IndInv, CallInv, Outcomes, Replies
<1>3. /\ ctx \in {"live", "canceled", "deadline"}
      /\ recvErr \subseteq {"other", "canceled", "deadline"}
      /\ "canceled" \in recvErr => ctx = "canceled"
  BY DEF IndInv, SessionTypeOK, ErrorInv
<1>4. CASE stage \in {"timeout", "more", "done"} /\ recvErr' = recvErr
  <2>1. recv' \in {"poll", "write", "writelast"}
    BY <1>1, <1>4
  <2>2. \A x \in net : x.message # "Receive"
    BY <1>1, <1>2, <1>4, NoMore DEF IndInv
  <2>3. recv' = "writelast" => process = "exited"
    BY <1>1, <1>2 DEF IndInv, HostInv, Told
  <2>. QED
    BY <1>2, <1>3, <1>4, <2>1, <2>2, <2>3, RecvMoves
<1>5. CASE recv' = "gone" /\ recvErr' \in exchangeErrors(stage, ctx)
  <2>1. /\ recvErr' \subseteq {"other", "canceled", "deadline"} /\ recvErr' # {}
        /\ "canceled" \in recvErr' => ctx = "canceled"
    BY <1>3, <1>5, ExchangeErrors
  <2>. QED
    BY <1>2, <1>5, <2>1, RecvMoves
<1>. QED
  BY <1>1, <1>4, <1>5

LEMMA RecvWritesStep == ASSUME IndInv, recvWrites PROVE IndInv'
<1>. USE Places DEF laneVars
<1>1. /\ recv \in {"write", "writelast"} /\ recv' \in {"poll", "gone"} /\ call["recv"] = Idle
      /\ Idle.stage # "wire" /\ call' = [call EXCEPT !["recv"] = Idle]
      /\ UNCHANGED <<holder, health, net, reply, torn, sock, sessionVars, beat, hostVars, writes,
                     mode, shake>>
  BY DEF recvWrites, IndInv, CallInv, Idle, SessionTypeOK, LanesTypeOK
<1>2. \A x \in net : x.message # "Receive"
  BY <1>1 DEF IndInv, NetInv, NetOK
<1>3. /\ recvErr' \subseteq {"other", "canceled", "deadline"}
      /\ "canceled" \in recvErr' => ctx = "canceled"
      /\ recv' = "gone" /\ recvErr' = {} => process = "exited"
  BY DEF recvWrites, IndInv, HostInv, ErrorInv
<1>. QED
  BY <1>1, <1>2, <1>3, RecvMoves

\* The steps that concern no lane, no request and no result.
LEMMA QuietStep ==
  ASSUME IndInv, UNCHANGED laneVars,
         UNCHANGED <<main, runErr, route, signal, deleted, errs, closed, output, recvVars, shell,
                     writes, mode, shake>>,
         ctx' = ctx \/ (ctx = "live" /\ ctx' \in {"canceled", "deadline"}),
         budget' \in {"none", "live", "expired"},
         beat' = beat \/ (call["beat"] = Idle /\ main # "open"),
         beat' \in {"none", "wait", "beatcommand", "beatcleanup", "gone"},
         process' = process \/ (process = "running" /\ process' = "exited")
  PROVE  IndInv'
<1>. USE Places DEF IndInv, SessionTypeOK, laneVars, recvVars
<1>1. SessionTypeOK'
  BY DEF LanesTypeOK, HandshakeTypeOK
<1>2. CallInv' /\ ShakeInv'
  BY DEF CallInv, ShakeInv
<1>3. LanesInv'
  <2>1. LanesTypeOK'
    BY <1>1
  <2>. QED
    BY <2>1, LanesIdle
<1>4. WritesInv'
  BY DEF WritesInv
<1>5. NetInv'
  <2>1. \A x \in net : NetOK(x)'
    BY DEF NetInv, NetOK
  <2>. QED
    BY <2>1 DEF NetInv
<1>6. HostInv' /\ ErrorInv' /\ NoOrphan'
  BY DEF HostInv, Told, ErrorInv, NoOrphan, RunMayReturn
<1>. QED
  BY <1>1, <1>2, <1>3, <1>4, <1>5, <1>6

LEMMA BeatStep == ASSUME IndInv, beatTick \/ beatRound PROVE IndInv'
<1>. USE Places DEF sessionVars, recvVars, hostVars
<1>1. call["beat"] \in Calls \cup {Idle}
  BY DEF IndInv, SessionTypeOK, LanesTypeOK
<1>2. call["beat"].stage = "idle" <=> call["beat"] = Idle
  BY <1>1 DEF Calls, Outcomes, Replies, Idle
<1>3. /\ beat \in {"wait", "beatcommand", "beatcleanup"} => main # "open"
      /\ budget \in {"none", "live", "expired"}
  BY DEF IndInv, CallInv, SessionTypeOK
<1>4. CASE beatTick
  <2>1. call["beat"] = Idle
    BY <1>4 DEF beatTick, IndInv, CallInv
  <2>2. /\ beat = "wait" /\ beat' \in {"gone", "beatcommand"}
        /\ UNCHANGED <<laneVars, sessionVars, recvVars, hostVars, writes, mode, shake>>
    BY <1>4 DEF beatTick
  <2>. QED
    BY <1>3, <2>1, <2>2, QuietStep
<1>5. CASE beatRound /\ UNCHANGED laneVars /\ call["beat"].stage = "idle"
  <2>1. /\ beat \in {"beatcommand", "beatcleanup"}
        /\ beat' \in {"wait", "beatcommand", "beatcleanup", "gone"}
        /\ UNCHANGED <<sessionVars, recvVars, hostVars, writes, mode, shake>>
    BY <1>5 DEF beatRound, After
  <2>. QED
    BY <1>2, <1>3, <1>5, <2>1, QuietStep
<1>6. CASE beatRound /\ call["beat"].stage = "idle" /\ beat' = beat
           /\ \E ended : keepAlive("beat", Lane(beat), ended)
  <2>. DEFINE l == Lane(beat)
  <2>. USE DEF IndInv, SessionTypeOK
  <2>1. l \in LaneSet /\ "Identify" \in Messages /\ call["beat"].stage # "wire"
    BY <1>6 DEF Lane, Messages
  <2>2. PICK ended : written("beat", l, "Identify", ended) /\ holder[l] = Free
    BY <1>6 DEF keepAlive
  <2>3. /\ LanesTypeOK' /\ LanesInv' /\ reply' = reply
        /\ call'["main"] = call["main"] /\ call'["recv"] = call["recv"]
        /\ \A k \in LaneSet : health[k] = "new" <=> health'[k] = "new"
        /\ \A k \in LaneSet : health[k] = "new" => sock'[k] = sock[k]
        /\ \/ call'["beat"] = [lane |-> l, message |-> "Identify", stage |-> "unsent"] /\ net' = net
           \/ /\ call'["beat"] = [lane |-> l, message |-> "Identify", stage |-> "wire"]
              /\ net' = net \cup {[lane |-> l, message |-> "Identify"]}
    BY <2>1, <2>2, LanesWritten
  <2>4. /\ beat \in {"beatcommand", "beatcleanup"}
        /\ UNCHANGED <<ctx, budget, main, runErr, route, signal, deleted, errs, closed, output, recv,
                       recvErr, beat, shell, process, writes, mode, shake>>
    BY <1>6 DEF beatRound
  <2>5. SessionTypeOK' /\ CallInv' /\ WritesInv'
    BY <2>3, <2>4 DEF CallInv, WritesInv, HandshakeTypeOK
  <2>6. ShakeInv'
    <3>1. shake # NoShake => shake.lane \in LaneSet
      BY DEF HandshakeTypeOK
    <3>. QED
      BY <2>3, <2>4, <3>1 DEF ShakeInv
  <2>7. NetInv'
    <3>1. \A x \in net : NetOK(x)'
      BY <2>3, <2>4 DEF NetInv, NetOK
    <3>2. call["main"].message # "Identify" /\ call["recv"].message # "Identify"
      BY DEF CallInv, Idle
    <3>4. \A x \in net' : x \in net \/ x = [lane |-> l, message |-> "Identify"]
      BY <2>3
    <3>. HIDE DEF l
    <3>5. ASSUME NEW x \in net'
          PROVE  NetOK(x)'
      <4>1. CASE x \in net
        BY <3>1, <4>1
      <4>2. CASE x = [lane |-> l, message |-> "Identify"]
        BY <2>3, <3>2, <4>2 DEF NetOK, Once
      <4>. QED
        BY <3>4, <4>1, <4>2
    <3>. QED
      BY <3>5 DEF NetInv
  <2>8. HostInv' /\ ErrorInv' /\ NoOrphan'
    BY <2>3, <2>4 DEF HostInv, Told, ErrorInv, NoOrphan
  <2>. QED
    BY <2>3, <2>5, <2>6, <2>7, <2>8
<1>7. CASE beatRound /\ call["beat"].stage \in Outcomes /\ call' = [call EXCEPT !["beat"] = Idle]
  <2>. USE DEF IndInv, SessionTypeOK
  <2>1. /\ beat \in {"beatcommand", "beatcleanup"} /\ beat' \in {"wait", "beatcleanup", "gone"}
        /\ UNCHANGED <<holder, health, net, reply, torn, sock, ctx, budget, main, runErr, route, signal,
                       deleted, errs, closed, output, recv, recvErr, shell, process, writes, mode, shake>>
    BY <1>2, <1>7 DEF beatRound, After, laneVars, Outcomes, Replies, keepAlive, written
  <2>2. call'["beat"] = Idle /\ \A p \in Procs : p # "beat" => call'[p] = call[p]
    BY <1>7 DEF LanesTypeOK
  <2>3. LanesTypeOK' /\ HandshakeTypeOK'
    BY <1>7, <2>1 DEF LanesTypeOK, HandshakeTypeOK
  <2>4. LanesInv'
    <3>1. \A p \in Procs : call'[p] = call[p] \/ (call[p].stage # "wire" /\ call'[p].stage # "wire")
      BY <1>7, <2>2 DEF Outcomes, Replies, Idle
    <3>. QED
      BY <2>1, <2>3, <3>1, LanesIdle
  <2>5. SessionTypeOK' /\ CallInv' /\ ShakeInv' /\ WritesInv'
    BY <1>3, <2>1, <2>2, <2>3 DEF CallInv, ShakeInv, WritesInv
  <2>6. NetInv'
    <3>1. \A x \in net : NetOK(x)'
      BY <2>1, <2>2 DEF NetInv, NetOK
    <3>. QED
      BY <2>1, <3>1 DEF NetInv
  <2>7. HostInv' /\ ErrorInv' /\ NoOrphan'
    BY <2>1, <2>2 DEF HostInv, Told, ErrorInv, NoOrphan
  <2>. QED
    BY <2>3, <2>4, <2>5, <2>6, <2>7
<1>8. beatRound => \/ UNCHANGED laneVars /\ call["beat"].stage = "idle"
                   \/ /\ call["beat"].stage = "idle" /\ beat' = beat
                      /\ \E ended : keepAlive("beat", Lane(beat), ended)
                   \/ call["beat"].stage \in Outcomes /\ call' = [call EXCEPT !["beat"] = Idle]
  BY DEF beatRound
<1>. QED
  BY <1>4, <1>5, <1>6, <1>7, <1>8

-----------------------------------------------------------------------------
(* The host. *)

\* It answers request m with r; Create opens the Shell, Delete removes it, and only
\* a command may start a process again.
LEMMA HostStep ==
  ASSUME IndInv, NEW m \in net, NEW r \in Replies, answered(m, r),
         UNCHANGED <<sessionVars, recvVars, beat, writes, mode, shake>>,
         \/ shell' = shell
         \/ m.message = "Create" /\ shell' = "open"
         \/ m.message = "Delete" /\ shell = "open" /\ shell' = "gone",
         process' \in {"none", "running", "exited", "killed"},
         process = "exited" => process' = "exited" \/ m.message = "Command",
         r = "done" => process' = "exited",
         m.message = "Delete" /\ r = "ok" => shell' = "gone"
  PROVE  IndInv'
<1>. USE Places DEF IndInv, SessionTypeOK, sessionVars, recvVars
<1>1. /\ LanesTypeOK' /\ LanesInv'
      /\ \A k \in LaneSet : k # m.lane => reply'[k] = reply[k]
      /\ \/ reply'[m.lane] = reply[m.lane]
         \/ /\ reply'[m.lane] = r
            /\ \E p \in Procs : call[p] = [lane |-> m.lane, message |-> m.message, stage |-> "wire"]
  BY LanesAnswered
<1>2. /\ net' = net \ {m} /\ UNCHANGED <<holder, health, call, torn, sock>>
      /\ m \in [lane : LaneSet, message : Messages]
  BY DEF answered, LanesTypeOK
<1>3. SessionTypeOK'
  BY <1>1 DEF HandshakeTypeOK
<1>4. CallInv' /\ ShakeInv' /\ WritesInv'
  BY <1>2 DEF CallInv, ShakeInv, WritesInv
\* Only the exchange whose request it is hears of the answer.
<1>5. ASSUME NEW q \in Procs, call[q].stage = "wire", reply'[call[q].lane] # reply[call[q].lane]
      PROVE  call[q].lane = m.lane /\ call[q].message = m.message /\ reply'[call[q].lane] = r
  <2>1. call[q].lane \in LaneSet
    BY <1>5 DEF LanesTypeOK, Calls, Idle
  <2>2. call[q].lane = m.lane
    BY <1>1, <1>5, <2>1
  <2>3. PICK p \in Procs : call[p] = [lane |-> m.lane, message |-> m.message, stage |-> "wire"]
    BY <1>1, <1>5, <2>2
  <2>4. p = q
    BY <1>5, <2>2, <2>3 DEF LanesInv, WireOK
  <2>. QED
    BY <1>1, <1>5, <2>2, <2>3, <2>4
<1>6. NetInv'
  <2>1. ASSUME NEW x \in net, x # m
        PROVE  NetOK(x)'
    <3>1. x \in [lane : LaneSet, message : Messages]
      BY DEF LanesTypeOK
    <3>2. x.message = m.message => x.lane # m.lane
      BY <1>2, <2>1, <3>1
    <3>3. ASSUME NEW q \in {"main", "recv"}, call[q].message = x.message, call[q].stage = "wire"
          PROVE  reply'[x.lane] = "none"
      <4>1. x.lane = call[q].lane /\ reply[x.lane] = "none"
        BY <3>3 DEF NetInv, NetOK
      <4>. QED
        BY <1>5, <3>2, <3>3, <4>1
    <3>4. x.message = "Create" => shell' = "none"
      <4>1. x.message = "Create" => shell = "none" /\ x.lane = "command"
        BY DEF NetInv, NetOK
      <4>2. m.message = "Create" => m.lane = "command"
        BY DEF NetInv, NetOK
      <4>. QED
        BY <3>2, <4>1, <4>2
    <3>. QED
      BY <1>2, <3>3, <3>4 DEF NetInv, NetOK
  <2>. QED
    BY <1>2, <2>1 DEF NetInv
<1>7. HostInv'
  <2>1. writes["Create"] = 0 => shell' = "none"
    BY DEF HostInv, NetInv, NetOK, Once
  <2>2. shell = "gone" => shell' = "gone"
    BY DEF NetInv, NetOK
  <2>3. process = "exited" /\ recv # "none" => process' = "exited"
    BY DEF NetInv, NetOK
  <2>4. main \in {"delete", "abandon"} /\ Told("main", "ok")' => shell' = "gone"
    <3>1. CASE Told("main", "ok")
      BY <2>2, <3>1 DEF HostInv
    <3>2. CASE ~Told("main", "ok")
      BY <1>2, <1>5, <3>2 DEF Told, CallInv
    <3>. QED
      BY <3>1, <3>2
  <2>5. recv = "reply" /\ Told("recv", "done")' => process' = "exited"
    <3>1. CASE Told("recv", "done")
      BY <2>3, <3>1 DEF HostInv
    <3>2. CASE ~Told("recv", "done")
      BY <1>2, <1>5, <3>2 DEF Told
    <3>. QED
      BY <3>1, <3>2
  <2>. QED
    BY <2>1, <2>2, <2>3, <2>4, <2>5 DEF HostInv
<1>8. ErrorInv'
  BY DEF ErrorInv
<1>9. NoOrphan'
  <2>1. m.message = "Create" /\ main \in {"stop", "returned"} => "unknown" \in errs
    BY DEF NoOrphan
  <2>. QED
    BY <1>2, <2>1 DEF NoOrphan
<1>. QED
  BY <1>1, <1>3, <1>4, <1>6, <1>7, <1>8, <1>9

LEMMA HostAnswersStep == ASSUME IndInv, NEW m \in net, hostAnswers(m) PROVE IndInv'
<1>1. /\ UNCHANGED <<sessionVars, recvVars, beat, writes, mode, shake>>
      /\ process \in {"none", "running", "exited", "killed"}
  BY DEF hostAnswers, IndInv, SessionTypeOK
<1>2. {"fault", "ok", "more", "timeout", "done"} \subseteq Replies
  BY DEF Replies
<1>3. CASE UNCHANGED hostVars /\ answered(m, "fault")
  BY <1>1, <1>2, <1>3, HostStep DEF hostVars
<1>4. CASE m.message = "Create" /\ shell' = "open" /\ process' = process /\ answered(m, "ok")
  BY <1>1, <1>2, <1>4, HostStep
<1>5. CASE m.message = "Command" /\ process' = "running" /\ shell' = shell /\ answered(m, "ok")
  BY <1>1, <1>2, <1>5, HostStep
<1>6. CASE m.message \in {"Send", "Identify"} /\ UNCHANGED hostVars /\ answered(m, "ok")
  BY <1>1, <1>2, <1>6, HostStep DEF hostVars
<1>7. ASSUME NEW r \in {"more", "timeout", "done"}, r = "done" => process = "exited",
             m.message = "Receive", UNCHANGED hostVars, answered(m, r)
      PROVE  IndInv'
  BY <1>1, <1>2, <1>7, HostStep DEF hostVars
<1>8. CASE /\ m.message = "Signal"
           /\ process' = IF process = "running" THEN "killed" ELSE process
           /\ shell' = shell /\ answered(m, "ok")
  BY <1>1, <1>2, <1>8, HostStep
<1>9. CASE /\ m.message = "Delete" /\ shell = "open"
           /\ process' = IF process = "running" THEN "killed" ELSE process
           /\ shell' = "gone" /\ answered(m, "ok")
  BY <1>1, <1>2, <1>9, HostStep
<1>. QED
  BY <1>3, <1>4, <1>5, <1>6, <1>7, <1>8, <1>9 DEF hostAnswers
-----------------------------------------------------------------------------
(* The invariant. *)

LEMMA IndInit == Init => IndInv
<1>. SUFFICES ASSUME Init PROVE IndInv
  OBVIOUS
<1>. USE DEF Init, LanesInit
<1>1. LanesTypeOK
  BY DEF LanesTypeOK, Pinned, Undialed, Conns
<1>2. HandshakeTypeOK
  BY DEF HandshakeTypeOK
<1>3. << >> \in Seq(LaneSet)
  BY EmptySeq
<1>4. SessionTypeOK
  BY <1>1, <1>2, <1>3, EndingsAssumption DEF SessionTypeOK, Once
<1>5. CallInv
  BY Places DEF CallInv, Idle
<1>6. ShakeInv
  BY LanesAssumption DEF ShakeInv, Pinned, NoShake
<1>7. LanesInv
  BY DEF LanesInv, LaneOK, WireOK, Idle
<1>8. WritesInv
  BY Places DEF WritesInv, Once, Before, Idle
<1>9. NetInv /\ HostInv /\ ErrorInv /\ NoOrphan
  BY Places DEF NetInv, HostInv, Told, ErrorInv, NoOrphan, Once, Idle
<1>. QED
  BY <1>4, <1>5, <1>6, <1>7, <1>8, <1>9 DEF IndInv

LEMMA IndNext == IndInv /\ [Next]_vars => IndInv'
<1>. SUFFICES ASSUME IndInv, [Next]_vars PROVE IndInv'
  OBVIOUS
<1>0. /\ ctx \in {"live", "canceled", "deadline"} /\ budget \in {"none", "live", "expired"}
      /\ beat \in {"none", "wait", "beatcommand", "beatcleanup", "gone"}
  BY DEF IndInv, SessionTypeOK
<1>1. CASE opening
  BY <1>1, LanesOpenStep, AuthenticateStep, LanesOpenedStep, FreshOpenedStep DEF opening
<1>2. CASE mainStarts
  BY <1>2, StartStep
<1>3. CASE mainReturns
  BY <1>3, MainReturnsStep
<1>4. CASE mainPosts
  BY <1>4, PostStep
<1>5. CASE lanesStop
  BY <1>5, StopStep
<1>6. CASE recvPolls
  BY <1>6, RecvPollsStep
<1>7. CASE recvPosts
  BY <1>7, RecvPostStep
<1>8. CASE recvReturns
  BY <1>8, RecvReturnsStep
<1>9. CASE recvWrites
  BY <1>9, RecvWritesStep
<1>10. CASE beatTick \/ beatRound
  BY <1>10, BeatStep
<1>11. CASE ctxEnds
  BY <1>0, <1>11, QuietStep, EndingsAssumption DEF ctxEnds, recvVars, hostVars
<1>12. CASE budgetExpires
  BY <1>0, <1>12, QuietStep DEF budgetExpires, recvVars, hostVars
<1>13. CASE exchangeEnds
  BY <1>13, ExchangeStep
<1>14. CASE processExits
  BY <1>0, <1>14, QuietStep DEF processExits, sessionVars, recvVars
<1>15. CASE UNCHANGED vars
  BY <1>0, <1>15, QuietStep DEF vars, sessionVars, recvVars, hostVars
<1>16. CASE \E m \in net : hostAnswers(m)
  BY <1>16, HostAnswersStep
<1>. QED
  BY <1>1, <1>2, <1>3, <1>4, <1>5, <1>6, <1>7, <1>8, <1>9, <1>10, <1>11, <1>12, <1>13, <1>14,
     <1>15, <1>16 DEF Next, Done

\* The invariant holds whatever the host, the network, the caller's context and the
\* writers do: of both callers of runWithPosters, and however often a Delete that was
\* not sent is routed again.
THEOREM Inductive == Spec => []IndInv
BY IndInit, IndNext, PTL DEF Spec

\* Every variable keeps its type.
THEOREM SessionTypeCorrect == Spec => []SessionTypeOK
<1>1. IndInv => SessionTypeOK
  BY DEF IndInv
<1>. QED
  BY <1>1, Inductive, PTL

\* A Shell that may be left on the host, even by a Create still on its way, is
\* reported as ErrRemoteStateUnknown by runWithPosters and closeWith.
THEOREM OrphansTold == Spec => []NoOrphan
<1>1. IndInv => NoOrphan
  BY DEF IndInv
<1>. QED
  BY <1>1, Inductive, PTL

\* No request that changes the host's state is written twice: deleteShell tries the
\* next lane only after errUnsent, and nothing else repeats a request.
THEOREM NothingReplayed == Spec => []NoReplay
<1>1. IndInv => NoReplay
  BY DEF IndInv, WritesInv, NoReplay
<1>. QED
  BY <1>1, Inductive, PTL

\* persistentPoster carries a request only on a lane none of whose exchanges has an
\* uncertain outcome, and on the connection its security context is bound to.
THEOREM SequenceKept == Spec => []SequenceIntact
<1>1. IndInv => SequenceIntact
  BY DEF IndInv, LanesInv, WireOK, SequenceIntact, Pinned
<1>. QED
  BY <1>1, Inductive, PTL

\* A call that returns nil leaves nothing behind: receive() saw the exit code,
\* closeWith deleted the Shell and joined receiveLoop, and nothing of the command is on
\* the network or in a lane the next command will use.
THEOREM CleanReturns == Spec => []CleanReturn
<1>1. ASSUME IndInv, main \in {"stop", "returned"}, errs = {}
      PROVE  /\ process = "exited" /\ shell = "gone" /\ recv = "gone"
             /\ \A m \in net : m.message = "Identify"
             /\ \A l \in LaneSet : holder[l] \in {Free, "beat"}
  <2>1. /\ recv = "gone" /\ recvErr = {} /\ runErr = {}
        /\ deleted = "yes" /\ signal # "failed"
    BY <1>1 DEF IndInv, ErrorInv
  <2>2. process = "exited" /\ shell = "gone"
    BY <1>1, <2>1 DEF IndInv, HostInv
  <2>3. ASSUME NEW m \in net
        PROVE  m.message = "Identify"
    <3>1. m.message \in Messages
      BY <1>1 DEF IndInv, SessionTypeOK, LanesTypeOK
    <3>2. m.message # "Create"
      BY <1>1 DEF IndInv, NoOrphan
    <3>3. NetOK(m)
      BY <1>1 DEF IndInv, NetInv
    <3>4. m.message \notin {"Command", "Send", "Receive", "Signal", "Delete"}
      BY <1>1, <2>1, <3>3 DEF NetOK
    <3>. QED
      BY <3>1, <3>2, <3>4 DEF Messages
  <2>4. ASSUME NEW l \in LaneSet, holder[l] # Free
        PROVE  holder[l] = "beat"
    <3>1. holder[l] \in Procs /\ call[holder[l]].stage = "wire"
      BY <1>1, <2>4 DEF IndInv, SessionTypeOK, LanesTypeOK, LanesInv, LaneOK
    <3>2. call["main"] = Idle /\ call["recv"] = Idle
      BY <1>1, <2>1 DEF IndInv, CallInv
    <3>. QED
      BY <3>1, <3>2, GoroutinesAssumption DEF Idle
  <2>. QED
    BY <2>1, <2>2, <2>3, <2>4
<1>2. IndInv => CleanReturn
  BY <1>1 DEF CleanReturn
<1>. QED
  BY <1>2, Inductive, PTL

-----------------------------------------------------------------------------
(* The refinement of RemoteRun: what its caller sees of a step of the session. *)

phaseSeen == IF main = "returned" THEN "returned" ELSE "running"
dispatchedSeen == IF writes["Create"] > 0 THEN "yes" ELSE "no"
errsSeen == IF main = "returned" THEN errs ELSE {}

\* A step that writes no Create and ends no context is a return, or not seen.
LEMMA Unseen ==
  ASSUME IndInv', ctx' = ctx, writes'["Create"] = writes["Create"],
         \/ main # "returned"
         \/ main' = main /\ errs' = errs
  PROVE  \/ Contract!Returns
         \/ UNCHANGED <<phaseSeen, ctx, dispatchedSeen, errsSeen>>
<1>1. CASE main' = "returned" /\ main # "returned"
  <2>1. RunMayReturn(errs', ctx', writes'["Create"] > 0) /\ (errs' = {} => writes'["Create"] > 0)
    BY <1>1 DEF IndInv, ErrorInv
  <2>. QED
    BY <1>1, <2>1 DEF Contract!Returns, Contract!RunMayReturn, RunMayReturn
<1>2. CASE main' # "returned" \/ main = "returned"
  BY <1>2 DEF phaseSeen, dispatchedSeen, errsSeen
<1>. QED
  BY <1>1, <1>2

\* mainPosts is the only step that writes a Create.
LEMMA Seen ==
  ASSUME IndInv, IndInv', mainPosts
  PROVE  \/ Contract!Dispatches
         \/ UNCHANGED <<phaseSeen, ctx, dispatchedSeen, errsSeen>>
<1>1. main # "returned" /\ UNCHANGED sessionVars
  BY DEF mainPosts, IndInv, CallInv, Idle
<1>2. CASE writes'["Create"] = writes["Create"]
  BY <1>1, <1>2 DEF sessionVars, phaseSeen, dispatchedSeen, errsSeen
<1>3. CASE writes'["Create"] # writes["Create"]
  <2>1. call["main"].message = "Create" /\ call["main"].stage = "lock"
    BY <1>3 DEF mainPosts, IndInv, SessionTypeOK
  <2>2. writes["Create"] = 0 /\ writes'["Create"] \in {0, 1}
    BY <2>1 DEF IndInv, WritesInv, Once
  <2>. QED
    BY <1>1, <1>3, <2>2 DEF sessionVars, Contract!Dispatches
<1>. QED
  BY <1>2, <1>3

LEMMA ContractStep ==
  IndInv /\ IndInv' /\ [Next]_vars =>
    Contract!Next \/ UNCHANGED <<phaseSeen, ctx, dispatchedSeen, errsSeen>>
<1>. SUFFICES ASSUME IndInv, IndInv', [Next]_vars
              PROVE  Contract!Next \/ UNCHANGED <<phaseSeen, ctx, dispatchedSeen, errsSeen>>
  OBVIOUS
<1>1. CASE ctxEnds
  BY <1>1, EndingsAssumption DEF ctxEnds, Contract!Next, Contract!ContextEnds
<1>2. CASE mainPosts
  BY <1>2, Seen DEF Contract!Next
<1>3. CASE opening \/ mainStarts \/ mainReturns \/ lanesStop
  <2>1. ctx' = ctx /\ writes' = writes
    BY <1>3 DEF opening, lanesOpen, lanesAuthenticate, lanesOpened, freshOpened, mainStarts,
                mainReturns, createReturns, commandReturns, sendReturns, receiveReturns,
                signalReturns, deleteReturns, closeReturns, lanesStop, sessionVars
  <2>2. main # "returned" \/ (main' = main /\ errs' = errs)
    BY <1>3 DEF opening, lanesOpen, lanesAuthenticate, lanesOpened, freshOpened, mainStarts,
                mainReturns, createReturns, commandReturns, sendReturns, receiveReturns,
                signalReturns, deleteReturns, closeReturns, lanesStop, sessionVars
  <2>. QED
    BY <2>1, <2>2, Unseen DEF Contract!Next
<1>4. CASE \/ recvPolls \/ recvPosts \/ recvReturns \/ recvWrites \/ beatTick \/ beatRound
           \/ budgetExpires \/ exchangeEnds \/ processExits \/ UNCHANGED vars
           \/ \E m \in net : hostAnswers(m)
  <2>1. UNCHANGED <<ctx, writes, main, errs>>
    BY <1>4 DEF recvPolls, recvPosts, recvReturns, recvWrites, beatTick, beatRound, budgetExpires,
                exchangeEnds, processExits, vars, hostAnswers, sessionVars
  <2>. QED
    BY <2>1, Unseen DEF Contract!Next
<1>. QED
  BY <1>1, <1>2, <1>3, <1>4 DEF Next, Done

\* A session implements the call the worker of the master relies on: the Create is
\* dispatched at most once, and the errors of RunWithPosters are those its caller may
\* conclude from (ErrNotStarted only if nothing was dispatched, context.Canceled only
\* after the caller's own cancellation).
THEOREM Implements == Spec => ImplementsContract
<1>1. Init => Contract!Init
  BY EndingsAssumption DEF Init, Contract!Init, Once
<1>2. IndInv /\ IndInv' /\ [Next]_vars =>
        [Contract!Next]_<<phaseSeen, ctx, dispatchedSeen, errsSeen>>
  BY ContractStep
<1>. QED
  BY <1>1, <1>2, Inductive, PTL DEF Spec, ImplementsContract, Contract!Spec, phaseSeen,
     dispatchedSeen, errsSeen

=============================================================================
