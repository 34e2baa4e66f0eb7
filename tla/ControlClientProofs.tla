-------------------------- MODULE ControlClientProofs --------------------------
(***************************************************************************)
(* What a command in control mode guarantees for any number of clients and *)
(* of output frames: the clients' use of the start is one ControlStart     *)
(* allows, and what a user is told of a command is true.                   *)
(***************************************************************************)
EXTENDS ControlClient, ControlStartProofs, SequenceTheorems

-----------------------------------------------------------------------------
(* The start: commands run on top of ControlStart. *)

\* A start that has returned has ended its context.
StartupInv == \A c \in Clients : ~Starting(c) => startup[c] = "ended"

LEMMA StartupInit == StartInit => StartupInv
BY DEF StartInit, StartupInv, Starting

LEMMA StartupStep == StartTypeOK /\ StartupInv /\ [StartNext]_startVars => StartupInv'
<1> SUFFICES ASSUME StartTypeOK, StartupInv, [StartNext]_startVars
             PROVE  StartupInv'
  OBVIOUS
<1>. USE DEF StartTypeOK, StartupInv, Starting
<1>1. ASSUME NEW c \in Clients, client(c) PROVE StartupInv'
  BY <1>1 DEF client, looks, probes, triesLock, probesAgain, removes, resolves, launches, awaits,
              goes, leaves, move
<1>2. ASSUME NEW c \in Clients, StartupEnds(c) \/ ClientCrashes(c) PROVE StartupInv'
  BY <1>2 DEF StartupEnds, ClientCrashes, leaves, move
<1>3. ASSUME NEW m \in Clients, \/ boots(m) \/ binds(m) \/ becomesReady(m) \/ stops(m)
                                \/ MasterCrashes(m)
      PROVE  StartupInv'
  BY <1>3 DEF boots, binds, becomesReady, stops, MasterCrashes
<1>4. CASE UNCHANGED startVars
  BY <1>4 DEF startVars
<1>. QED
  BY <1>1, <1>2, <1>3, <1>4 DEF StartNext, StartStep

\* Only three steps of a command are steps of the start: its own, the end of the
\* command's context, and the stop of a master.
LEMMA StartSimulated == StartTypeOK /\ StartupInv /\ [Next]_vars => [StartNext]_startVars
<1> SUFFICES ASSUME StartTypeOK, StartupInv, [Next]_vars
             PROVE  StartNext \/ UNCHANGED startVars
  OBVIOUS
<1>1. ASSUME NEW c \in Clients, invoke(c) \/ shows(c) \/ serves(c) \/ HostEnds(c)
      PROVE  UNCHANGED startVars
  BY <1>1 DEF invoke, startFails, dials, writesRequest, readsFrame, readsNothing, stopsShowing,
              halfCloses, shows, serves, admits, begins, executes, outputs, answers, HostEnds
<1>2. ASSUME NEW c \in Clients, CtxEnds(c)
      PROVE  StartupEnds(c) \/ UNCHANGED startVars
  <2>1. CASE Starting(c) /\ startup[c] = "live"
    BY <1>2, <2>1 DEF CtxEnds, StartupEnds
  <2>2. CASE startup[c] = "ended"
    BY <1>2, <2>2 DEF CtxEnds, StartTypeOK, startVars
  <2>. QED
    BY <2>1, <2>2 DEF StartTypeOK, StartupInv
<1>3. ASSUME NEW m \in Clients, serverStops(m) PROVE StartNext
  BY <1>3 DEF serverStops, StartNext
<1>4. CASE UNCHANGED vars
  BY <1>4 DEF vars
<1>. QED
  BY <1>1, <1>2, <1>3, <1>4 DEF Next, StartNext, StartStep

\* Whatever commands do with it, the start is that of ControlStart: what is proved of
\* StartSpec holds in control mode.
THEOREM StartIsShared == Spec => StartSpec
<1>1. Init => StartInit /\ StartTypeOK /\ StartupInv
  BY StartTypeInit, StartupInit DEF Init
<1>2. StartTypeOK /\ StartupInv /\ [Next]_vars => StartTypeOK' /\ StartupInv'
  BY StartSimulated, StartTypeNext, StartupStep
<1>. QED
  BY <1>1, <1>2, StartSimulated, PTL DEF Spec, StartSpec

\* In control mode, with any number of clients and commands that run and are cancelled,
\* there is one master, it can be reached, and no password is asked for beside it.
THEOREM ControlStartHolds == Spec => [](OneMaster /\ LiveSocketKept /\ PasswordNeeded)
BY StartIsShared, SingleMaster, SocketKept, PasswordWhenNeeded, PTL

-----------------------------------------------------------------------------
(* The invariant of a command. *)

Finals == {"ok", "not-started", "unavailable", "canceled", "cleanup-failed", "remote-state-unknown"}

Frame == {[kind |-> "output"], [kind |-> "torn"]} \cup [kind : {"final"}, category : Finals]

CallTypes ==
  /\ call \in [Clients -> {"start", "request", "read", "show", "done"}]
  /\ ctx \in [Clients -> {"live", "ended"}]
  /\ server \in [Clients -> Clients \cup {None}]
  /\ half \subseteq Clients
  /\ report \in [Clients -> Reports \cup {"none"}]
  /\ handled \in [Clients -> {"none", "asked", "wait", "run", "closed"}]
  /\ remote \in [Clients -> {"never", "sent", "ended"}]
  /\ made \in [Clients -> 0..MaxOutput] /\ shown \in [Clients -> Nat]
  /\ frames \in [Clients -> Seq(Frame)]

\* What a final frame claims of the command on the host.
Claim(c, category) ==
  /\ category \in {"ok", "cleanup-failed"} => remote[c] = "ended"
  /\ category \in {"not-started", "unavailable", "canceled"} => remote[c] = "never"

\* Only the last frame is final, and it is there once the master has answered. While the
\* context lives no frame is cut.
FramesOK(c) ==
  /\ call[c] = "done" => frames[c] = << >>
  /\ \A i \in 1..Len(frames[c]) : frames[c][i].kind = "final" =>
       i = Len(frames[c]) /\ handled[c] = "closed" /\ Claim(c, frames[c][i].category)
  /\ handled[c] = "closed" /\ call[c] # "done" =>
       Len(frames[c]) > 0 /\ frames[c][Len(frames[c])].kind = "final"
  /\ ctx[c] = "live" => \A i \in 1..Len(frames[c]) : frames[c][i].kind # "torn"

\* The frames made are shown, on their way or in the writer; none is dropped while the
\* context lives.
Pending(c) == Len(frames[c]) + (IF call[c] = "show" THEN 1 ELSE 0)
Sent(c)    == made[c] + (IF handled[c] = "closed" THEN 1 ELSE 0)

CountOK(c) ==
  /\ shown[c] <= made[c]
  /\ call[c] # "done" => shown[c] + Pending(c) <= Sent(c)
  /\ call[c] # "done" /\ ctx[c] = "live" => shown[c] + Pending(c) = Sent(c)

\* A report stays true: what it denies cannot start any more.
Truth(c, r) ==
  /\ r = "exit-code" => handled[c] = "closed" /\ remote[c] = "ended" /\ shown[c] = made[c]
  /\ r = "not-started" => handled[c] = "closed" /\ remote[c] = "never"
  /\ r = "failure" => handled[c] \in {"none", "closed"} /\ remote[c] # "sent"

CallOK(c) ==
  /\ FramesOK(c) /\ CountOK(c)
  /\ report[c] = "none" <=> call[c] # "done"
  /\ Truth(c, report[c])
  /\ call[c] \in {"start", "request"} => handled[c] = "none"
  /\ handled[c] \in {"none", "asked", "wait"} => remote[c] = "never"

ClientInv == CallTypes /\ \A c \in Clients : CallOK(c)
-----------------------------------------------------------------------------
(* Types. *)

LEMMA FrameFacts ==
  ASSUME NEW f \in Frame
  PROVE  /\ f.kind \in {"output", "torn", "final"}
         /\ f.kind = "final" => f.category \in Finals
         /\ reportOf(f) \in Reports
BY DEF Frame, Finals, reportOf, Reports, transportLost

\* One frame more at the end, or one less at the front.
LEMMA FrameSeqFacts ==
  ASSUME NEW s \in Seq(Frame)
  PROVE  /\ Len(s) \in Nat
         /\ \A i \in 1..Len(s) : s[i] \in Frame
         /\ \A f \in Frame : /\ Append(s, f) \in Seq(Frame) /\ Len(Append(s, f)) = Len(s) + 1
                             /\ \A i \in 1..Len(s) : Append(s, f)[i] = s[i]
                             /\ Append(s, f)[Len(s) + 1] = f
         /\ s # << >> => /\ Len(s) > 0 /\ Head(s) = s[1] /\ Head(s) \in Frame
                        /\ Tail(s) \in Seq(Frame) /\ Len(Tail(s)) = Len(s) - 1
                        /\ \A i \in 1..Len(Tail(s)) : Tail(s)[i] = s[i + 1]
<1>1. Len(s) \in Nat /\ \A i \in 1..Len(s) : s[i] \in Frame
  BY LenProperties, ElementOfSeq
<1>2. ASSUME NEW f \in Frame
      PROVE  /\ Append(s, f) \in Seq(Frame) /\ Len(Append(s, f)) = Len(s) + 1
             /\ \A i \in 1..Len(s) : Append(s, f)[i] = s[i]
             /\ Append(s, f)[Len(s) + 1] = f
  BY AppendProperties
<1>3. ASSUME s # << >>
      PROVE  /\ Len(s) > 0 /\ Head(s) = s[1] /\ Head(s) \in Frame
             /\ Tail(s) \in Seq(Frame) /\ Len(Tail(s)) = Len(s) - 1
             /\ \A i \in 1..Len(Tail(s)) : Tail(s)[i] = s[i + 1]
  <2>1. Len(s) > 0
    BY <1>1, <1>3, EmptySeq
  <2>2. /\ Head(s) \in Frame /\ Tail(s) \in Seq(Frame) /\ Len(Tail(s)) = Len(s) - 1
        /\ \A i \in 1..Len(Tail(s)) : Tail(s)[i] = s[i + 1]
    BY <1>3, HeadTailProperties
  <2>3. Head(s) = s[1]
    BY <1>3, HeadTailProperties, SMT
  <2>. QED
    BY <2>1, <2>2, <2>3
<1>. QED
  BY <1>1, <1>2, <1>3

LEMMA CallTypesInit == Init => CallTypes
BY OutputAssumption DEF Init, CallTypes, Reports

LEMMA CallTypesNext == StartTypeOK /\ CallTypes /\ [Next]_vars => CallTypes'
<1> SUFFICES ASSUME StartTypeOK, CallTypes, [Next]_vars
             PROVE  CallTypes'
  OBVIOUS
<1>. USE DEF CallTypes
<1>1. CASE UNCHANGED <<clientVars, masterVars, frames>>
  BY <1>1 DEF clientVars, masterVars
<1> DEFINE InvokeTypes ==
             /\ call' \in [Clients -> {"start", "request", "read", "show", "done"}]
             /\ ctx' \in [Clients -> {"live", "ended"}]
             /\ half' \subseteq Clients
             /\ report' \in [Clients -> Reports \cup {"none"}]
<1>a. ASSUME NEW c \in Clients, NEW to \in {"start", "request", "read", "show", "done"}, goesOn(c, to)
      PROVE  InvokeTypes
  BY <1>a DEF goesOn
<1>b. ASSUME NEW c \in Clients, NEW r \in Reports, tell(c, r)
      PROVE  InvokeTypes /\ frames' \in [Clients -> Seq(Frame)]
  <2>1. << >> \in Seq(Frame)
    OBVIOUS
  <2>. QED
    BY <1>b, <2>1 DEF tell
<1>c. {transportLost, "unknown", "failure"} \subseteq Reports
  BY DEF transportLost, Reports
<1>. HIDE DEF InvokeTypes
<1>d. ASSUME InvokeTypes, server' \in [Clients -> Clients \cup {None}],
             handled' \in [Clients -> {"none", "asked", "wait", "run", "closed"}],
             remote' = remote, made' = made, shown' \in [Clients -> Nat],
             frames' \in [Clients -> Seq(Frame)]
      PROVE  CallTypes'
  BY <1>d DEF InvokeTypes
<1>2. ASSUME NEW c \in Clients, startFails(c) PROVE CallTypes'
  BY <1>2, <1>b, <1>c, <1>d DEF startFails, masterVars
<1>3. ASSUME NEW c \in Clients, dials(c) PROVE CallTypes'
  <2>1. server' \in [Clients -> Clients \cup {None}]
    <3>1. server' = server \/ server' = [server EXCEPT ![c] = path]
      BY <1>3 DEF dials
    <3>2. path \in Clients \cup {None}
      BY DEF StartTypeOK
    <3>. QED
      BY <3>1, <3>2
  <2>2. InvokeTypes /\ frames' \in [Clients -> Seq(Frame)]
    BY <1>3, <1>a, <1>b, <1>c DEF dials
  <2>. QED
    BY <1>3, <1>d, <2>1, <2>2 DEF dials, masterVars
<1>4. ASSUME NEW c \in Clients, CtxEnds(c) PROVE CallTypes'
  BY <1>4 DEF CtxEnds, masterVars
<1>5. ASSUME NEW c \in Clients, halfCloses(c) PROVE CallTypes'
  BY <1>5 DEF halfCloses, masterVars
<1>6. ASSUME NEW c \in Clients, writesRequest(c) PROVE CallTypes'
  <2>1. InvokeTypes /\ frames' \in [Clients -> Seq(Frame)]
    BY <1>6, <1>a, <1>b, <1>c DEF writesRequest
  <2>2. handled' \in [Clients -> {"none", "asked", "wait", "run", "closed"}]
    BY <1>6 DEF writesRequest
  <2>. QED
    BY <1>6, <1>d, <2>1, <2>2 DEF writesRequest
<1>7. ASSUME NEW c \in Clients, readsFrame(c) PROVE CallTypes'
  <2>1. frames[c] \in Seq(Frame) /\ frames[c] # << >>
    BY <1>7 DEF readsFrame
  <2>2. Head(frames[c]) \in Frame /\ Tail(frames[c]) \in Seq(Frame)
    BY <2>1, FrameSeqFacts
  <2>3. reportOf(Head(frames[c])) \in Reports
    BY <2>2, FrameFacts
  <2>4. InvokeTypes /\ frames' \in [Clients -> Seq(Frame)]
    <3> DEFINE f == Head(frames[c])
    <3>1. CASE frames' = [frames EXCEPT ![c] = Tail(frames[c])] /\ (goesOn(c, "read") \/ goesOn(c, "show"))
      BY <1>a, <2>2, <3>1
    <3>2. CASE tell(c, "failure") \/ tell(c, reportOf(f))
      BY <1>b, <1>c, <2>3, <3>2
    <3>. QED
      BY <1>7, <3>1, <3>2 DEF readsFrame
  <2>. QED
    BY <1>7, <1>d, <2>4 DEF readsFrame, masterVars
<1>8. ASSUME NEW c \in Clients, readsNothing(c) \/ stopsShowing(c) PROVE CallTypes'
  BY <1>8, <1>b, <1>c, <1>d DEF readsNothing, stopsShowing, masterVars
<1>9. ASSUME NEW c \in Clients, shows(c) PROVE CallTypes'
  <2>1. InvokeTypes /\ frames' \in [Clients -> Seq(Frame)]
    BY <1>9, <1>a, <1>b, <1>c DEF shows
  <2>2. shown' \in [Clients -> Nat]
    <3>1. shown[c] + 1 \in Nat
      OBVIOUS
    <3>2. shown' = shown \/ shown' = [shown EXCEPT ![c] = shown[c] + 1]
      BY <1>9 DEF shows
    <3>. QED
      BY <3>1, <3>2
  <2>. QED
    BY <1>9, <1>d, <2>1, <2>2 DEF shows, masterVars
<1>10. ASSUME NEW c \in Clients, NEW f \in Frame, write(c, f)
       PROVE  frames' \in [Clients -> Seq(Frame)]
  <2>1. Append(frames[c], f) \in Seq(Frame)
    BY FrameSeqFacts
  <2>. QED
    BY <1>10, <2>1 DEF write
<1>11. ASSUME NEW c \in Clients, NEW category \in Finals, final(c, category)
       PROVE  /\ frames' \in [Clients -> Seq(Frame)]
              /\ handled' \in [Clients -> {"none", "asked", "wait", "run", "closed"}]
  <2>1. [kind |-> "final", category |-> category] \in Frame
    BY DEF Frame
  <2>. QED
    BY <1>10, <1>11, <2>1 DEF final
<1>12. ASSUME NEW c \in Clients, admits(c) PROVE CallTypes'
  BY <1>11, <1>12 DEF admits, clientVars, Finals
<1>13. ASSUME NEW c \in Clients, begins(c) \/ executes(c) \/ HostEnds(c) PROVE CallTypes'
  BY <1>13 DEF begins, executes, HostEnds, clientVars
<1>14. ASSUME NEW c \in Clients, outputs(c) PROVE CallTypes'
  <2>1. [kind |-> "output"] \in Frame /\ [kind |-> "torn"] \in Frame
    BY DEF Frame
  <2>2. frames' \in [Clients -> Seq(Frame)]
    BY <1>10, <1>14, <2>1 DEF outputs
  <2>3. made' \in [Clients -> 0..MaxOutput]
    BY <1>14, OutputAssumption DEF outputs
  <2>. QED
    BY <1>14, <2>2, <2>3 DEF outputs, clientVars
<1>15. ASSUME NEW c \in Clients, answers(c) PROVE CallTypes'
  BY <1>11, <1>15 DEF answers, clientVars, Finals
<1>16. CASE UNCHANGED vars
  BY <1>16, <1>1 DEF vars
<1>17. ASSUME NEW m \in Clients, serverStops(m) PROVE CallTypes'
  BY <1>1, <1>17 DEF serverStops
<1>. QED
  BY <1>1, <1>2, <1>3, <1>4, <1>5, <1>6, <1>7, <1>8, <1>9, <1>12, <1>13, <1>14, <1>15, <1>16, <1>17
     DEF Next, invoke, serves
-----------------------------------------------------------------------------
(* One client's step. *)

\* Nothing that CallOK looks at changed for d.
Unmoved(d) ==
  /\ call'[d] = call[d] /\ ctx'[d] = ctx[d] /\ report'[d] = report[d] /\ frames'[d] = frames[d]
  /\ handled'[d] = handled[d] /\ remote'[d] = remote[d] /\ made'[d] = made[d] /\ shown'[d] = shown[d]

LEMMA UnmovedKeeps ==
  ASSUME NEW d \in Clients, CallOK(d), Unmoved(d)
  PROVE  CallOK(d)'
BY DEF CallOK, FramesOK, CountOK, Pending, Sent, Truth, Claim, Unmoved

\* A report that is true when it is given keeps the invariant.
LEMMA TellKeeps ==
  ASSUME CallTypes, NEW c \in Clients, CallOK(c), NEW r \in Reports, tell(c, r), Truth(c, r),
         UNCHANGED <<handled, remote, made, shown>>
  PROVE  CallOK(c)'
<1>1. call'[c] = "done" /\ report'[c] = r /\ ctx'[c] = "ended" /\ frames'[c] = << >>
  BY DEF tell, CallTypes
<1>2. Len(<< >>) = 0
  BY EmptySeq
<1>3. FramesOK(c)'
  BY <1>1, <1>2 DEF FramesOK
<1>4. CountOK(c)'
  BY <1>1 DEF CountOK, CallOK
<1>5. Truth(c, r)'
  BY DEF Truth
<1>6. r # "none"
  BY DEF Reports
<1>. QED
  BY <1>1, <1>3, <1>4, <1>5, <1>6 DEF CallOK, Truth

\* The unknown state and, before the master has the request, a failure are true.
LEMMA TellableFacts ==
  ASSUME NEW c \in Clients
  PROVE  /\ Truth(c, "unknown") /\ Truth(c, transportLost)
         /\ CallOK(c) /\ call[c] \in {"start", "request"} => Truth(c, "failure")
BY DEF Truth, transportLost, CallOK

\* A frame that is read is told as it claims.
LEMMA ReadKeeps ==
  ASSUME CallTypes, NEW c \in Clients, CallOK(c), readsFrame(c)
  PROVE  CallOK(c)'
<1> DEFINE s == frames[c]
           f == Head(s)
           t == Tail(s)
<1>1. /\ s \in Seq(Frame) /\ s # << >> /\ call[c] = "read"
      /\ UNCHANGED <<server, shown, handled, remote, made>>
  BY DEF CallTypes, readsFrame, masterVars
<1>2. /\ Len(s) \in Nat /\ Len(s) > 0 /\ f = s[1] /\ f \in Frame /\ Len(t) = Len(s) - 1
      /\ \A i \in 1..Len(t) : t[i] = s[i + 1]
  BY <1>1, FrameSeqFacts
<1>3. /\ ctx[c] \in {"live", "ended"} /\ shown[c] \in Nat /\ made[c] \in Nat
  BY OutputAssumption DEF CallTypes
<1>. HIDE DEF s, f, t
<1>4. ASSUME f.kind = "output", frames' = [frames EXCEPT ![c] = t],
             NEW to \in {"read", "show"}, to = "show" \/ ctx[c] = "ended", goesOn(c, to)
      PROVE  CallOK(c)'
  <2>1. call'[c] = to /\ ctx'[c] = ctx[c] /\ report'[c] = report[c] /\ frames'[c] = t
    BY <1>4 DEF goesOn, CallTypes
  <2>2. FramesOK(c)'
    <3>1. FramesOK(c)
      BY DEF CallOK
    <3>2. ASSUME NEW i \in 1..Len(t), t[i].kind = "final"
          PROVE  i = Len(t) /\ handled[c] = "closed" /\ Claim(c, t[i].category)
      BY <1>2, <3>1, <3>2 DEF FramesOK, s
    <3>3. ASSUME handled[c] = "closed"
          PROVE  Len(t) > 0 /\ t[Len(t)].kind = "final"
      <4>1. s[Len(s)].kind = "final"
        BY <1>1, <3>1, <3>3 DEF FramesOK, s
      <4>2. Len(s) # 1
        BY <1>2, <1>4, <4>1
      <4>. QED
        BY <1>2, <4>1, <4>2
    <3>4. ctx[c] = "live" => \A i \in 1..Len(t) : t[i].kind # "torn"
      BY <1>2, <3>1 DEF FramesOK, s
    <3>. QED
      BY <1>1, <2>1, <3>2, <3>3, <3>4 DEF FramesOK, Claim
  <2>3. CountOK(c)'
    <3>1. Pending(c) = Len(s) /\ Sent(c) \in Nat
      BY <1>1, <1>2, <1>3 DEF Pending, Sent, s
    <3>2. Sent(c)' = Sent(c) /\ shown'[c] = shown[c] /\ made'[c] = made[c]
      BY <1>1 DEF Sent
    <3>3. Pending(c)' = IF to = "show" THEN Len(s) ELSE Len(s) - 1
      BY <1>2, <2>1 DEF Pending
    <3>4. /\ shown[c] <= made[c] /\ shown[c] + Len(s) <= Sent(c)
          /\ ctx[c] = "live" => shown[c] + Len(s) = Sent(c)
      BY <1>1, <3>1 DEF CallOK, CountOK
    <3>. QED
      BY <1>2, <1>3, <1>4, <2>1, <3>1, <3>2, <3>3, <3>4 DEF CountOK
  <2>. QED
    BY <1>1, <2>1, <2>2, <2>3 DEF CallOK, Truth
<1> DEFINE r == IF ctx[c] = "ended" /\ reportOf(f) = "exit-code" THEN "failure" ELSE reportOf(f)
<1>5. ASSUME f.kind = "torn" PROVE Truth(c, r)
  BY <1>5, TellableFacts DEF reportOf, transportLost
<1>6. ASSUME f.kind = "final" PROVE Truth(c, r)
  <2>1. 1 \in 1..Len(s) /\ s[1].kind = "final"
    BY <1>2, <1>6
  <2>2. Len(s) = 1 /\ handled[c] = "closed" /\ Claim(c, f.category)
    BY <1>2, <2>1 DEF CallOK, FramesOK, s
  <2>3. f.category \in Finals
    BY <1>2, <1>6, FrameFacts
  <2>4. ctx[c] = "live" => shown[c] = made[c]
    <3>1. Pending(c) = 1 /\ Sent(c) = made[c] + 1
      BY <1>1, <2>2 DEF Pending, Sent, s
    <3>. QED
      BY <1>1, <1>3, <3>1 DEF CallOK, CountOK
  <2>5. CASE f.category = "ok"
    BY <1>3, <1>6, <2>2, <2>4, <2>5 DEF Truth, Claim, reportOf
  <2>6. CASE f.category # "ok"
    BY <1>6, <2>2, <2>3, <2>6 DEF Truth, Claim, reportOf, Finals
  <2>. QED
    BY <2>5, <2>6
<1>7. r \in Reports
  BY <1>2, FrameFacts DEF Reports
<1>8. \/ f.kind = "output" /\ frames' = [frames EXCEPT ![c] = t]
         /\ goesOn(c, IF ctx[c] = "ended" THEN "read" ELSE "show")
      \/ f.kind # "output" /\ tell(c, r)
  BY DEF readsFrame, s, f, t
<1>9. CASE f.kind = "output"
  BY <1>3, <1>4, <1>8, <1>9
<1>10. CASE f.kind # "output"
  <2>1. tell(c, r)
    BY <1>8, <1>10
  <2>2. Truth(c, r)
    BY <1>2, <1>5, <1>6, <1>10, FrameFacts
  <2>. HIDE DEF r
  <2>. QED
    BY <1>1, <1>7, <2>1, <2>2, TellKeeps
<1>. QED
  BY <1>9, <1>10
\* The other steps of a client.
LEMMA ClientKeeps ==
  ASSUME CallTypes, NEW c \in Clients, CallOK(c),
         \/ startFails(c) \/ dials(c) \/ CtxEnds(c) \/ halfCloses(c) \/ writesRequest(c)
         \/ readsNothing(c) \/ shows(c) \/ stopsShowing(c)
  PROVE  CallOK(c)'
<1>1. ASSUME NEW r \in {"failure", "unknown", transportLost}, tell(c, r),
             UNCHANGED <<handled, remote, made, shown>>,
             r = "failure" => call[c] \in {"start", "request"}
      PROVE  CallOK(c)'
  <2>1. r \in Reports /\ Truth(c, r)
    BY <1>1, TellableFacts DEF Reports, transportLost
  <2>. QED
    BY <1>1, <2>1, TellKeeps
\* The context ends, or the place of Invoke changes where nothing is counted.
<1>2. ASSUME ctx'[c] \in {ctx[c], "ended"}, UNCHANGED <<call, report, frames, handled, remote, made, shown>>
      PROVE  CallOK(c)'
  BY <1>2 DEF CallOK, FramesOK, CountOK, Pending, Sent, Truth, Claim, CallTypes
<1>3. ASSUME call[c] = "start", goesOn(c, "request"), UNCHANGED <<frames, handled, remote, made, shown>>
      PROVE  CallOK(c)'
  BY <1>3 DEF goesOn, CallOK, FramesOK, CountOK, Pending, Sent, Truth, Claim, CallTypes
<1>4. CASE startFails(c)
  BY <1>1, <1>4 DEF startFails, masterVars
<1>5. CASE dials(c)
  BY <1>1, <1>3, <1>5 DEF dials, masterVars
<1>6. CASE CtxEnds(c)
  BY <1>2, <1>6 DEF CtxEnds, masterVars, CallTypes
<1>7. CASE halfCloses(c)
  BY <1>2, <1>7 DEF halfCloses, masterVars
<1>8. CASE writesRequest(c)
  <2>1. ASSUME goesOn(c, "read"), handled' = [handled EXCEPT ![c] = "asked"], frames' = frames
        PROVE  CallOK(c)'
    <3>1. /\ call[c] = "request" /\ handled[c] = "none" /\ remote[c] = "never"
          /\ UNCHANGED <<remote, made, shown>>
      BY <1>8 DEF writesRequest, CallOK
    <3>2. call'[c] = "read" /\ handled'[c] = "asked" /\ ctx' = ctx /\ report' = report
      BY <2>1 DEF goesOn, CallTypes
    <3>3. report[c] = "none"
      BY <3>1 DEF CallOK
    <3>4. FramesOK(c)'
      BY <2>1, <3>1, <3>2 DEF CallOK, FramesOK
    <3>5. CountOK(c)'
      BY <2>1, <3>1, <3>2 DEF CallOK, CountOK, Pending, Sent
    <3>. QED
      BY <3>1, <3>2, <3>3, <3>4, <3>5 DEF CallOK, Truth
  <2>2. CASE tell(c, transportLost) /\ handled' = handled
    BY <1>1, <1>8, <2>2 DEF writesRequest, transportLost
  <2>. QED
    BY <1>8, <2>1, <2>2 DEF writesRequest
<1>9. CASE readsNothing(c) \/ stopsShowing(c)
  BY <1>1, <1>9 DEF readsNothing, stopsShowing, masterVars, transportLost
<1>10. CASE shows(c)
  <2>1. ASSUME goesOn(c, "read"), shown' = [shown EXCEPT ![c] = @ + 1], frames' = frames
        PROVE  CallOK(c)'
    <3>1. call[c] = "show" /\ UNCHANGED <<handled, remote, made>>
      BY <1>10 DEF shows, masterVars
    <3>2. call'[c] = "read" /\ shown'[c] = shown[c] + 1 /\ ctx' = ctx /\ report' = report
      BY <2>1 DEF goesOn, CallTypes
    <3>3. frames[c] \in Seq(Frame) /\ shown[c] \in Nat /\ made[c] \in Nat
      BY OutputAssumption DEF CallTypes
    <3>4. Len(frames[c]) \in Nat
      BY <3>3, FrameSeqFacts
    <3>5. FramesOK(c)'
      BY <2>1, <3>1, <3>2 DEF CallOK, FramesOK, Claim
    <3>6. CountOK(c)'
      <4>1. Pending(c) = Len(frames[c]) + 1 /\ Pending(c)' = Len(frames[c]) /\ Sent(c)' = Sent(c)
        BY <2>1, <3>1, <3>2 DEF Pending, Sent
      <4>2. Sent(c) = made[c] + (IF handled[c] = "closed" THEN 1 ELSE 0)
        BY DEF Sent
      <4>3. handled[c] = "closed" => Len(frames[c]) > 0
        BY <3>1 DEF CallOK, FramesOK
      <4>. QED
        <5>1. /\ shown[c] <= made[c] /\ shown[c] + Pending(c) <= Sent(c)
              /\ ctx[c] = "live" => shown[c] + Pending(c) = Sent(c)
          BY <3>1 DEF CallOK, CountOK
        <5>2. shown[c] + 1 <= made[c]
          BY <3>3, <3>4, <4>1, <4>2, <4>3, <5>1
        <5>3. shown[c] + 1 + Len(frames[c]) = shown[c] + Pending(c)
          BY <3>3, <3>4, <4>1
        <5>. QED
          BY <3>1, <3>2, <3>3, <3>4, <4>1, <4>2, <5>1, <5>2, <5>3 DEF CountOK
    <3>7. report[c] = "none"
      BY <3>1 DEF CallOK
    <3>. QED
      BY <3>1, <3>2, <3>5, <3>6, <3>7 DEF CallOK, Truth
  <2>2. CASE tell(c, "unknown") /\ shown' = shown
    BY <1>1, <1>10, <2>2 DEF shows, masterVars
  <2>. QED
    BY <1>10, <2>1, <2>2 DEF shows
<1>. QED
  BY <1>4, <1>5, <1>6, <1>7, <1>8, <1>9, <1>10

\* The master writes one frame more, unless the connection is closed, and keeps to what
\* the last frame claims.
LEMMA FinalKeeps ==
  ASSUME CallTypes, NEW c \in Clients, CallOK(c), NEW category \in Finals, Claim(c, category),
         handled[c] \in {"asked", "wait", "run"}, final(c, category),
         UNCHANGED <<call, ctx, report, remote, made, shown>>
  PROVE  CallOK(c)'
<1> DEFINE s == frames[c]
           f == [kind |-> "final", category |-> category]
<1>1. /\ s \in Seq(Frame) /\ f \in Frame /\ shown[c] \in Nat /\ made[c] \in Nat
      /\ ctx[c] \in {"live", "ended"}
  BY OutputAssumption DEF CallTypes, Frame
<1>2. handled'[c] = "closed" /\ frames'[c] = IF call[c] = "done" THEN s ELSE Append(s, f)
  BY DEF final, write, CallTypes
<1>3. f.kind = "final" /\ f.category = category
  OBVIOUS
<1>. HIDE DEF f
<1>4. /\ Len(s) \in Nat /\ Len(Append(s, f)) = Len(s) + 1
      /\ \A i \in 1..Len(s) : Append(s, f)[i] = s[i]
      /\ Append(s, f)[Len(s) + 1] = f
  BY <1>1, FrameSeqFacts
<1>5. \A i \in 1..Len(s) : s[i].kind # "final"
  BY DEF CallOK, FramesOK
<1>6. ctx[c] = "live" => \A i \in 1..Len(s) : s[i].kind # "torn"
  BY DEF CallOK, FramesOK
<1>. HIDE DEF s
<1>7. CASE call[c] = "done"
  <2>1. s = << >> /\ Len(<< >>) = 0
    BY <1>7, EmptySeq DEF CallOK, FramesOK, s
  <2>2. FramesOK(c)'
    BY <1>2, <1>7, <2>1 DEF FramesOK
  <2>3. CountOK(c)'
    BY <1>7 DEF CallOK, CountOK
  <2>. QED
    BY <1>2, <1>7, <2>2, <2>3 DEF CallOK, Truth
<1>8. CASE call[c] # "done"
  <2> DEFINE t == Append(s, f)
  <2>1. Len(t) = Len(s) + 1 /\ frames'[c] = t /\ t[Len(t)] = f
    BY <1>2, <1>4, <1>8
  <2>2. \A i \in 1..Len(t) : t[i].kind = "final" => i = Len(t)
    BY <1>4, <1>5, <2>1
  <2>3. ctx[c] = "live" => \A i \in 1..Len(t) : t[i].kind # "torn"
    BY <1>3, <1>4, <1>6, <2>1
  <2>. HIDE DEF t
  <2>4. FramesOK(c)'
    BY <1>2, <1>3, <1>4, <1>8, <2>1, <2>2, <2>3 DEF FramesOK, Claim
  <2>5. CountOK(c)'
    <3>1. Sent(c) = made[c] /\ Sent(c)' = made[c] + 1
      BY <1>1, <1>2 DEF Sent
    <3> DEFINE n == Len(frames[c])
               p == IF call[c] = "show" THEN 1 ELSE 0
    <3>2. n = Len(s) /\ Len(frames'[c]) = Len(s) + 1 /\ call' = call
      BY <2>1 DEF s
    <3>3. Pending(c) = n + p /\ Pending(c)' = n + 1 + p /\ n \in Nat /\ p \in {0, 1}
      <4>1. n \in Nat
        BY <1>4, <3>2
      <4>. QED
        BY <1>4, <3>2, <4>1 DEF Pending
    <3>. HIDE DEF n, p
    <3>4. /\ shown[c] <= made[c] /\ shown[c] + (n + p) <= made[c]
          /\ ctx[c] = "live" => shown[c] + (n + p) = made[c]
      BY <1>8, <3>1, <3>3 DEF CallOK, CountOK
    <3>5. shown' = shown /\ made' = made /\ ctx' = ctx
      OBVIOUS
    <3>. QED
      BY <1>1, <3>1, <3>3, <3>4, <3>5 DEF CountOK
  <2>6. report[c] = "none"
    BY <1>8 DEF CallOK
  <2>. QED
    BY <1>2, <1>8, <2>4, <2>5, <2>6 DEF CallOK, Truth
<1>. QED
  BY <1>7, <1>8
\* A frame of output, whole or cut.
LEMMA OutputKeeps ==
  ASSUME CallTypes, NEW c \in Clients, CallOK(c), outputs(c)
  PROVE  CallOK(c)'
<1> DEFINE s == frames[c]
<1>1. /\ s \in Seq(Frame) /\ shown[c] \in Nat /\ made[c] \in Nat /\ ctx[c] \in {"live", "ended"}
  BY OutputAssumption DEF CallTypes
<1>2. /\ handled[c] = "run" /\ remote[c] = "sent" /\ made'[c] = made[c] + 1
      /\ UNCHANGED <<call, ctx, report, shown, handled, remote>>
  BY <1>1 DEF outputs, clientVars, CallTypes
<1>3. PICK f \in {[kind |-> "output"], [kind |-> "torn"]} :
        write(c, f) /\ (f.kind = "torn" => ctx[c] = "ended")
  BY DEF outputs
<1>4. f \in Frame /\ f.kind # "final"
  BY <1>3 DEF Frame
<1>5. frames'[c] = IF call[c] = "done" THEN s ELSE Append(s, f)
  BY <1>3 DEF write, CallTypes
<1>6. /\ Len(s) \in Nat /\ Len(Append(s, f)) = Len(s) + 1
      /\ \A i \in 1..Len(s) : Append(s, f)[i] = s[i]
      /\ Append(s, f)[Len(s) + 1] = f
  BY <1>1, <1>4, FrameSeqFacts
<1>7. /\ \A i \in 1..Len(s) : s[i].kind # "final"
      /\ ctx[c] = "live" => \A i \in 1..Len(s) : s[i].kind # "torn"
      /\ call[c] = "done" => s = << >>
  BY <1>2 DEF CallOK, FramesOK
<1>8. report[c] # "exit-code" /\ report[c] # "not-started" /\ report[c] # "failure"
  BY <1>2 DEF CallOK, Truth
<1>9. (report[c] = "none" <=> call[c] # "done") /\ (report[c] = "none" <=> call[c] # "done")'
  BY <1>2 DEF CallOK
<1>10. Sent(c) = made[c] /\ Sent(c)' = made[c] + 1 /\ shown[c] <= made[c]
  BY <1>1, <1>2 DEF Sent, CallOK, CountOK
<1>11. call[c] \notin {"start", "request"}
  BY <1>2 DEF CallOK
<1>12. CASE call[c] = "done"
  <2>1. FramesOK(c)'
    <3>1. frames'[c] = << >> /\ Len(<< >>) = 0
      BY <1>5, <1>7, <1>12, EmptySeq
    <3>. QED
      BY <1>2, <1>12, <3>1 DEF FramesOK
  <2>2. CountOK(c)'
    BY <1>1, <1>2, <1>10, <1>12 DEF CountOK
  <2>. QED
    BY <1>2, <1>8, <1>9, <1>11, <2>1, <2>2 DEF CallOK, Truth
<1>13. CASE call[c] # "done"
  <2> DEFINE t == Append(s, f)
  <2>1. Len(t) = Len(s) + 1 /\ frames'[c] = t
    BY <1>5, <1>6, <1>13
  <2>2. \A i \in 1..Len(t) : t[i].kind # "final"
    BY <1>4, <1>6, <1>7, <2>1
  <2>3. ctx[c] = "live" => \A i \in 1..Len(t) : t[i].kind # "torn"
    BY <1>3, <1>6, <1>7, <2>1
  <2>. HIDE DEF t
  <2>4. FramesOK(c)'
    BY <1>2, <1>13, <2>1, <2>2, <2>3 DEF FramesOK
  <2>5. CountOK(c)'
    <3> DEFINE n == Len(frames[c])
               p == IF call[c] = "show" THEN 1 ELSE 0
    <3>1. Pending(c) = n + p /\ Pending(c)' = n + 1 + p
      BY <1>2, <1>6, <2>1 DEF Pending
    <3>2. n \in Nat /\ p \in {0, 1}
      BY <1>6
    <3>. HIDE DEF n, p
    <3>3. shown[c] + (n + p) <= made[c] /\ (ctx[c] = "live" => shown[c] + (n + p) = made[c])
      BY <1>10, <1>13, <3>1 DEF CallOK, CountOK
    <3>. QED
      BY <1>1, <1>2, <1>10, <3>1, <3>2, <3>3 DEF CountOK
  <2>. QED
    BY <1>2, <1>8, <1>9, <1>11, <2>4, <2>5 DEF CallOK, Truth
<1>. QED
  BY <1>12, <1>13

\* The other steps of the master and the host.
LEMMA ServerKeeps ==
  ASSUME CallTypes, NEW c \in Clients, CallOK(c),
         admits(c) \/ begins(c) \/ executes(c) \/ answers(c) \/ HostEnds(c)
  PROVE  CallOK(c)'
\* While the request waits nothing was sent; while it runs no report denies that.
<1>1. ASSUME handled'[c] \in {"wait", "run"}, handled[c] \in {"asked", "wait"},
             UNCHANGED <<call, ctx, report, frames, remote, made, shown>>
      PROVE  CallOK(c)'
  BY <1>1 DEF CallOK, FramesOK, CountOK, Pending, Sent, Truth
<1>2. ASSUME NEW category \in Finals, final(c, category), Claim(c, category),
             handled[c] \in {"asked", "wait", "run"},
             UNCHANGED <<call, ctx, report, remote, made, shown>>
      PROVE  CallOK(c)'
  BY <1>2, FinalKeeps
<1>3. CASE admits(c)
  <2>1. UNCHANGED <<call, ctx, report, remote, made, shown>>
    BY <1>3 DEF admits, clientVars
  <2>2. handled[c] \in {"asked", "wait"} => remote[c] = "never"
    BY DEF CallOK
  <2>3. CASE \E category \in {"not-started", "unavailable", "canceled"} :
               handled[c] \in {"asked", "wait"} /\ final(c, category)
    BY <1>2, <2>1, <2>2, <2>3 DEF Finals, Claim
  <2>4. CASE handled[c] = "asked" /\ handled' = [handled EXCEPT ![c] = "wait"] /\ frames' = frames
    BY <1>1, <2>1, <2>4 DEF CallTypes
  <2>. QED
    BY <1>3, <2>3, <2>4 DEF admits
<1>4. CASE begins(c)
  BY <1>1, <1>4 DEF begins, clientVars, CallTypes
<1>5. CASE executes(c) \/ HostEnds(c)
  <2>1. /\ handled[c] = "run" \/ remote[c] = "sent"
        /\ remote'[c] \in {"sent", "ended"}
        /\ remote[c] = "never" => handled[c] = "run"
        /\ remote[c] \in {"never", "sent"}
        /\ handled' = handled /\ call' = call /\ ctx' = ctx /\ report' = report
        /\ frames' = frames /\ made' = made /\ shown' = shown
    BY <1>5 DEF executes, HostEnds, clientVars, CallTypes
  <2>2. FramesOK(c)'
    BY <2>1 DEF CallOK, FramesOK, Claim
  <2>3. CountOK(c)'
    BY <2>1 DEF CallOK, CountOK, Pending, Sent
  <2>4. report[c] \notin {"exit-code", "not-started", "failure"}
    BY <2>1 DEF CallOK, Truth
  <2>5. handled[c] \notin {"none", "asked", "wait"}
    BY <2>1 DEF CallOK
  <2>. QED
    BY <2>1, <2>2, <2>3, <2>4, <2>5 DEF CallOK, Truth
<1>6. CASE answers(c)
  <2>1. UNCHANGED <<call, ctx, report, remote, made, shown>> /\ handled[c] = "run"
    BY <1>6 DEF answers, clientVars
  <2>2. \E category \in Finals : final(c, category) /\ Claim(c, category)
    BY <1>6 DEF answers, Finals, Claim
  <2>. QED
    BY <1>2, <2>1, <2>2
<1>. QED
  BY <1>3, <1>4, <1>5, <1>6

-----------------------------------------------------------------------------
(* The theorems. *)

LEMMA ClientInvInit == Init => ClientInv
<1> SUFFICES ASSUME Init PROVE ClientInv
  OBVIOUS
<1>1. CallTypes
  BY CallTypesInit
<1>2. Len(<< >>) = 0
  BY EmptySeq
<1>3. ASSUME NEW c \in Clients PROVE CallOK(c)
  BY <1>2 DEF Init, CallOK, FramesOK, CountOK, Pending, Sent, Truth
<1>. QED
  BY <1>1, <1>3 DEF ClientInv

LEMMA ClientInvStep == StartTypeOK /\ ClientInv /\ [Next]_vars => ClientInv'
<1> SUFFICES ASSUME StartTypeOK, ClientInv, [Next]_vars, NEW d \in Clients
             PROVE  CallOK(d)'
  BY CallTypesNext DEF ClientInv
<1>. CallTypes /\ CallOK(d)
  BY DEF ClientInv
<1>1. ASSUME NEW c \in Clients, invoke(c) \/ shows(c) \/ CtxEnds(c)
      PROVE  CallOK(d)'
  <2>1. CASE c = d
    BY <1>1, <2>1, ClientKeeps, ReadKeeps DEF invoke
  <2>2. CASE c # d
    <3>1. Unmoved(d)
      BY <1>1, <2>2 DEF Unmoved, CallTypes, invoke, startFails, dials, writesRequest, readsFrame,
         readsNothing, stopsShowing, halfCloses, shows, CtxEnds, goesOn, tell, masterVars
    <3>. QED
      BY <3>1, UnmovedKeeps
  <2>. QED
    BY <2>1, <2>2
<1>2. ASSUME NEW c \in Clients, serves(c) \/ HostEnds(c)
      PROVE  CallOK(d)'
  <2>1. CASE c = d
    BY <1>2, <2>1, ServerKeeps, OutputKeeps DEF serves
  <2>2. CASE c # d
    <3>1. Unmoved(d)
      BY <1>2, <2>2 DEF Unmoved, CallTypes, serves, admits, begins, executes, outputs, answers,
         HostEnds, final, write, clientVars
    <3>. QED
      BY <3>1, UnmovedKeeps
  <2>. QED
    BY <2>1, <2>2
<1>3. CASE UNCHANGED <<clientVars, masterVars, frames>>
  <2>1. Unmoved(d)
    BY <1>3 DEF Unmoved, clientVars, masterVars
  <2>. QED
    BY <2>1, UnmovedKeeps
<1>4. CASE UNCHANGED vars
  BY <1>3, <1>4 DEF vars
<1>5. ASSUME NEW m \in Clients, serverStops(m) PROVE CallOK(d)'
  BY <1>3, <1>5 DEF serverStops
<1>. QED
  BY <1>1, <1>2, <1>3, <1>4, <1>5 DEF Next

\* The frames on their way, the answer of the master and the report of a client agree in
\* every reachable state.
THEOREM ClientInductive == Spec => [](StartTypeOK /\ ClientInv)
<1>1. Spec => []StartTypeOK
  BY StartIsShared, StartTypeCorrect, PTL
<1>. QED
  BY <1>1, ClientInvInit, ClientInvStep, PTL DEF Spec

\* Every variable of a command in control mode keeps its type, and no more output is
\* shown than was made.
THEOREM ClientTypeCorrect == Spec => []ClientTypeOK
<1>1. StartTypeOK /\ ClientInv => ClientTypeOK
  BY OutputAssumption DEF ClientInv, CallTypes, CallOK, CountOK, ClientTypeOK
<1>. QED
  BY <1>1, ClientInductive, PTL

\* Users are told the truth: whichever client, master or connection fails, and however
\* many clients share a master, no report is ever contradicted by the host.
THEOREM ClientsHonest == Spec => []ClientHonest
<1>1. ClientInv => ClientHonest
  BY DEF ClientInv, CallTypes, CallOK, Truth, ClientHonest, Reports
<1>. QED
  BY <1>1, ClientInductive, PTL
================================================================================
