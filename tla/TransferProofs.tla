---------------------------- MODULE TransferProofs ----------------------------
(***************************************************************************)
(* What Transfer guarantees for a source of any size, every set of faults  *)
(* and both directions: its type invariant, what a transfer tells the user *)
(* of the destination and of what it left on the host, and the inductive   *)
(* invariant that these follow from.                                       *)
(***************************************************************************)
EXTENDS Transfer, TLAPS

\* Request o of session r.
On(r, o) == [role |-> r, op |-> o]

\* The sessions that were not started yet, or never will be.
Foreign == IF direction = "upload" THEN {"temp", "sender", "fetch"} ELSE {"receiver", "finalizer"}
Untouched ==
  Foreign \cup (IF role = "cleaner" THEN {} ELSE {"cleaner"})
          \cup (IF role = "receiver" THEN {"finalizer"} ELSE {})
          \cup (IF role = "temp" THEN {"sender", "fetch"} ELSE {})
          \cup (IF role = "sender" /\ ~senderDone THEN {"fetch"} ELSE {})

\* Of an unstarted session the host knows a Shell at most; of a fresh one nothing.
Unstarted(r) ==
  /\ proc[r] = "none" /\ recv[r] = "none" /\ r \notin closed
  /\ \A m \in net : m.role = r => m.op = "Create"
Fresh(r) == Unstarted(r) /\ shell[r] = "none" /\ \A m \in net : m.role # r

\* The sessions follow each other, and each begins with a Shell of its own.
RoleInv ==
  /\ direction \in {"upload", "download"}
  /\ role \in IF direction = "upload" THEN {"receiver", "finalizer", "cleaner"}
                                      ELSE {"temp", "sender", "fetch", "cleaner"}
  /\ x # "idle" => step \in DOMAIN Request
  /\ \A r \in Untouched : Fresh(r)
  /\ step = "create" => Unstarted(role) /\ (x \in {"idle", "unsent"} => Fresh(role))
  /\ step = "command" /\ x = "idle" => Unstarted(role)
  /\ step \in {"create", "command", "abandon"} => recv[role] = "none"
  /\ step \in {"read", "send", "await"} => role = "receiver"
  /\ step = "send" => sent < Chunks
  /\ step = "receive" => recv[role] # "none"
  /\ step = "stop" => role = "sender"

\* What was answered is not on the network any more, and holds of the host.
NetInv ==
  /\ x = "ok" => On(role, Request[step]) \notin net
  /\ x = "ok" /\ step \in {"abandon", "delete", "stop"} => shell[role] = "gone"
  /\ \A r \in Roles :
       /\ On(r, "Create") \in net =>
            /\ shell[r] = "none"
            /\ r \in told \/ (r = role /\ step = "create" /\ x \in {"wire", "error"})
       /\ On(r, "Command") \in net =>
            /\ proc[r] = "none" /\ recv[r] = "none"
            /\ r = role => step \in {"command", "abandon", "done"}
       /\ shell[r] = "gone" => proc[r] \notin Alive
       /\ recv[r] \in {"ok", "failed"} => proc[r] = recv[r]

\* Something has failed, so that a request may have been given up.
Tainted ==
  err # "none" \/ x = "error" \/ step = "abandon" \/ body = "error" \/ copy = "failed"

NetClean == ~Tainted => net \subseteq IF x = "wire" THEN {On(role, Request[step])} ELSE {}

\* A session's result is what its receiveLoop returned.
BodyInv ==
  /\ role = "receiver" \/ step \in {"create", "command", "eof", "receive"} => body = "none"
  /\ role \in Short /\ step = "delete" =>
       body \in {"ok", "failed", "error"} /\ (body # "error" => recv[role] = body)
  /\ role \in {"receiver", "sender"} /\ step \notin {"create", "command", "abandon", "done"} =>
       recv[role] # "none"

\* A Shell that may be left, of a session that is over, is told.
InUse == IF step = "done" THEN {} ELSE {role} \cup (IF role = "fetch" THEN {"sender"} ELSE {})
ShellInv ==
  /\ told # {} => err # "none"
  /\ \A r \in Roles \ InUse :
       shell[r] = "open" \/ On(r, "Create") \in net =>
         r \in told \/ (direction = "download" /\ err # "none")

\* The early close of the sender is that of a transfer that fails.
ClosedInv ==
  /\ role \in closed => step \in {"delete", "done"} \/ role = "sender"
  /\ role \in closed /\ step = "delete" /\ x = "idle" => role = "sender" /\ err # "none"
  /\ role = "sender" /\ "sender" \in closed =>
       /\ step \in {"stop", "copy", "drain", "delete", "done"}
       /\ step \in {"copy", "drain"} => body = "error" \/ copy = "failed"
  /\ step = "stop" => body = "error" \/ copy = "failed"
  /\ role = "fetch" => "sender" \notin closed

\* The upload: what its phases have established.
UploadInv ==
  direction = "upload" =>
    /\ copy = "none" /\ ~senderDone
    /\ mixed => changed
    /\ role = "receiver" /\ step = "delete" /\ err = "none" => recv["receiver"] = "ok" /\ ~mixed
    /\ role = "finalizer" \/ On("finalizer", "Command") \in net \/ proc["finalizer"] # "none" =>
         recv["receiver"] = "ok" /\ ~mixed
    /\ role # "cleaner" /\ step # "done" => ~committed
    /\ role = "cleaner" => err \notin {"none", "unknown"} /\ ~committed
    /\ role = "cleaner" /\ step # "done" => artifact
    /\ err = "unknown" => step = "done"
    /\ role = "finalizer" /\ step # "done" => err = "none"
    /\ proc["finalizer"] \notin {"moved", "ok", "killed"} => dest # "new"
    /\ proc["finalizer"] \in {"moved", "ok"} => dest = "new" /\ file = "none"
    /\ (role = "cleaner" \/ step = "done") /\ err # "unknown" /\ ~committed =>
         proc["finalizer"] \in {"none", "failed"} /\ On("finalizer", "Command") \notin net

\* The download: what its phases have established.
DownloadInv ==
  direction = "download" =>
    /\ ~mixed /\ err # "unknown"
    /\ committed \/ dest # "new"
    /\ role = "temp" \/ (role = "sender" /\ step \in {"create", "command", "abandon"}) =>
         copy = "none"
    /\ senderDone => copy = "ok" /\ recv["sender"] = "ok"
    /\ role = "temp" \/ (role = "sender" /\ step \notin {"delete", "done"}) => ~senderDone
    /\ role \in {"fetch", "cleaner"} => senderDone
    /\ step = "done" => senderDone \/ err # "none"
    /\ role = "sender" /\ step = "delete" /\ err = "none" => senderDone /\ body # "error"
    /\ role = "cleaner" /\ step # "done" => ~artifact

\* The file on the host, and the destination.
FileInv ==
  /\ dest # "bad"
  /\ committed => dest = "new"
  /\ role = "cleaner" => proc[Holder] \notin Alive /\ recv[Holder] # "none"
  /\ proc["cleaner"] = "ok" => file = "none"
  /\ step = "done" /\ recv[Holder] # "none" /\ ~artifact =>
       file = "none" /\ proc[Holder] \notin Alive
  /\ step = "done" /\ err = "none" =>
       ~artifact /\ recv[Holder] # "none" /\ body # "error" /\ copy # "failed"

IndInv == /\ TransferTypeOK /\ RoleInv /\ NetInv /\ NetClean /\ BodyInv /\ ShellInv /\ ClosedInv
          /\ UploadInv /\ DownloadInv /\ FileInv

-----------------------------------------------------------------------------
(* The exchanges of the main goroutine and receiveLoop. *)

\* Each step of a session keeps the invariant.
LEMMA PostsStep == ASSUME IndInv, Posts PROVE IndInv'
<1>. USE DEF IndInv, Posts, Ended, Breakable, callVars, hostVars, dataVars, fileVars, resultVars,
             Budgeted
<1>1. /\ TransferTypeOK' /\ RoleInv' /\ NetClean' /\ BodyInv' /\ ShellInv'
      /\ UploadInv' /\ DownloadInv' /\ FileInv'
  BY DEF TransferTypeOK, Bad, Request, RoleInv, Untouched, Foreign, Unstarted,
     Fresh, NetClean, Tainted, On, BodyInv, ShellInv, InUse, UploadInv, DownloadInv, FileInv, Holder
<1>2. NetInv'
  BY DEF NetInv, On, Request, RoleInv, Unstarted, Fresh
<1>3. ClosedInv'
  BY DEF ClosedInv, RoleInv
<1>. HIDE DEF Posts
<1>. QED
  BY <1>1, <1>2, <1>3 DEF IndInv

LEMMA GivesUpStep == ASSUME IndInv, GivesUp PROVE IndInv'
BY DEF IndInv, GivesUp, Breakable, callVars, hostVars, recvVars, dataVars,
   fileVars, resultVars, Ended, Budgeted, TransferTypeOK, Bad, RoleInv, Untouched, Foreign,
   Unstarted, Fresh, NetInv, NetClean, Tainted, BodyInv, ShellInv, InUse, ClosedInv, UploadInv,
   DownloadInv, FileInv, Holder

LEMMA CreatedStep == ASSUME IndInv, Created PROVE IndInv'
BY DEF IndInv, Created, goto, callVars, hostVars, recvVars, dataVars, fileVars,
   resultVars, TransferTypeOK, Request, RoleInv, Untouched, Foreign, Unstarted, Fresh, NetInv,
   NetClean, Tainted, BodyInv, ShellInv, InUse, ClosedInv, UploadInv, DownloadInv, FileInv, Holder

LEMMA CommandedStep == ASSUME IndInv, Commanded PROVE IndInv'
<1>. USE DEF IndInv, Commanded, goto, callVars, hostVars, dataVars, fileVars, resultVars, Short
<1>1. TransferTypeOK' /\ RoleInv' /\ NetInv' /\ ShellInv' /\ ClosedInv' /\ DownloadInv' /\ FileInv'
  BY DEF TransferTypeOK, Request, RoleInv, Untouched, Foreign, Unstarted, Fresh,
     NetInv, ShellInv, InUse, ClosedInv, DownloadInv, FileInv, Holder
<1>2. NetClean'
  BY DEF NetClean, Tainted, RoleInv, DownloadInv
<1>3. BodyInv'
  BY DEF BodyInv, TransferTypeOK
<1>4. UploadInv'
  BY DEF UploadInv, RoleInv
<1>. HIDE DEF Commanded
<1>. QED
  BY <1>1, <1>2, <1>3, <1>4 DEF IndInv

LEMMA CommandFailsStep == ASSUME IndInv, CommandFails PROVE IndInv'
BY DEF IndInv, CommandFails, goto, callVars, hostVars, recvVars, dataVars,
   fileVars, resultVars, Bad, TransferTypeOK, Request, RoleInv, Untouched, Foreign, Unstarted,
   Fresh, NetInv, NetClean, Tainted, BodyInv, ShellInv, InUse, ClosedInv, UploadInv, DownloadInv,
   FileInv, Holder

LEMMA ExchangedStep == ASSUME IndInv, Exchanged PROVE IndInv'
<1>. USE DEF IndInv, Exchanged, goto, callVars, hostVars, dataVars, fileVars, resultVars, Bad, Short
<1>1. TransferTypeOK' /\ NetClean' /\ BodyInv' /\ ShellInv' /\ ClosedInv'
  BY DEF TransferTypeOK, Request, NetClean, Tainted, BodyInv, ShellInv, InUse,
     ClosedInv
<1>2. RoleInv'
  BY DEF RoleInv, Untouched, Foreign, Unstarted, Fresh, TransferTypeOK, Roles
<1>3. NetInv'
  BY DEF NetInv, TransferTypeOK
<1>4. UploadInv'
  BY DEF UploadInv, TransferTypeOK, Roles
<1>5. DownloadInv'
  BY DEF DownloadInv, TransferTypeOK, Roles
<1>6. FileInv'
  BY DEF FileInv, Holder, TransferTypeOK, Roles
<1>. HIDE DEF Exchanged
<1>. QED
  BY <1>1, <1>2, <1>3, <1>4, <1>5, <1>6 DEF IndInv

LEMMA ReceivedStep == ASSUME IndInv, Received PROVE IndInv'
<1>. USE DEF IndInv, Received, goto, callVars, hostVars, recvVars, dataVars, fileVars, resultVars,
             Short
<1>1. /\ TransferTypeOK' /\ RoleInv' /\ NetInv' /\ ShellInv' /\ ClosedInv'
      /\ UploadInv' /\ DownloadInv' /\ FileInv'
  BY DEF TransferTypeOK, Request, RoleInv, Untouched, Foreign, Unstarted, Fresh,
     NetInv, ShellInv, InUse, ClosedInv, UploadInv, DownloadInv, FileInv, Holder
<1>2. NetClean'
  BY DEF NetClean, Tainted, Request, RoleInv, BodyInv
<1>3. BodyInv'
  BY DEF BodyInv, TransferTypeOK, RoleInv
<1>. HIDE DEF Received
<1>. QED
  BY <1>1, <1>2, <1>3 DEF IndInv

LEMMA LoopReturnsStep == ASSUME IndInv, LoopReturns PROVE IndInv'
BY DEF IndInv, LoopReturns, loopEnds, LoopLeaves, callVars, mainVars, hostVars,
   dataVars, fileVars, resultVars, TransferTypeOK, RoleInv, Untouched, Foreign, Unstarted, Fresh,
   NetInv, NetClean, Tainted, BodyInv, ShellInv, InUse, ClosedInv, UploadInv, DownloadInv, FileInv,
   Holder

LEMMA LoopStopsStep == ASSUME IndInv, LoopStops PROVE IndInv'
BY DEF IndInv, LoopStops, loopEnds, LoopLeaves, callVars, mainVars, hostVars,
   dataVars, fileVars, resultVars, TransferTypeOK, RoleInv, Untouched, Foreign, Unstarted, Fresh,
   NetInv, NetClean, Tainted, BodyInv, ShellInv, InUse, ClosedInv, UploadInv, DownloadInv, FileInv,
   Holder

LEMMA LoopFailsStep == ASSUME IndInv, LoopFails PROVE IndInv'
BY DEF IndInv, LoopFails, loopEnds, LoopLeaves, callVars, mainVars, hostVars,
   dataVars, fileVars, resultVars, TransferTypeOK, RoleInv, Untouched, Foreign, Unstarted, Fresh,
   NetInv, NetClean, Tainted, BodyInv, ShellInv, InUse, ClosedInv, UploadInv, DownloadInv, FileInv,
   Holder

-----------------------------------------------------------------------------
(* The host: the requests. *)

\* What the processing of a request leaves alone.
hostFrame == UNCHANGED <<callVars, ctx, role, step, body, recvVars, sent, landed, changed, mixed,
                         fileVars, copy, senderDone, resultVars>>

\* Each request the host processes, answered or not, keeps the invariant.
LEMMA HostRefusesStep == ASSUME IndInv, NEW m \in net, HostRefuses(m), hostFrame PROVE IndInv'
BY DEF IndInv, HostRefuses, answer, hostVars, callVars, recvVars, fileVars,
   resultVars, hostFrame, TransferTypeOK, Bad, RoleInv, Untouched, Foreign, Unstarted, Fresh,
   NetInv, On, NetClean, Tainted, BodyInv, ShellInv, InUse, ClosedInv, UploadInv, DownloadInv,
   FileInv, Holder

LEMMA HostCreatesStep == ASSUME IndInv, NEW m \in net, HostCreates(m), hostFrame PROVE IndInv'
<1>. USE DEF IndInv, HostCreates, answer, callVars, recvVars, fileVars, resultVars, hostFrame
<1>1. /\ TransferTypeOK' /\ RoleInv' /\ NetClean' /\ BodyInv' /\ ClosedInv'
      /\ UploadInv' /\ DownloadInv' /\ FileInv'
  BY DEF TransferTypeOK, RoleInv, Untouched, Foreign, Unstarted, Fresh, NetClean,
     Tainted, BodyInv, ClosedInv, UploadInv, DownloadInv, FileInv, Holder
<1>2. NetInv'
  BY DEF NetInv, On, Request, Roles, TransferTypeOK
<1>3. ShellInv'
  BY DEF ShellInv, InUse, On, TransferTypeOK
<1>. HIDE DEF HostCreates
<1>. QED
  BY <1>1, <1>2, <1>3 DEF IndInv

LEMMA HostStartsStep == ASSUME IndInv, NEW m \in net, HostStarts(m), hostFrame PROVE IndInv'
<1>. USE DEF IndInv, HostStarts, answer, callVars, recvVars, fileVars, resultVars, hostFrame
<1>1. /\ TransferTypeOK' /\ RoleInv' /\ NetClean' /\ BodyInv'
      /\ ShellInv' /\ ClosedInv' /\ DownloadInv'
  BY DEF TransferTypeOK, Alive, RoleInv, Untouched, Foreign, Unstarted, Fresh,
     NetClean, Tainted, BodyInv, ShellInv, InUse, ClosedInv, DownloadInv
<1>2. NetInv'
  BY DEF NetInv, On, Request, TransferTypeOK
<1>3. UploadInv'
  BY DEF UploadInv, On, TransferTypeOK, Roles, NetInv
<1>4. FileInv'
  BY DEF FileInv, Holder, TransferTypeOK, Roles, NetInv, On
<1>. HIDE DEF HostStarts
<1>. QED
  BY <1>1, <1>2, <1>3, <1>4 DEF IndInv

LEMMA HostReadsStep == ASSUME IndInv, NEW m \in net, HostReads(m), hostFrame PROVE IndInv'
BY DEF IndInv, HostReads, answer, hostVars, callVars, recvVars, fileVars,
   resultVars, hostFrame, TransferTypeOK, Request, RoleInv, Untouched, Foreign, Unstarted, Fresh,
   NetInv, On, NetClean, Tainted, BodyInv, ShellInv, InUse, ClosedInv, UploadInv, DownloadInv,
   FileInv, Holder

LEMMA HostEndsInputStep == ASSUME IndInv, NEW m \in net, HostEndsInput(m), hostFrame PROVE IndInv'
BY DEF IndInv, HostEndsInput, answer, callVars, recvVars, fileVars, resultVars,
   hostFrame, TransferTypeOK, Alive, Request, RoleInv, Untouched, Foreign, Unstarted, Fresh, NetInv,
   On, NetClean, Tainted, BodyInv, ShellInv, InUse, ClosedInv, UploadInv, DownloadInv, FileInv,
   Holder

LEMMA HostDeletesStep == ASSUME IndInv, NEW m \in net, HostDeletes(m), hostFrame PROVE IndInv'
<1>. USE DEF IndInv, HostDeletes, answer, callVars, recvVars, fileVars, resultVars, hostFrame
<1>1. /\ TransferTypeOK' /\ RoleInv' /\ NetClean' /\ BodyInv' /\ ShellInv'
      /\ ClosedInv' /\ UploadInv' /\ DownloadInv' /\ FileInv'
  BY DEF TransferTypeOK, Roles, Alive, RoleInv, Untouched, Foreign, Unstarted,
     Fresh, NetClean, Tainted, BodyInv, ShellInv, InUse, ClosedInv, UploadInv, DownloadInv, FileInv,
     Holder
<1>2. NetInv'
  BY DEF NetInv, On, Alive, TransferTypeOK
<1>. HIDE DEF HostDeletes
<1>. QED
  BY <1>1, <1>2 DEF IndInv

-----------------------------------------------------------------------------
(* The host: the scripts of every transfer; the environment. *)

\* A script that fails, the cleaner, the context and somebody else's file keep the invariant.
LEMMA ScriptFailsStep == ASSUME IndInv, ScriptFails PROVE IndInv'
BY DEF IndInv, ScriptFails, ends, scriptLeaves, fileVars, callVars, mainVars,
   recvVars, resultVars, TransferTypeOK, RoleInv, Untouched, Foreign, Unstarted, Fresh, NetInv,
   NetClean, Tainted, BodyInv, ShellInv, InUse, ClosedInv, UploadInv, DownloadInv, FileInv, Holder

LEMMA CleansStep == ASSUME IndInv, Cleans PROVE IndInv'
<1>. USE DEF IndInv, Cleans, FileHeld, ends, scriptLeaves, callVars, mainVars, recvVars, resultVars
<1>1. TransferTypeOK' /\ NetClean' /\ BodyInv' /\ ShellInv' /\ ClosedInv' /\ DownloadInv'
  BY DEF TransferTypeOK, NetClean, Tainted, BodyInv, ShellInv, InUse, ClosedInv,
     DownloadInv
<1>2. RoleInv'
  BY DEF RoleInv, Untouched, Foreign, Unstarted, Fresh, TransferTypeOK, Roles
<1>3. NetInv'
  BY DEF NetInv, TransferTypeOK
<1>4. UploadInv'
  BY DEF UploadInv, TransferTypeOK, Roles
<1>5. FileInv'
  BY DEF FileInv, Holder, TransferTypeOK, Roles
<1>. HIDE DEF Cleans
<1>. QED
  BY <1>1, <1>2, <1>3, <1>4, <1>5 DEF IndInv

LEMMA ContextEndsStep == ASSUME IndInv, ContextEnds PROVE IndInv'
BY DEF IndInv, ContextEnds, callVars, mainVars, hostVars, recvVars, dataVars,
   fileVars, resultVars, TransferTypeOK, RoleInv, Untouched, Foreign, Unstarted, Fresh, NetInv,
   NetClean, Tainted, BodyInv, ShellInv, InUse, ClosedInv, UploadInv, DownloadInv, FileInv, Holder

LEMMA DestinationAppearsStep == ASSUME IndInv, DestinationAppears PROVE IndInv'
BY DEF IndInv, DestinationAppears, callVars, mainVars, hostVars, recvVars,
   dataVars, resultVars, TransferTypeOK, RoleInv, Untouched, Foreign, Unstarted, Fresh, NetInv,
   NetClean, Tainted, BodyInv, ShellInv, InUse, ClosedInv, UploadInv, DownloadInv, FileInv, Holder

-----------------------------------------------------------------------------
(* The upload. *)

\* Each step of uploadLanes and dispatchFinalizer, and of their scripts, keeps the invariant.
LEMMA StartReceiverFailsStep == ASSUME IndInv, StartReceiverFails PROVE IndInv'
<1>. USE DEF IndInv, StartReceiverFails, StartFails, goto, uploadLeaves, callVars, hostVars,
             recvVars, fileVars, Bad
<1>1. TransferTypeOK'
  BY DEF TransferTypeOK
<1>2. RoleInv' /\ NetInv' /\ NetClean' /\ BodyInv' /\ ClosedInv' /\ DownloadInv'
  BY DEF RoleInv, Untouched, Foreign, Unstarted, Fresh, NetInv, NetClean, Tainted, BodyInv,
     ClosedInv, DownloadInv
<1>3. ShellInv'
  BY DEF ShellInv, Roles, RoleInv, Untouched, Foreign, Fresh, NetInv
<1>4. UploadInv'
  BY DEF UploadInv, RoleInv
<1>5. FileInv'
  BY DEF FileInv, Holder, RoleInv
<1>. HIDE DEF StartReceiverFails
<1>. QED
  BY <1>1, <1>2, <1>3, <1>4, <1>5 DEF IndInv

LEMMA ReadsStep == ASSUME IndInv, Reads PROVE IndInv'
<1>. USE DEF IndInv, Reads, Ended, goto, uploadFails, uploadLeaves, Budgeted, callVars, hostVars,
             recvVars, fileVars
<1>1. TransferTypeOK' /\ RoleInv' /\ NetInv' /\ BodyInv' /\ ShellInv' /\ ClosedInv' /\ FileInv'
  BY DEF TransferTypeOK, Request, RoleInv, Untouched, Foreign, Unstarted, Fresh,
     NetInv, BodyInv, Short, ShellInv, InUse, ClosedInv, FileInv
<1>2. NetClean'
  BY DEF NetClean, Tainted, Request, RoleInv
<1>3. UploadInv'
  BY DEF UploadInv, TransferTypeOK
<1>4. DownloadInv'
  BY DEF DownloadInv, RoleInv
<1>. HIDE DEF Reads
<1>. QED
  BY <1>1, <1>2, <1>3, <1>4 DEF IndInv

LEMMA SendsStep == ASSUME IndInv, Sends PROVE IndInv'
<1>. USE DEF IndInv, Sends, goto, uploadFails, uploadLeaves, callVars, hostVars, recvVars, fileVars,
             Bad
<1>1. TransferTypeOK'
  BY ChunksAssumption DEF TransferTypeOK, Request, RoleInv
<1>2. /\ RoleInv' /\ NetInv' /\ NetClean' /\ BodyInv' /\ ShellInv'
      /\ ClosedInv' /\ UploadInv' /\ DownloadInv' /\ FileInv'
  BY DEF RoleInv, Untouched, Foreign, Unstarted, Fresh, NetInv, NetClean, Tainted, BodyInv, Short,
     ShellInv, InUse, ClosedInv, UploadInv, DownloadInv, FileInv
<1>. HIDE DEF Sends
<1>. QED
  BY <1>1, <1>2 DEF IndInv

LEMMA SendsEofStep == ASSUME IndInv, SendsEof PROVE IndInv'
BY DEF IndInv, SendsEof, goto, uploadFails, uploadLeaves, callVars, hostVars,
   recvVars, fileVars, Bad, TransferTypeOK, Request, RoleInv, Untouched, Foreign, Unstarted, Fresh,
   NetInv, NetClean, Tainted, BodyInv, Short, ShellInv, InUse, ClosedInv, UploadInv, DownloadInv,
   FileInv

LEMMA VerifiesStep == ASSUME IndInv, Verifies PROVE IndInv'
<1>. USE DEF IndInv, Verifies, sourceUnchanged, recordAgrees, goto, uploadFails, uploadLeaves,
             callVars, hostVars, recvVars, fileVars
<1>1. /\ TransferTypeOK' /\ RoleInv' /\ NetInv' /\ BodyInv' /\ ShellInv'
      /\ ClosedInv' /\ UploadInv' /\ DownloadInv' /\ FileInv'
  BY DEF TransferTypeOK, Request, RoleInv, Untouched, Foreign, Unstarted, Fresh,
     NetInv, BodyInv, Short, ShellInv, InUse, ClosedInv, UploadInv, DownloadInv, FileInv
<1>2. NetClean'
  BY DEF NetClean, Tainted, Request, RoleInv
<1>. HIDE DEF Verifies
<1>. QED
  BY <1>1, <1>2 DEF IndInv

LEMMA ClosesReceiverStep == ASSUME IndInv, ClosesReceiver PROVE IndInv'
<1>. USE DEF IndInv, ClosesReceiver, Closes, begin, CloseFails, closeTold, goto, uploadLeaves,
             Joined, callVars, hostVars, recvVars, fileVars, Bad
<1>1. role = "receiver" /\ step = "delete" /\ x # "idle" /\ direction = "upload"
  BY DEF ClosedInv, RoleInv
<1>2. TransferTypeOK'
  <2>1. /\ artifact' \in BOOLEAN /\ told' \subseteq Roles
        /\ err' \in {"none", "unknown", "exit", "other"}
        /\ role' \in Roles /\ step' \in DOMAIN Request \cup {"done"}
        /\ x' = "idle" /\ body' \in {"none", "ok", "failed", "error"}
    BY <1>1 DEF TransferTypeOK, Roles, Request
  <2>. QED
    BY <1>1, <2>1 DEF TransferTypeOK
<1>3. RoleInv' /\ BodyInv'
  BY DEF RoleInv, Untouched, Foreign, Unstarted, Fresh, BodyInv
<1>4. NetInv'
  BY DEF NetInv, On, RoleInv, Untouched, Fresh
<1>5. NetClean'
  BY DEF NetClean, Tainted, BodyInv
<1>6. ShellInv'
  BY DEF ShellInv, Roles, RoleInv, Untouched, Foreign, Fresh, NetInv, ClosedInv
<1>7. ClosedInv'
  BY DEF ClosedInv, RoleInv, Untouched, Unstarted, Fresh
<1>8. UploadInv'
  <2>1. UNCHANGED <<copy, senderDone, mixed, changed, committed, proc, dest, file, net, recv>>
    OBVIOUS
  <2>2. CASE err = "none" /\ role' = "finalizer"
    BY <1>1, <2>1, <2>2 DEF UploadInv
  <2>3. CASE role' = "cleaner" \/ step' = "done"
    <3>1. proc["finalizer"] = "none" /\ On("finalizer", "Command") \notin net
      BY <1>1 DEF RoleInv, Untouched, Fresh, Unstarted, On
    <3>2. ~committed' /\ ~senderDone' /\ (mixed' => changed')
      BY <1>1, <2>1 DEF UploadInv
    <3>3. role' # "receiver" \/ step' # "delete"
      BY <2>3
    <3>4. err' # "none" /\ err' # "unknown"
      <4>1. err # "unknown"
        BY <1>1 DEF UploadInv
      <4>. QED
        BY <1>1, <2>3, <4>1
    <3>5. artifact'
      BY <1>1, <2>3
    <3>6. dest # "new" /\ direction' = "upload" /\ copy = "none"
      BY <1>1, <3>1 DEF UploadInv
    <3>7. role' # "finalizer"
      BY <1>1, <2>3
    <3>. QED
      BY <1>1, <2>1, <2>3, <3>1, <3>2, <3>3, <3>4, <3>5,
         <3>6, <3>7 DEF UploadInv, On
  <2>. QED
    BY <1>1, <2>2, <2>3
<1>9. DownloadInv'
  BY DEF DownloadInv, RoleInv
<1>10. FileInv'
  BY DEF FileInv, Holder, Alive, Roles, RoleInv, NetInv, BodyInv, ClosedInv, UploadInv
<1>. HIDE DEF ClosesReceiver
<1>. QED
  BY <1>2, <1>3, <1>4, <1>5, <1>6, <1>7, <1>8, <1>9, <1>10 DEF IndInv

LEMMA StartFinalizerFailsStep == ASSUME IndInv, StartFinalizerFails PROVE IndInv'
<1>. USE DEF IndInv, StartFinalizerFails, StartFails, finalizerErrors, goto, uploadLeaves, callVars,
             hostVars, recvVars, fileVars, Bad
<1>1. TransferTypeOK'
  BY DEF TransferTypeOK
<1>2. RoleInv' /\ NetInv' /\ NetClean' /\ BodyInv' /\ ClosedInv' /\ UploadInv' /\ FileInv'
  BY DEF RoleInv, Untouched, Foreign, Unstarted, Fresh, NetInv, NetClean, Tainted, BodyInv,
     ClosedInv, UploadInv, FileInv
<1>3. ShellInv'
  BY DEF ShellInv, InUse, RoleInv, Fresh, NetInv
<1>4. DownloadInv'
  BY DEF DownloadInv, RoleInv
<1>. HIDE DEF StartFinalizerFails
<1>. QED
  BY <1>1, <1>2, <1>3, <1>4 DEF IndInv

LEMMA ClosesFinalizerStep == ASSUME IndInv, ClosesFinalizer PROVE IndInv'
<1>. USE DEF IndInv, ClosesFinalizer, Closes, CloseFails, closeTold, finalizerErrors, begin, goto,
             uploadLeaves, Joined, callVars, hostVars, recvVars, fileVars, Bad
<1>1. role = "finalizer" /\ step = "delete" /\ x # "idle" /\ direction = "upload"
  BY DEF ClosedInv, RoleInv
<1>2. /\ body \in {"ok", "failed", "error"}
      /\ body # "error" => recv["finalizer"] = body /\ proc["finalizer"] = body
  BY <1>1 DEF BodyInv, Short, NetInv, Roles
<1>3. recv["receiver"] = "ok" /\ proc["receiver"] = "ok" /\ ~mixed
  BY <1>1 DEF UploadInv, NetInv, Roles
<1>4. /\ committed' <=> (body = "ok")
      /\ artifact' <=> (body # "ok")
      /\ body = "ok" /\ x = "ok" => err' = "none"
      /\ body = "ok" /\ x # "ok" => err' = "other"
      /\ body = "failed" => err' = "exit"
      /\ body = "error" => err' = "unknown"
      /\ IF body = "failed" THEN role' = "cleaner" /\ step' = "create" /\ body' = "none"
                            ELSE role' = "finalizer" /\ step' = "done" /\ body' = body
      /\ x' = "idle"
      /\ UNCHANGED <<direction, net, proc, recv, copy, senderDone, mixed, changed, dest, file>>
  BY <1>1, <1>2
<1>5. TransferTypeOK'
  BY DEF TransferTypeOK, Roles, Request, BodyInv, Short
<1>6. RoleInv' /\ BodyInv'
  BY DEF RoleInv, Untouched, Foreign, Unstarted, Fresh, BodyInv
<1>7. NetInv'
  BY DEF NetInv, On, RoleInv, Untouched, Fresh
<1>8. NetClean'
  BY DEF NetClean, Tainted, RoleInv, BodyInv, Short, UploadInv
<1>9. ShellInv'
  BY DEF ShellInv, InUse, RoleInv, NetInv, BodyInv, Short, UploadInv
<1>10. ClosedInv'
  BY DEF ClosedInv, RoleInv, Untouched, Unstarted, Fresh
<1>11. UploadInv'
  <2>1. body = "failed" => On("finalizer", "Command") \notin net /\ dest # "new"
    BY <1>1, <1>2 DEF NetInv, UploadInv, Roles
  <2>2. body = "ok" => dest = "new" /\ file = "none"
    BY <1>1, <1>2 DEF UploadInv
  <2>3. copy = "none" /\ ~senderDone /\ (mixed => changed)
    BY <1>1 DEF UploadInv
  <2>4. CASE body = "ok"
    BY <1>1, <1>2, <1>3, <1>4, <2>2, <2>3, <2>4 DEF UploadInv, On
  <2>5. CASE body = "failed"
    BY <1>1, <1>2, <1>3, <1>4, <2>1, <2>3, <2>5 DEF UploadInv, On
  <2>6. CASE body = "error"
    BY <1>1, <1>2, <1>3, <1>4, <2>3, <2>6 DEF UploadInv, On
  <2>. QED
    BY <1>2, <2>4, <2>5, <2>6
<1>12. DownloadInv'
  BY DEF DownloadInv, RoleInv
<1>13. FileInv'
  <2>. HIDE DEF ClosesFinalizer
  <2>2. body = "ok" => dest = "new" /\ file = "none"
    BY <1>1, <1>2 DEF UploadInv
  <2>3. copy = "none" /\ dest # "bad" /\ proc["cleaner"] = "none"
    BY <1>1 DEF UploadInv, FileInv, RoleInv, Untouched, Fresh, Unstarted
  <2>4. CASE body = "ok"
    BY <1>1, <1>2, <1>3, <1>4, <2>2, <2>3, <2>4 DEF FileInv, Holder, Alive
  <2>5. CASE body = "failed"
    BY <1>1, <1>2, <1>3, <1>4, <2>3, <2>5 DEF FileInv, Holder, Alive
  <2>6. CASE body = "error"
    BY <1>1, <1>2, <1>3, <1>4, <2>3, <2>6 DEF FileInv, Holder, Alive
  <2>. QED
    BY <1>2, <2>4, <2>5, <2>6
<1>. HIDE DEF ClosesFinalizer
<1>. QED
  BY <1>5, <1>6, <1>7, <1>8, <1>9, <1>10, <1>11, <1>12, <1>13 DEF IndInv

LEMMA CleansStageStep == ASSUME IndInv, CleansStage PROVE IndInv'
<1>. USE DEF IndInv, CleansStage, StartFails, Closes, CloseFails, closeTold, goto, uploadLeaves,
             Joined, callVars, hostVars, recvVars, fileVars, Bad
<1>1. TransferTypeOK'
  <2>1. /\ artifact' \in BOOLEAN /\ told' \subseteq Roles
        /\ role' \in Roles /\ step' = "done" /\ x' = "idle"
    BY DEF TransferTypeOK, Roles
  <2>. QED
    BY <2>1 DEF TransferTypeOK
<1>2. RoleInv' /\ NetInv' /\ BodyInv' /\ ClosedInv' /\ UploadInv' /\ DownloadInv'
  BY DEF RoleInv, Untouched, Foreign, Unstarted, Fresh, NetInv, BodyInv, ClosedInv, UploadInv,
     DownloadInv
<1>3. NetClean'
  BY DEF NetClean, Tainted, UploadInv
<1>4. ShellInv'
  BY DEF ShellInv, InUse, Roles, RoleInv, Fresh, NetInv, ClosedInv, UploadInv
<1>5. FileInv'
  BY DEF FileInv, Holder, TransferTypeOK, Roles, NetInv, BodyInv, Short, UploadInv
<1>. HIDE DEF CleansStage
<1>. QED
  BY <1>1, <1>2, <1>3, <1>4, <1>5 DEF IndInv

LEMMA ReceiverOpensStep == ASSUME IndInv, ReceiverOpens PROVE IndInv'
<1>. USE DEF IndInv, ReceiverOpens, scriptLeaves, callVars, mainVars, recvVars, resultVars
<1>1. /\ TransferTypeOK' /\ RoleInv' /\ NetInv' /\ NetClean' /\ BodyInv'
      /\ ShellInv' /\ ClosedInv' /\ DownloadInv'
  BY DEF TransferTypeOK, RoleInv, Untouched, Foreign, Unstarted, Fresh, NetInv,
     NetClean, Tainted, BodyInv, ShellInv, InUse, ClosedInv, DownloadInv
<1>2. UploadInv'
  BY DEF UploadInv, Roles, NetInv
<1>3. FileInv'
  BY DEF FileInv, Holder, TransferTypeOK, Roles, RoleInv, Untouched, Foreign, Unstarted, Fresh
<1>. HIDE DEF ReceiverOpens
<1>. QED
  BY <1>1, <1>2, <1>3 DEF IndInv

LEMMA ReceiverEndsStep == ASSUME IndInv, ReceiverEnds PROVE IndInv'
BY DEF IndInv, ReceiverEnds, ends, scriptLeaves, callVars, mainVars, recvVars,
   resultVars, TransferTypeOK, Roles, RoleInv, Untouched, Foreign, Unstarted, Fresh, NetInv,
   NetClean, Tainted, BodyInv, ShellInv, InUse, ClosedInv, UploadInv, DownloadInv, FileInv, Holder

LEMMA FinalizerMovesStep == ASSUME IndInv, FinalizerMoves PROVE IndInv'
<1>. USE DEF IndInv, FinalizerMoves, Moves, Content, ends, fileVars, scriptLeaves, stageIntact,
             moveFlags, callVars, mainVars, recvVars, resultVars
<1>1. TransferTypeOK' /\ NetClean' /\ BodyInv' /\ ShellInv' /\ ClosedInv'
  BY DEF TransferTypeOK, Alive, NetClean, Tainted, BodyInv, ShellInv, InUse,
     ClosedInv
<1>2. RoleInv'
  BY DEF RoleInv, Untouched, Foreign, Unstarted, Fresh, TransferTypeOK, Roles
<1>3. NetInv'
  BY DEF NetInv, TransferTypeOK
<1>4. UploadInv'
  BY DEF UploadInv, TransferTypeOK, Roles
<1>5. DownloadInv'
  BY DEF DownloadInv, RoleInv, Untouched, Foreign, Unstarted, Fresh
<1>6. FileInv'
  BY DEF FileInv, Holder, TransferTypeOK, Roles, RoleInv, UploadInv, DownloadInv
<1>. HIDE DEF FinalizerMoves
<1>. QED
  BY <1>1, <1>2, <1>3, <1>4, <1>5, <1>6 DEF IndInv

LEMMA FinalizerAcknowledgesStep == ASSUME IndInv, FinalizerAcknowledges PROVE IndInv'
BY DEF IndInv, FinalizerAcknowledges, ends, scriptLeaves, fileVars, callVars,
   mainVars, recvVars, resultVars, TransferTypeOK, RoleInv, Untouched, Foreign, Unstarted, Fresh,
   NetInv, NetClean, Tainted, BodyInv, ShellInv, InUse, ClosedInv, UploadInv, DownloadInv, FileInv,
   Holder

LEMMA StageAlteredStep == ASSUME IndInv, StageAltered PROVE IndInv'
BY DEF IndInv, StageAltered, scriptLeaves, fileVars, callVars, mainVars, recvVars,
   resultVars, TransferTypeOK, RoleInv, Untouched, Foreign, Unstarted, Fresh, NetInv, NetClean,
   Tainted, BodyInv, ShellInv, InUse, ClosedInv, UploadInv, DownloadInv, FileInv, Holder

LEMMA SourceChangesStep == ASSUME IndInv, SourceChanges PROVE IndInv'
BY DEF IndInv, SourceChanges, callVars, mainVars, hostVars, recvVars, fileVars,
   resultVars, TransferTypeOK, RoleInv, Untouched, Foreign, Unstarted, Fresh, NetInv, NetClean,
   Tainted, BodyInv, ShellInv, InUse, ClosedInv, UploadInv, DownloadInv, FileInv, Holder

-----------------------------------------------------------------------------
(* The download. *)

\* Each step of downloadLanes, its stream and its scripts keeps the invariant.
LEMMA FindsTempStep == ASSUME IndInv, FindsTemp PROVE IndInv'
<1>. USE DEF IndInv, FindsTemp, ControlReturns, begin, goto, errorOf, downloadLeaves, StartFails,
             Closes, CloseFails, closeTold, callVars, hostVars, recvVars, dataVars, Joined, Bad
<1>1. TransferTypeOK'
  <2>1. /\ told' \subseteq Roles /\ err' \in {"none", "unknown", "exit", "other"}
        /\ role' \in Roles /\ step' \in DOMAIN Request \cup {"done"}
        /\ x' = "idle" /\ body' \in {"none", "ok", "failed", "error"}
    BY DEF TransferTypeOK, Roles, Request
  <2>. QED
    BY <2>1 DEF TransferTypeOK
<1>2. RoleInv' /\ NetClean' /\ BodyInv' /\ DownloadInv'
  BY DEF RoleInv, Untouched, Foreign, Unstarted, Fresh, NetClean, Tainted, BodyInv, DownloadInv
<1>3. NetInv'
  BY DEF NetInv, On, RoleInv, Untouched, Fresh
<1>4. ShellInv'
  BY DEF ShellInv, Roles, RoleInv, Untouched, Foreign, Fresh, NetInv, ClosedInv
<1>5. ClosedInv'
  BY DEF ClosedInv, RoleInv, Untouched, Unstarted, Fresh
<1>6. UploadInv'
  BY DEF UploadInv, RoleInv
<1>7. FileInv'
  BY DEF FileInv, Holder, RoleInv, Untouched, Unstarted, Fresh
<1>. HIDE DEF FindsTemp
<1>. QED
  BY <1>1, <1>2, <1>3, <1>4, <1>5, <1>6, <1>7 DEF IndInv

LEMMA StartSenderFailsStep == ASSUME IndInv, StartSenderFails PROVE IndInv'
<1>. USE DEF IndInv, StartSenderFails, StartFails, goto, downloadLeaves, callVars, hostVars,
             recvVars, dataVars, Bad
<1>1. TransferTypeOK' /\ RoleInv' /\ NetInv' /\ NetClean' /\ BodyInv' /\ ClosedInv' /\ DownloadInv'
  BY DEF TransferTypeOK, RoleInv, Untouched, Foreign, Unstarted, Fresh, NetInv,
     NetClean, Tainted, BodyInv, ClosedInv, DownloadInv
<1>2. ShellInv'
  BY DEF ShellInv, RoleInv
<1>3. UploadInv'
  BY DEF UploadInv, RoleInv
<1>4. FileInv'
  BY DEF FileInv, Holder, RoleInv
<1>. HIDE DEF StartSenderFails
<1>. QED
  BY <1>1, <1>2, <1>3, <1>4 DEF IndInv

LEMMA EndsSenderInputStep == ASSUME IndInv, EndsSenderInput PROVE IndInv'
<1>. USE DEF IndInv, EndsSenderInput, goto, downloadLeaves, callVars, hostVars, recvVars, dataVars,
             Bad
<1>1. /\ TransferTypeOK' /\ RoleInv' /\ NetInv' /\ BodyInv' /\ ShellInv'
      /\ ClosedInv' /\ UploadInv' /\ DownloadInv' /\ FileInv'
  BY DEF TransferTypeOK, Request, RoleInv, Untouched, Foreign, Unstarted, Fresh,
     NetInv, BodyInv, ShellInv, InUse, ClosedInv, UploadInv, DownloadInv, FileInv
<1>2. NetClean'
  BY DEF NetClean, Tainted, BodyInv
<1>. HIDE DEF EndsSenderInput
<1>. QED
  BY <1>1, <1>2 DEF IndInv

LEMMA StopsSenderStep == ASSUME IndInv, StopsSender PROVE IndInv'
<1>. USE DEF IndInv, StopsSender, goto, stopTold, downloadLeaves, callVars, hostVars, recvVars,
             dataVars, Bad
<1>1. /\ TransferTypeOK' /\ RoleInv' /\ NetInv' /\ BodyInv' /\ ShellInv'
      /\ ClosedInv' /\ UploadInv' /\ DownloadInv' /\ FileInv'
  BY DEF TransferTypeOK, RoleInv, Untouched, Foreign, Unstarted, Fresh, NetInv,
     BodyInv, ShellInv, InUse, ClosedInv, UploadInv, DownloadInv, FileInv
<1>2. NetClean'
  BY DEF NetClean, Tainted, ClosedInv
<1>. HIDE DEF StopsSender
<1>. QED
  BY <1>1, <1>2 DEF IndInv

LEMMA WaitsForCopyStep == ASSUME IndInv, WaitsForCopy PROVE IndInv'
<1>. USE DEF IndInv, WaitsForCopy, goto, downloadLeaves, callVars, hostVars, recvVars, dataVars
<1>1. /\ TransferTypeOK' /\ RoleInv' /\ NetInv' /\ BodyInv' /\ ShellInv'
      /\ ClosedInv' /\ UploadInv' /\ DownloadInv' /\ FileInv'
  BY DEF TransferTypeOK, Request, RoleInv, Untouched, Foreign, Unstarted, Fresh,
     NetInv, BodyInv, ShellInv, InUse, ClosedInv, UploadInv, DownloadInv, FileInv
<1>2. NetClean'
  BY DEF NetClean, Tainted, Request, RoleInv
<1>. HIDE DEF WaitsForCopy
<1>. QED
  BY <1>1, <1>2 DEF IndInv

LEMMA WaitsForSenderStep == ASSUME IndInv, WaitsForSender PROVE IndInv'
<1>. USE DEF IndInv, WaitsForSender, begin, downloadFails, errorOf, downloadLeaves, callVars,
             hostVars, recvVars, dataVars
<1>1. TransferTypeOK'
  <2>1. /\ err' \in {"none", "unknown", "exit", "other"} /\ senderDone' \in BOOLEAN
        /\ role' \in Roles /\ step' \in DOMAIN Request
        /\ x' = "idle" /\ body' \in {"none", "ok", "failed", "error"}
    BY DEF TransferTypeOK, Roles, Request
  <2>. QED
    BY <2>1 DEF TransferTypeOK
<1>2. RoleInv'
  BY DEF RoleInv, Untouched, Foreign, Unstarted, Fresh, DownloadInv
<1>3. NetInv'
  BY DEF NetInv, On, RoleInv, Untouched, Fresh, DownloadInv
<1>4. NetClean'
  BY DEF NetClean, Tainted, Request, RoleInv
<1>5. BodyInv' /\ ShellInv' /\ UploadInv' /\ DownloadInv' /\ FileInv'
  BY DEF BodyInv, Short, ShellInv, InUse, UploadInv, DownloadInv, FileInv
<1>6. ClosedInv'
  BY DEF ClosedInv, RoleInv, Untouched, Unstarted, Fresh, DownloadInv
<1>. HIDE DEF WaitsForSender
<1>. QED
  BY <1>1, <1>2, <1>3, <1>4, <1>5, <1>6 DEF IndInv

LEMMA CommitsStep == ASSUME IndInv, Commits PROVE IndInv'
<1>. USE DEF IndInv, Commits, ControlReturns, recordMatches, commitStage, Content, downloadFails,
             errorOf, downloadLeaves, StartFails, Closes, CloseFails, closeTold, callVars, hostVars,
             recvVars, dataVars, Joined, Bad
<1>1. TransferTypeOK'
  <2>1. /\ told' \subseteq Roles /\ err' \in {"none", "unknown", "exit", "other"}
        /\ role' \in Roles /\ step' \in DOMAIN Request
        /\ x' = "idle" /\ dest' \in {"none", "old", "new", "bad"} /\ committed' \in BOOLEAN
    BY DEF TransferTypeOK, Roles, Request
  <2>. QED
    BY <2>1 DEF TransferTypeOK
<1>2. RoleInv'
  BY DEF RoleInv, Untouched, Foreign, Unstarted, Fresh, DownloadInv
<1>3. NetInv'
  BY DEF NetInv, RoleInv, DownloadInv
<1>4. NetClean' /\ ClosedInv' /\ DownloadInv'
  BY DEF NetClean, Tainted, ClosedInv, DownloadInv
<1>5. BodyInv'
  BY DEF BodyInv, Short, RoleInv, DownloadInv
<1>6. ShellInv'
  BY DEF ShellInv, InUse, RoleInv, NetInv, ClosedInv
<1>7. UploadInv'
  BY DEF UploadInv, RoleInv
<1>8. FileInv'
  BY DEF FileInv, RoleInv, DownloadInv
<1>. HIDE DEF Commits
<1>. QED
  BY <1>1, <1>2, <1>3, <1>4, <1>5, <1>6, <1>7, <1>8 DEF IndInv

LEMMA ClosesSenderStep == ASSUME IndInv, ClosesSender PROVE IndInv'
<1>. USE DEF IndInv, ClosesSender, Closes, begin, goto, CloseFails, closeTold, joinError,
             downloadLeaves, Joined, callVars, hostVars, recvVars, dataVars, Bad
<1>1. /\ role = "sender" /\ step = "delete" /\ direction = "download" /\ recv["sender"] # "polling"
      /\ x = "idle" => err # "none"
      /\ err = "none" => senderDone
  BY DEF ClosedInv, RoleInv, DownloadInv
<1>2. TransferTypeOK'
  <2>1. /\ told' \subseteq Roles /\ artifact' \in BOOLEAN
        /\ err' \in {"none", "unknown", "exit", "other"}
        /\ role' \in Roles /\ step' \in DOMAIN Request \cup {"done"}
        /\ x' = "idle" /\ body' \in {"none", "ok", "failed", "error"}
    BY DEF TransferTypeOK, Roles, Request
  <2>. QED
    BY <2>1 DEF TransferTypeOK
<1>3. RoleInv' /\ BodyInv'
  BY DEF RoleInv, Untouched, Foreign, Unstarted, Fresh, BodyInv
<1>4. NetInv'
  BY DEF NetInv, On, RoleInv, Untouched, Fresh
<1>5. NetClean'
  <2>1. CASE err' # "none"
    BY <2>1 DEF NetClean, Tainted
  <2>2. CASE err' = "none"
    <3>1. err = "none" /\ x = "ok" /\ senderDone
      BY <1>1, <2>2
    <3>2. body # "error" /\ copy # "failed"
      BY <1>1, <3>1 DEF DownloadInv
    <3>. QED
      BY <1>1, <2>2, <3>1, <3>2 DEF NetClean, Tainted
  <2>. QED
    BY <2>1, <2>2
<1>6. ShellInv'
  BY DEF ShellInv, InUse, RoleInv, NetInv, ClosedInv
<1>7. ClosedInv'
  BY DEF ClosedInv, RoleInv, Untouched, Unstarted, Fresh
<1>8. UploadInv'
  BY DEF UploadInv, RoleInv
<1>9. DownloadInv'
  BY DEF DownloadInv, TransferTypeOK
<1>10. FileInv'
  <2>1. senderDone => recv["sender"] = "ok" /\ proc["sender"] = "ok"
    BY <1>1 DEF DownloadInv, NetInv, Roles
  <2>2. proc["cleaner"] = "none" /\ recv["sender"] # "none"
    BY <1>1 DEF RoleInv, Untouched, Fresh, Unstarted, BodyInv
  <2>3. /\ IF role' = "cleaner"
           THEN senderDone /\ step' = "create"
           ELSE step' = "done" /\ artifact' /\ err' # "none" /\ role' = "sender"
        /\ UNCHANGED <<direction, proc, recv, dest, file, committed>>
    BY <1>1
  <2>. HIDE DEF ClosesSender
  <2>. QED
    BY <1>1, <2>1, <2>2, <2>3 DEF FileInv, Holder, Alive
<1>. HIDE DEF ClosesSender
<1>. QED
  BY <1>2, <1>3, <1>4, <1>5, <1>6, <1>7, <1>8, <1>9, <1>10 DEF IndInv

LEMMA CleansRecordStep == ASSUME IndInv, CleansRecord PROVE IndInv'
<1>. USE DEF IndInv, CleansRecord, StartFails, Closes, CloseFails, closeTold, cleanupLeaves,
             joinError, goto, downloadLeaves, Joined, callVars, hostVars, recvVars, dataVars, Bad
<1>1. TransferTypeOK'
  <2>1. /\ told' \subseteq Roles /\ artifact' \in BOOLEAN
        /\ err' \in {"none", "unknown", "exit", "other"}
        /\ role' \in Roles /\ step' = "done" /\ x' = "idle"
    BY DEF TransferTypeOK, Roles
  <2>. QED
    BY <2>1 DEF TransferTypeOK
<1>2. RoleInv' /\ NetInv' /\ NetClean' /\ BodyInv' /\ ClosedInv' /\ UploadInv' /\ DownloadInv'
  BY DEF RoleInv, Untouched, Foreign, Unstarted, Fresh, NetInv, NetClean, Tainted, BodyInv,
     ClosedInv, UploadInv, DownloadInv
<1>3. ShellInv'
  BY DEF ShellInv, InUse, Roles, NetInv
<1>4. FileInv'
  BY DEF FileInv, Holder, TransferTypeOK, Roles, NetInv, BodyInv, Short, DownloadInv
<1>. HIDE DEF CleansRecord
<1>. QED
  BY <1>1, <1>2, <1>3, <1>4 DEF IndInv

LEMMA CopiesStep == ASSUME IndInv, Copies PROVE IndInv'
<1>. USE DEF IndInv, Copies, callVars, mainVars, hostVars, recvVars, fileVars, resultVars
<1>1. /\ TransferTypeOK' /\ RoleInv' /\ NetInv' /\ NetClean' /\ BodyInv'
      /\ ShellInv' /\ ClosedInv' /\ UploadInv' /\ DownloadInv'
  BY DEF TransferTypeOK, RoleInv, Untouched, Foreign, Unstarted, Fresh, NetInv,
     NetClean, Tainted, BodyInv, ShellInv, InUse, ClosedInv, UploadInv, DownloadInv
<1>2. FileInv'
  BY DEF FileInv, Holder, RoleInv, Untouched, Foreign, Unstarted, Fresh, DownloadInv
<1>. HIDE DEF Copies
<1>. QED
  BY <1>1, <1>2 DEF IndInv

LEMMA CopyEndsStep == ASSUME IndInv, CopyEnds PROVE IndInv'
<1>. USE DEF IndInv, CopyEnds, callVars, mainVars, hostVars, recvVars, dataVars, fileVars,
             resultVars
<1>1. /\ TransferTypeOK' /\ RoleInv' /\ NetInv' /\ NetClean' /\ BodyInv'
      /\ ShellInv' /\ ClosedInv' /\ UploadInv' /\ DownloadInv'
  BY DEF TransferTypeOK, RoleInv, Untouched, Foreign, Unstarted, Fresh, NetInv,
     NetClean, Tainted, BodyInv, ShellInv, InUse, ClosedInv, UploadInv, DownloadInv
<1>2. FileInv'
  BY DEF FileInv, Holder, RoleInv, Untouched, Foreign, Unstarted, Fresh, DownloadInv
<1>. HIDE DEF CopyEnds
<1>. QED
  BY <1>1, <1>2 DEF IndInv

LEMMA TempEndsStep == ASSUME IndInv, TempEnds PROVE IndInv'
BY DEF IndInv, TempEnds, ends, scriptLeaves, fileVars, callVars, mainVars,
   recvVars, resultVars, TransferTypeOK, Roles, RoleInv, Untouched, Foreign, Unstarted, Fresh,
   NetInv, NetClean, Tainted, BodyInv, ShellInv, InUse, ClosedInv, UploadInv, DownloadInv, FileInv,
   Holder

LEMMA SenderWritesStep == ASSUME IndInv, SenderWrites PROVE IndInv'
<1>. USE DEF IndInv, SenderWrites, ends, scriptLeaves, callVars, mainVars, recvVars, resultVars
<1>1. TransferTypeOK' /\ NetClean' /\ BodyInv' /\ ShellInv' /\ ClosedInv' /\ DownloadInv'
  BY ChunksAssumption DEF TransferTypeOK, NetClean, Tainted, BodyInv, ShellInv, InUse, ClosedInv,
     DownloadInv
<1>2. RoleInv'
  BY DEF RoleInv, Untouched, Foreign, Unstarted, Fresh, TransferTypeOK, Roles
<1>3. NetInv'
  BY DEF NetInv, TransferTypeOK
<1>4. UploadInv'
  BY DEF UploadInv, RoleInv, Untouched, Foreign, Unstarted, Fresh
<1>5. FileInv'
  BY DEF FileInv, Holder, TransferTypeOK, Roles, RoleInv, Untouched, Foreign, Unstarted, Fresh
<1>. HIDE DEF SenderWrites
<1>. QED
  BY <1>1, <1>2, <1>3, <1>4, <1>5 DEF IndInv

LEMMA FetchEndsStep == ASSUME IndInv, FetchEnds PROVE IndInv'
BY DEF IndInv, FetchEnds, ends, scriptLeaves, fileVars, callVars, mainVars,
   recvVars, resultVars, TransferTypeOK, Roles, RoleInv, Untouched, Foreign, Unstarted, Fresh,
   NetInv, NetClean, Tainted, BodyInv, ShellInv, InUse, ClosedInv, UploadInv, DownloadInv, FileInv,
   Holder

\* Whichever request the host processes, the invariant is kept.
LEMMA HostStep == ASSUME IndInv, Host PROVE IndInv'
<1>1. PICK m \in net : \/ HostRefuses(m) \/ HostCreates(m) \/ HostStarts(m)
                       \/ HostReads(m) \/ HostEndsInput(m) \/ HostDeletes(m)
  BY DEF Host
<1>2. hostFrame
  BY DEF Host, hostFrame
<1>. QED
  BY <1>1, <1>2, HostRefusesStep, HostCreatesStep, HostStartsStep, HostReadsStep,
     HostEndsInputStep, HostDeletesStep

-----------------------------------------------------------------------------
(* The invariant. *)

\* A transfer begins with nothing on the network and nothing on the host.
LEMMA IndInit == Init => IndInv
<1>. SUFFICES ASSUME Init PROVE IndInv
  OBVIOUS
<1>. USE DEF Init, SessionInit
<1>1. direction \in {"upload", "download"}
  BY DirectionsAssumption
<1>2. TransferTypeOK
  <2>1. role \in Roles /\ step \in DOMAIN Request /\ dest \in {"none", "old", "new", "bad"}
    BY <1>1 DEF Roles, Request
  <2>2. sent \in 0 .. Chunks /\ landed \in 0 .. sent
    BY ChunksAssumption
  <2>3. /\ shell \in [Roles -> {"none", "open", "gone"}]
        /\ proc \in [Roles -> Alive \cup {"none", "ok", "failed", "killed"}]
        /\ recv \in [Roles -> {"none", "polling", "ok", "failed", "error"}]
    OBVIOUS
  <2>. QED
    BY <2>1, <2>2, <2>3 DEF TransferTypeOK
<1>3. RoleInv
  BY <1>1 DEF RoleInv, Untouched, Foreign, Fresh, Unstarted, Roles
<1>4. NetInv /\ NetClean
  BY DEF NetInv, NetClean, On
<1>5. BodyInv /\ ShellInv /\ ClosedInv
  BY <1>1 DEF BodyInv, Short, ShellInv, On, ClosedInv
<1>6. UploadInv /\ DownloadInv
  BY <1>1 DEF UploadInv, DownloadInv, On, Roles
<1>7. FileInv
  BY <1>1 DEF FileInv, Roles
<1>. QED
  BY <1>2, <1>3, <1>4, <1>5, <1>6, <1>7 DEF IndInv

\* Every step of the sessions, of the upload and of the download keeps the invariant.
LEMMA SessionStep == ASSUME IndInv, SessionNext PROVE IndInv'
BY PostsStep, GivesUpStep, CreatedStep, CommandedStep, CommandFailsStep, ExchangedStep,
   ReceivedStep, LoopReturnsStep, LoopStopsStep, LoopFailsStep, HostStep, ScriptFailsStep,
   CleansStep, ContextEndsStep, DestinationAppearsStep DEF SessionNext

LEMMA UploadStep == ASSUME IndInv, UploadMain \/ UploadHost PROVE IndInv'
BY StartReceiverFailsStep, ReadsStep, SendsStep, SendsEofStep, VerifiesStep, ClosesReceiverStep,
   StartFinalizerFailsStep, ClosesFinalizerStep, CleansStageStep, ReceiverOpensStep,
   ReceiverEndsStep, FinalizerMovesStep, FinalizerAcknowledgesStep, StageAlteredStep,
   SourceChangesStep DEF UploadMain, UploadHost

LEMMA DownloadStep ==
  ASSUME IndInv, DownloadMain \/ DownloadStream \/ DownloadHost PROVE IndInv'
BY FindsTempStep, StartSenderFailsStep, EndsSenderInputStep, StopsSenderStep, WaitsForCopyStep,
   WaitsForSenderStep, CommitsStep, ClosesSenderStep, CleansRecordStep, CopiesStep,
   CopyEndsStep, TempEndsStep, SenderWritesStep, FetchEndsStep DEF DownloadMain, DownloadStream,
   DownloadHost

\* So does a step that changes nothing, and with it each step of the specification.
LEMMA IndStutter == ASSUME IndInv, UNCHANGED vars PROVE IndInv'
<1>. USE DEF IndInv, vars, callVars, mainVars, hostVars, recvVars, dataVars, fileVars, resultVars
<1>1. TransferTypeOK' /\ RoleInv'
  BY DEF TransferTypeOK, RoleInv, Untouched, Foreign, Fresh, Unstarted
<1>2. NetInv' /\ NetClean' /\ BodyInv' /\ ShellInv' /\ ClosedInv'
  BY DEF NetInv, NetClean, Tainted, BodyInv, ShellInv, InUse, ClosedInv
<1>3. UploadInv' /\ DownloadInv' /\ FileInv'
  BY DEF UploadInv, DownloadInv, FileInv, Holder
<1>. QED
  BY <1>1, <1>2, <1>3

LEMMA IndNext == IndInv /\ [Next]_vars => IndInv'
BY SessionStep, UploadStep, DownloadStep, IndStutter DEF Next, Returned

\* The steps of a behaviour, without the fairness.
LEMMA SafetyPart == Spec => Init /\ [][Next]_vars
BY DEF Spec

\* The invariant holds of both transfers, for a source of any size, whatever requests
\* are lost, delayed or refused and whatever the disks, the source and the context do.
THEOREM Inductive == Spec => []IndInv
BY IndInit, IndNext, SafetyPart, PTL

\* Every variable keeps its type.
THEOREM TransferTypeCorrect == Spec => []TransferTypeOK
<1>1. IndInv => TransferTypeOK
  BY DEF IndInv
<1>. QED
  BY <1>1, Inductive, PTL

-----------------------------------------------------------------------------
(* What the user may rely on. *)

\* The phases of a transfer know what was moved, unless the finalizer's answer is missing.
LEMMA OutcomeOfInv == IndInv => OutcomeHonest
<1>1. ASSUME IndInv, Report \in {"done", "committed but cleanup failed"}
      PROVE  dest = "new"
  <2>1. committed
    BY <1>1 DEF Report
  <2>. QED
    BY <1>1, <2>1 DEF IndInv, FileInv
<1>2. ASSUME IndInv, Report = "failed"
      PROVE  dest \in {"none", "old"}
  <2>1. step = "done" /\ err # "unknown" /\ ~committed
    BY <1>2 DEF Report, IndInv, TransferTypeOK
  <2>2. dest \in {"none", "old", "new"}
    BY <1>2 DEF IndInv, TransferTypeOK, FileInv
  <2>3. CASE direction = "upload"
    BY <1>2, <2>1, <2>2, <2>3 DEF IndInv, UploadInv
  <2>4. CASE direction = "download"
    BY <1>2, <2>1, <2>2, <2>4 DEF IndInv, DownloadInv
  <2>. QED
    BY <1>2, <2>3, <2>4 DEF IndInv, RoleInv
<1>. QED
  BY <1>1, <1>2 DEF OutcomeHonest

\* What cmd/transfer.go prints of the destination is true when uploadLanes or
\* downloadLanes returns and remains true: only "finalization outcome unknown" leaves
\* it open whether the new file is there.
THEOREM DestinationKnown == Spec => []OutcomeHonest
BY OutcomeOfInv, Inductive, PTL

\* Neither the finalizer's script nor commitStage puts other bytes than those of the
\* opened source at the destination.
THEOREM SourceCommitted == Spec => []CommittedIsSource
<1>1. IndInv => CommittedIsSource
  BY DEF IndInv, FileInv, CommittedIsSource
<1>. QED
  BY <1>1, Inductive, PTL

\* The move of control.ps1 and the link of commitStage replace an existing destination
\* only with --force, whenever it appeared.
THEOREM NeverClobbered == Spec => NoClobber
<1>1. ASSUME [Next]_vars, dest = "old", ~force
      PROVE  dest' = "old"
  <2>. USE <1>1 DEF callVars, mainVars, hostVars, recvVars, dataVars, fileVars, resultVars
  <2>1. CASE SessionNext
    BY <2>1 DEF SessionNext, Posts, GivesUp, Created, Commanded, CommandFails, Exchanged,
       Received, LoopReturns, LoopStops, LoopFails, LoopLeaves, Host, ScriptFails, Cleans,
       ContextEnds, DestinationAppears, scriptLeaves
  <2>2. CASE UploadMain
    BY <2>2 DEF UploadMain, StartReceiverFails, Reads, Sends, SendsEof, Verifies,
       ClosesReceiver, StartFinalizerFails, ClosesFinalizer, CleansStage, uploadLeaves
  <2>3. CASE UploadHost
    BY <2>3 DEF UploadHost, ReceiverOpens, ReceiverEnds, FinalizerMoves, FinalizerAcknowledges,
       StageAltered, SourceChanges, Moves, moveFlags, scriptLeaves
  <2>4. CASE DownloadMain
    BY <2>4 DEF DownloadMain, FindsTemp, StartSenderFails, EndsSenderInput, StopsSender,
       WaitsForCopy, WaitsForSender, Commits, commitStage, ClosesSender, CleansRecord
  <2>5. CASE DownloadStream \/ DownloadHost
    BY <2>5 DEF DownloadStream, DownloadHost, Copies, CopyEnds, TempEnds, SenderWrites,
       FetchEnds, scriptLeaves
  <2>6. CASE UNCHANGED vars
    BY <2>6 DEF vars
  <2>. QED
    BY <2>1, <2>2, <2>3, <2>4, <2>5, <2>6 DEF Next, Returned
<1>2. [Next]_vars => [dest = "old" /\ ~force => dest' = "old"]_vars
  BY <1>1
<1>. QED
  BY <1>2, SafetyPart, PTL DEF NoClobber

\* A transfer that returns lists in result.Artifacts the stage or the control record
\* that may be on the host, also one that a script still to run would create.
THEOREM LeftoversNamed == Spec => []LeftoversReported
<1>1. IndInv => LeftoversReported
  BY DEF IndInv, FileInv, LeftoversReported
<1>. QED
  BY <1>1, Inductive, PTL

\* An upload reports each Shell of its sessions that it did not see deleted or refused.
THEOREM UploadOrphansTold == Spec => []UploadTellsOrphans
<1>1. IndInv => UploadTellsOrphans
  BY DEF IndInv, ShellInv, InUse, On, UploadTellsOrphans
<1>. QED
  BY <1>1, Inductive, PTL

\* A transfer without an error has closed its sessions and had its file removed.
LEMMA NothingLeftOfInv == IndInv => SuccessLeavesNothing
<1>1. ASSUME IndInv, Report = "done"
      PROVE  file = "none" /\ net = {} /\ \A r \in Roles : shell[r] # "open"
  <2>1. step = "done" /\ err = "none"
    BY <1>1 DEF Report
  <2>2. ~artifact /\ recv[Holder] # "none" /\ body # "error" /\ copy # "failed"
    BY <1>1, <2>1 DEF IndInv, FileInv
  <2>3. file = "none"
    BY <1>1, <2>1, <2>2 DEF IndInv, FileInv
  <2>4. net = {}
    <3>1. x = "idle"
      BY <1>1, <2>1 DEF IndInv, RoleInv, Request
    <3>2. ~Tainted
      BY <2>1, <2>2, <3>1 DEF Tainted
    <3>. QED
      BY <1>1, <3>1, <3>2 DEF IndInv, NetClean
  <2>5. \A r \in Roles : shell[r] # "open"
    BY <1>1, <2>1 DEF IndInv, ShellInv, InUse
  <2>. QED
    BY <2>3, <2>4, <2>5
<1>. QED
  BY <1>1 DEF SuccessLeavesNothing

\* After "done" the host keeps nothing of the transfer, and no request is on its way.
THEOREM NothingLeft == Spec => []SuccessLeavesNothing
BY NothingLeftOfInv, Inductive, PTL

-----------------------------------------------------------------------------
(* The transfer implements Replacement. *)

\* What a step may be for the destination and the report: nothing new for either,
\* somebody else's file, the move, or the end of the transfer.
Keeps    == Report' = Report /\ dest' = dest
Lets     == Report' = Report /\ dest = "none" /\ dest' = "old" /\ UNCHANGED <<file, net, shell>>
MovesIn  == Report' = Report /\ (force \/ dest = "none") /\ dest' = Content
Finishes == step # "done" /\ step' = "done" /\ UNCHANGED <<dest, file, net, shell>>

\* The report depends on the results of the main goroutine.
LEMMA SameReport ==
  ASSUME \/ step # "done" /\ step' # "done"
         \/ UNCHANGED <<step, err, committed>>
  PROVE  Report' = Report
<1>1. CASE step # "done" /\ step' # "done"
  BY Zenon, <1>1 DEF Report
<1>2. CASE UNCHANGED <<step, err, committed>>
  BY <1>2 DEF Report
<1>. QED
  BY <1>1, <1>2

\* An exchange, a loop or the host leaves the destination and the report alone.
LEMMA SessionMoves ==
  ASSUME IndInv, SessionNext
  PROVE  force' = force /\ (Keeps \/ Lets)
<1>. USE DEF callVars, mainVars, hostVars, recvVars, dataVars, fileVars, resultVars
<1>1. CASE Posts
  <2>1. UNCHANGED <<force, dest, step, err, committed>>
    BY <1>1 DEF Posts
  <2>. QED
    BY <2>1, SameReport DEF Keeps
<1>2. CASE Created \/ Commanded \/ CommandFails \/ Exchanged \/ Received
  <2>1. UNCHANGED <<force, dest>> /\ step # "done" /\ step' # "done"
    BY <1>2 DEF Created, Commanded, CommandFails, Exchanged, Received, goto
  <2>. QED
    BY <2>1, SameReport DEF Keeps
<1>3. CASE GivesUp \/ LoopReturns \/ LoopStops \/ LoopFails \/ Host \/ ScriptFails \/ Cleans
           \/ ContextEnds
  <2>1. UNCHANGED <<force, dest, step, err, committed>>
    BY <1>3 DEF GivesUp, LoopReturns, LoopStops, LoopFails, LoopLeaves, Host, ScriptFails, Cleans,
       ContextEnds, scriptLeaves
  <2>. QED
    BY <2>1, SameReport DEF Keeps
<1>4. CASE DestinationAppears
  <2>1. UNCHANGED <<force, step, err, committed, file, net, shell>> /\ dest = "none" /\ dest' = "old"
    BY <1>4 DEF DestinationAppears
  <2>. QED
    BY <2>1, SameReport DEF Lets
<1>. QED
  BY <1>1, <1>2, <1>3, <1>4 DEF SessionNext

\* Of an upload, the finalizer's script moves and the main goroutine ends.
LEMMA UploadMoves ==
  ASSUME IndInv, UploadMain \/ UploadHost
  PROVE  force' = force /\ (Keeps \/ MovesIn \/ Finishes)
<1>. USE DEF callVars, mainVars, hostVars, recvVars, dataVars, fileVars, resultVars
<1>1. CASE UploadMain
  <2>1. UNCHANGED <<force, dest, file, net, shell>>
    BY <1>1 DEF UploadMain, StartReceiverFails, Reads, Sends, SendsEof, Verifies, ClosesReceiver,
       StartFinalizerFails, ClosesFinalizer, CleansStage, uploadLeaves
  <2>2. step # "done"
    BY <1>1 DEF UploadMain, StartReceiverFails, Reads, Sends, SendsEof, Verifies, ClosesReceiver,
       StartFinalizerFails, ClosesFinalizer, CleansStage, StartFails, Closes, CloseFails, Joined
  <2>. QED
    BY <2>1, <2>2, SameReport DEF Keeps, Finishes
<1>2. CASE ReceiverOpens \/ ReceiverEnds \/ FinalizerAcknowledges \/ StageAltered \/ SourceChanges
  <2>1. UNCHANGED <<force, dest, step, err, committed>>
    BY <1>2 DEF ReceiverOpens, ReceiverEnds, FinalizerAcknowledges, StageAltered, SourceChanges,
       scriptLeaves
  <2>. QED
    BY <2>1, SameReport DEF Keeps
<1>3. CASE FinalizerMoves
  <2>1. UNCHANGED <<force, step, err, committed>>
    BY <1>3 DEF FinalizerMoves, scriptLeaves
  <2>2. CASE Moves
    <3>1. force \/ dest = "none"
      BY <2>2 DEF Moves, moveFlags
    <3>2. dest' = Content
      BY <1>3, <2>2 DEF FinalizerMoves
    <3>. QED
      BY <2>1, <3>1, <3>2, SameReport DEF MovesIn
  <2>3. CASE ~Moves
    <3>1. dest' = dest
      BY <1>3, <2>3 DEF FinalizerMoves
    <3>. QED
      BY <2>1, <3>1, SameReport DEF Keeps
  <2>. QED
    BY <2>2, <2>3
<1>. QED
  BY <1>1, <1>2, <1>3 DEF UploadHost

\* Of a download, the main goroutine does both, in two steps.
LEMMA DownloadMoves ==
  ASSUME IndInv, DownloadMain \/ DownloadStream \/ DownloadHost
  PROVE  force' = force /\ (Keeps \/ MovesIn \/ Finishes)
<1>. USE DEF callVars, mainVars, hostVars, recvVars, dataVars, fileVars, resultVars
<1>1. CASE FindsTemp \/ StartSenderFails \/ EndsSenderInput \/ StopsSender \/ WaitsForCopy
           \/ WaitsForSender \/ ClosesSender \/ CleansRecord
  <2>1. UNCHANGED <<force, dest, file, net, shell>>
    BY <1>1 DEF FindsTemp, StartSenderFails, EndsSenderInput, StopsSender, WaitsForCopy,
       WaitsForSender, ClosesSender, CleansRecord, downloadLeaves
  <2>2. step # "done"
    BY <1>1 DEF FindsTemp, StartSenderFails, EndsSenderInput, StopsSender, WaitsForCopy,
       WaitsForSender, ClosesSender, CleansRecord, ControlReturns, StartFails, Closes, CloseFails,
       Joined
  <2>. QED
    BY <2>1, <2>2, SameReport DEF Keeps, Finishes
<1>2. CASE Commits
  <2>1. force' = force /\ step # "done" /\ step' # "done"
    BY <1>2 DEF Commits, downloadFails, ControlReturns, StartFails, Closes, CloseFails, Joined,
       downloadLeaves
  <2>2. dest' = dest \/ (dest' = Content /\ commitStage)
    BY <1>2 DEF Commits
  <2>. QED
    BY <2>1, <2>2, SameReport DEF Keeps, MovesIn, commitStage
<1>3. CASE DownloadStream \/ DownloadHost
  <2>1. UNCHANGED <<force, dest, step, err, committed>>
    BY <1>3 DEF DownloadStream, DownloadHost, Copies, CopyEnds, TempEnds, SenderWrites, FetchEnds,
       scriptLeaves
  <2>. QED
    BY <2>1, SameReport DEF Keeps
<1>. QED
  BY <1>1, <1>2, <1>3 DEF DownloadMain

\* Every step is one of these.
LEMMA TransferMoves ==
  ASSUME IndInv, [Next]_vars
  PROVE  force' = force /\ (Keeps \/ Lets \/ MovesIn \/ Finishes)
<1>1. CASE UNCHANGED vars
  <2>1. UNCHANGED <<force, dest, step, err, committed>>
    BY <1>1 DEF vars, callVars, mainVars, fileVars, resultVars
  <2>. QED
    BY <2>1, SameReport DEF Keeps
<1>. QED
  BY <1>1, SessionMoves, UploadMoves, DownloadMoves DEF Next, Returned

\* What the report says, and what it and the destination can be.
Reported ==
  /\ OutcomeHonest /\ SuccessLeavesNothing
  /\ Report \in {"none", "done", "committed but cleanup failed", "failed",
                 "finalization outcome unknown"}
  /\ Report = "none" <=> step # "done"
  /\ dest \in {"none", "old", "new"}
  /\ Traces \in BOOLEAN

LEMMA ReportedOfInv == IndInv => Reported
<1>. SUFFICES ASSUME IndInv PROVE Reported
  OBVIOUS
<1>1. dest \in {"none", "old", "new"}
  BY DEF IndInv, TransferTypeOK, FileInv
<1>2. Report \in {"none", "done", "committed but cleanup failed", "failed",
                  "finalization outcome unknown"}
  BY Zenon DEF Report
<1>3. Report = "none" <=> step # "done"
  BY Zenon DEF Report
<1>4. Traces \in BOOLEAN
  BY DEF Traces
<1>. QED
  BY <1>1, <1>2, <1>3, <1>4, OutcomeOfInv, NothingLeftOfInv DEF Reported

\* Each of these is a step of Replacement or changes nothing it sees.
LEMMA ExchangeStep ==
  ASSUME IndInv, Reported, Reported', [Next]_vars
  PROVE  [Exchange!Next]_(Exchange!replacement)
<1>. USE DEF Exchange!replacement, Exchange!Next
<1>1. OutcomeHonest /\ OutcomeHonest'
  BY DEF Reported
<1>2. /\ Report = "done" => ~Traces
      /\ Report' = "done" => ~Traces'
  BY DEF Reported, SuccessLeavesNothing, Traces
<1>3. /\ Report \in {"none", "done", "committed but cleanup failed", "failed",
                     "finalization outcome unknown"}
      /\ Report' \in {"none", "done", "committed but cleanup failed", "failed",
                      "finalization outcome unknown"}
      /\ Report = "none" <=> step # "done"
      /\ Report' = "none" <=> step' # "done"
      /\ dest' \in {"none", "old", "new"} /\ Traces \in BOOLEAN /\ Traces' \in BOOLEAN
  BY DEF Reported
<1>4. force' = force
  BY TransferMoves
<1>5. CASE Keeps
  <2>1. CASE Traces' = Traces
    BY <1>4, <1>5, <2>1 DEF Keeps
  <2>2. CASE Traces' # Traces
    <3>1. Traces' = ~Traces
      BY <1>3, <2>2
    <3>2. Report' = Report /\ (Traces \/ Traces')
      BY <1>5, <3>1 DEF Keeps
    <3>3. Report # "done"
      BY <1>2, <3>2
    <3>. QED
      BY <1>4, <1>5, <3>1, <3>3 DEF Keeps, Exchange!Works
  <2>. QED
    BY <2>1, <2>2
<1>6. CASE Lets
  <2>1. Traces' = Traces
    BY <1>6 DEF Lets, Traces
  <2>. QED
    BY <1>4, <1>6, <2>1 DEF Lets, Exchange!Appears
<1>7. CASE MovesIn /\ ~Keeps
  <2>1. dest' = "new" /\ dest # "new" /\ Report' = Report
    BY <1>3, <1>7 DEF MovesIn, Keeps, Content
  <2>2. Report \in {"none", "finalization outcome unknown"}
    BY <1>1, <1>3, <2>1 DEF OutcomeHonest
  <2>. QED
    BY <1>3, <1>4, <1>7, <2>1, <2>2 DEF MovesIn, Exchange!Replaces
<1>8. CASE Finishes
  <2>1. dest' = dest /\ Traces' = Traces
    BY <1>8 DEF Finishes, Traces
  <2>2. Report = "none" /\ Report' # "none"
    BY <1>3, <1>8 DEF Finishes
  <2>3. \/ Report' = "done" /\ dest = "new" /\ ~Traces
        \/ Report' = "committed but cleanup failed" /\ dest = "new"
        \/ Report' = "failed" /\ dest # "new"
        \/ Report' = "finalization outcome unknown"
    BY <1>1, <1>2, <1>3, <2>1, <2>2 DEF OutcomeHonest
  <2>. QED
    BY <1>4, <2>1, <2>2, <2>3 DEF Exchange!Reports
<1>. QED
  BY <1>5, <1>6, <1>7, <1>8, TransferMoves

\* uploadLanes and downloadLanes, with their scripts, exchange one file for another in
\* one step, respect --force, and report what holds from then on, whatever is lost or
\* late.
THEOREM Exchanges == Spec => ImplementsReplacement
<1>1. Init => Exchange!Init
  <2>. SUFFICES ASSUME Init PROVE Exchange!Init
    OBVIOUS
  <2>1. force \in BOOLEAN /\ dest \in {"none", "old"} /\ step # "done"
    BY DEF Init, SessionInit
  <2>2. Traces = FALSE
    BY DEF Init, SessionInit, Traces
  <2>3. Report = "none"
    BY <2>1 DEF Report
  <2>. QED
    BY <2>1, <2>2, <2>3 DEF Exchange!Init
<1>2. IndInv /\ Reported /\ Reported' /\ [Next]_vars => [Exchange!Next]_(Exchange!replacement)
  BY ExchangeStep
<1>. QED
  BY <1>1, <1>2, ReportedOfInv, Inductive, SafetyPart, PTL DEF ImplementsReplacement, Exchange!Spec

=============================================================================
