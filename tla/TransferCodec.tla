----------------------------- MODULE TransferCodec -----------------------------
(***************************************************************************)
(* The two algorithms of internal/remote/transfer_codec.go side by side: a *)
(* behaviour is one search for the chunk size of an upload, or the framing *)
(* of one download; the other algorithm is not run.                        *)
(***************************************************************************)
EXTENDS ChunkSize, LineScanner

ChunkIdle == length = [n \in Sizes |-> 0] /\ lo = 1 /\ hi = 1 /\ search = "idle"
LineIdle  == stream = << >> /\ arrived = 0 /\ eof = TRUE /\ data = << >> /\ lines = << >> /\ scan = "idle"

Init ==
  \/ ChunkInit /\ LineIdle
  \/ ChunkIdle /\ LineInit

Next ==
  \/ ChunkNext /\ UNCHANGED lineVars
  \/ LineNext /\ UNCHANGED chunkVars

\* The loops go on.
Spec ==
  /\ Init /\ [][Next]_<<chunkVars, lineVars>>
  /\ WF_chunkVars(ChunkNext) /\ WF_lineVars(LineNext)

\* Both loops end, the search also when two sizes are left, the framing also when a
\* piece of the stream fills the buffer.
LoopsEnd == <>(search \notin {"probe", "run"} /\ scan # "run")
==============================================================================
