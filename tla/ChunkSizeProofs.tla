--------------------------- MODULE ChunkSizeProofs ---------------------------
(***************************************************************************)
(* chunkSize finds the largest chunk that fits, for every envelope and for *)
(* every request length that grows with the chunk.                         *)
(***************************************************************************)
EXTENDS ChunkSize, TLAPS

Fits(n) == length[n] <= MaxEnvelope

\* Nothing above hi fits and, once one byte is known to fit, lo does.
ChunkInv ==
  /\ length \in [Sizes -> Int] /\ \A m, n \in Sizes : m <= n => length[m] <= length[n]
  /\ lo \in Sizes /\ hi \in Sizes /\ lo <= hi
  /\ search \in {"probe", "run", "found", "error"}
  /\ \A n \in Sizes : n > hi => ~Fits(n)
  /\ search = "probe" => lo = 1
  /\ search \in {"run", "found"} => Fits(lo)
  /\ search = "found" => lo = hi
  /\ search = "error" => ~Fits(1)

\* The middle of two different bounds lies above the lower one and not above the upper:
\* the search goes on.
LEMMA MiddleFacts ==
  ASSUME lo \in Nat, hi \in Nat, lo < hi
  PROVE  middle \in Nat /\ lo < middle /\ middle <= hi
BY DEF middle

LEMMA ChunkInvInit == ChunkInit => ChunkInv
<1> SUFFICES ASSUME ChunkInit PROVE ChunkInv
  OBVIOUS
<1>1. length \in [Sizes -> Int] /\ \A m, n \in Sizes : m <= n => length[m] <= length[n]
  BY EnvelopeAssumption DEF ChunkInit, Builders
<1>. QED
  BY <1>1, EnvelopeAssumption DEF ChunkInit, ChunkInv, Sizes

LEMMA ChunkInvStep == ChunkInv /\ [ChunkNext]_chunkVars => ChunkInv'
<1> SUFFICES ASSUME ChunkInv, [ChunkNext]_chunkVars
             PROVE  ChunkInv'
  OBVIOUS
<1>. Sizes \subseteq Nat /\ 1 \in Sizes
  BY EnvelopeAssumption DEF Sizes
<1>1. CASE probesOne
  <2>1. search = "probe" /\ length' = length /\ lo' = lo /\ hi' = hi
    BY <1>1 DEF probesOne
  <2>2. CASE Fits(1)
    <3>1. search' = "run"
      BY <1>1, <2>2 DEF probesOne, Fits
    <3>. QED
      BY <2>1, <2>2, <3>1, <1>1 DEF ChunkInv, Fits
  <2>3. CASE ~Fits(1)
    <3>1. search' = "error"
      BY <1>1, <2>3 DEF probesOne, Fits
    <3>. QED
      BY <2>1, <2>3, <3>1 DEF ChunkInv, Fits
  <2>. QED
    BY <2>2, <2>3
<1>2. CASE halves
  <2>1. /\ search = "run" /\ search' = search /\ length' = length
        /\ lo \in Nat /\ hi \in Nat /\ lo < hi /\ hi <= MaxEnvelope
    BY <1>2, EnvelopeAssumption DEF halves, ChunkInv, Sizes
  <2>2. middle \in Nat /\ lo < middle /\ middle <= hi /\ middle \in Sizes
    BY <2>1, MiddleFacts, EnvelopeAssumption DEF ChunkInv, Sizes
  <2>. HIDE DEF middle
  <2>3. CASE Fits(middle) /\ lo' = middle /\ hi' = hi
    BY <2>1, <2>2, <2>3 DEF ChunkInv, Fits
  <2>4. CASE ~Fits(middle) /\ hi' = middle - 1 /\ lo' = lo
    <3>1. middle - 1 \in Sizes /\ lo <= middle - 1
      BY <2>1, <2>2, EnvelopeAssumption DEF Sizes, ChunkInv
    <3>2. ASSUME NEW n \in Sizes, n > middle - 1 PROVE ~Fits(n)
      <4>1. middle <= n
        BY <2>2, <3>2
      <4>2. length[middle] <= length[n] /\ length[middle] \in Int /\ length[n] \in Int
        BY <2>2, <4>1 DEF ChunkInv
      <4>. QED
        BY <2>4, <4>2, EnvelopeAssumption DEF Fits
    <3>. QED
      BY <2>1, <2>4, <3>1, <3>2 DEF ChunkInv, Fits
  <2>. QED
    BY <1>2, <2>3, <2>4, <2>2, EnvelopeAssumption DEF halves, excludes, Fits, ChunkInv
<1>3. CASE finds
  BY <1>3, EnvelopeAssumption DEF finds, ChunkInv, Fits, Sizes
<1>4. CASE UNCHANGED chunkVars
  BY <1>4 DEF chunkVars, ChunkInv, Fits
<1>. QED
  BY <1>1, <1>2, <1>3, <1>4 DEF ChunkNext

\* The chunk that is used is the largest that fits the envelope, and there is an error
\* only if no chunk fits.
THEOREM ChunkIsLargest == ChunkSpec => []LargestFits
<1>1. ChunkInv => LargestFits
  <2> SUFFICES ASSUME ChunkInv PROVE LargestFits
    OBVIOUS
  <2>1. search = "error" => \A n \in Sizes : length[n] > MaxEnvelope
    <3> SUFFICES ASSUME search = "error", NEW n \in Sizes PROVE length[n] > MaxEnvelope
      OBVIOUS
    <3>1. 1 \in Sizes /\ 1 <= n
      BY EnvelopeAssumption DEF Sizes
    <3>2. length[1] <= length[n] /\ length[1] \in Int /\ length[n] \in Int
      BY <3>1 DEF ChunkInv
    <3>. QED
      BY <3>2, EnvelopeAssumption DEF ChunkInv, Fits
  <2>2. ASSUME NEW n \in Sizes, ~Fits(n) PROVE length[n] > MaxEnvelope
    BY <2>2, EnvelopeAssumption DEF ChunkInv, Fits
  <2>. QED
    BY <2>1, <2>2 DEF ChunkInv, LargestFits, Fits
<1>2. ChunkSpec => []ChunkInv
  BY ChunkInvInit, ChunkInvStep, PTL DEF ChunkSpec
<1>. QED
  BY <1>1, <1>2, PTL
==============================================================================
