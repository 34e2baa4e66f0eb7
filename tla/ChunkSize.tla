------------------------------- MODULE ChunkSize -------------------------------
(***************************************************************************)
(* The binary search for the largest chunk of an upload whose SendInput    *)
(* request fits the envelope (chunkSize, internal/remote/transfer_codec.go *)
(* and its builder in upload.go). The length of the request is a function  *)
(* that does not decrease with the chunk: Base64, twice, and the fixed     *)
(* text around it.                                                         *)
(***************************************************************************)
EXTENDS Integers

CONSTANTS
  MaxEnvelope, \* the longest request that fits, in bytes: 153600 in the code
  MaxLength    \* bound: the longest request

ASSUME EnvelopeAssumption == MaxEnvelope \in Nat \ {0} /\ MaxLength \in Nat

Sizes == 1..MaxEnvelope

VARIABLES
  length, \* the length of the request for a chunk of n bytes
  lo, hi, \* the bounds of the search
  search  \* "probe", "run", "found" or "error"

chunkVars == <<length, lo, hi, search>>

\* The requests a builder may make.
Builders ==
  {f \in [Sizes -> 0..MaxLength] : \A m, n \in Sizes : m <= n => f[m] <= f[n]}

-----------------------------------------------------------------------------
(* Faulty variants of definitions below; each property must reject one. *)

middleLow == (lo + hi) \div 2
excludeMiddle == hi' = (lo + hi + 1) \div 2 - 2

-----------------------------------------------------------------------------
\* One byte must fit; otherwise no chunk can be used.
probesOne ==
  /\ search = "probe"
  /\ search' = IF length[1] <= MaxEnvelope THEN "run" ELSE "error"
  /\ UNCHANGED <<length, lo, hi>>

middle == (lo + hi + 1) \div 2

\* The middle is too long.
excludes == hi' = middle - 1

halves ==
  /\ search = "run" /\ lo < hi
  /\ \/ length[middle] <= MaxEnvelope /\ lo' = middle /\ hi' = hi
     \/ length[middle] > MaxEnvelope /\ excludes /\ lo' = lo
  /\ UNCHANGED <<length, search>>

finds ==
  /\ search = "run" /\ lo >= hi
  /\ search' = "found"
  /\ UNCHANGED <<length, lo, hi>>

ChunkInit ==
  /\ length \in Builders
  /\ lo = 1 /\ hi = MaxEnvelope /\ search = "probe"

ChunkNext == probesOne \/ halves \/ finds

ChunkSpec == ChunkInit /\ [][ChunkNext]_chunkVars

-----------------------------------------------------------------------------
(* Properties. *)

\* The result is the largest chunk whose request fits, and there is an error only
\* when not even one byte does.
LargestFits ==
  /\ search = "found" =>
       /\ lo \in Sizes /\ length[lo] <= MaxEnvelope
       /\ \A n \in Sizes : n > lo => length[n] > MaxEnvelope
  /\ search = "error" => \A n \in Sizes : length[n] > MaxEnvelope
==============================================================================
