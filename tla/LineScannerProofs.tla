--------------------------- MODULE LineScannerProofs ---------------------------
(***************************************************************************)
(* The framing of a download accepts exactly the well-formed streams,      *)
(* however they are cut into reads, for every limit of the lines and every *)
(* length of the stream.                                                   *)
(***************************************************************************)
EXTENDS LineScanner, SequenceTheorems, WellFoundedInduction, TLAPS

\* The bytes that the tokens have taken.
taken == arrived - Len(data)

LineTypeOK ==
  /\ stream \in Seq(Bytes) /\ data \in Seq(Bytes)
  /\ arrived \in 0..Len(stream) /\ Len(data) <= arrived
  /\ eof \in BOOLEAN /\ scan \in {"run", "done", "error"}

\* A CR of the stream with its LF.
Crlf(i) == i \in 1..Len(stream) /\ stream[i] = "r" /\ i < Len(stream) /\ stream[i + 1] = "n"

\* The buffer is what was read and not taken; and what was taken ends a line.
BufferInv ==
  /\ \A i \in 1..Len(data) : data[i] = stream[taken + i]
  /\ eof => arrived = Len(stream)
  /\ taken = 0 \/ (taken >= 2 /\ Crlf(taken - 1))

\* What was taken are whole lines, none too long.
TakenInv ==
  /\ \A i \in 1..taken : stream[i] = "r" => Crlf(i) /\ i < taken
  /\ \A i \in 0..taken - 1 : i = 0 \/ Crlf(i - 1) =>
       \E cr \in 1..taken : Crlf(cr) /\ cr > i /\ cr - i - 1 <= MaxLine

\* The invariant; the last conjunct is the property.
LineInv == LineTypeOK /\ BufferInv /\ TakenInv /\ CutsDoNotMatter

-----------------------------------------------------------------------------
(* Lemmas about positions. *)

\* A set of positions has a first one.
LEMMA MinFacts ==
  ASSUME NEW S \in SUBSET Nat, S # {}
  PROVE  Min(S) \in S /\ \A y \in S : Min(S) <= y
<1>. DEFINE R == OpToRel(<, Nat)
<1>4. \A n, k \in Nat : n < k => <<n, k>> \in R
  BY DEF OpToRel
<1>5. IsWellFoundedOn(R, Nat)
  BY NatLessThanWellFounded
<1>. HIDE DEF R
<1>1. PICK m \in S : \A y \in S : ~(<<y, m>> \in R)
  BY <1>5, WFMin
<1>2. ASSUME NEW y \in S
      PROVE  m <= y
  <2>1. m \in Nat /\ y \in Nat
    OBVIOUS
  <2>2. ~(y < m)
    BY <1>1, <1>4, <2>1
  <2>. QED
    BY <2>1, <2>2
<1>3. \E n \in S : \A y \in S : n <= y
  BY <1>2
<1>. QED
  BY <1>3 DEF Min

\* What the specification calls well-formed, position by position.
LEMMA WellFormedFacts ==
  ASSUME LineTypeOK
  PROVE  WellFormed(stream) <=>
           /\ \A i \in 1..Len(stream) : stream[i] = "r" => Crlf(i)
           /\ Len(stream) > 0 => Crlf(Len(stream) - 1)
           /\ \A i \in 0..Len(stream) : i = 0 \/ Crlf(i - 1) =>
                \/ i = Len(stream)
                \/ \E cr \in 1..Len(stream) : Crlf(cr) /\ cr > i /\ cr - i - 1 <= MaxLine
<1>. DEFINE crlfs == {i \in 1..Len(stream) :
                       stream[i] = "r" /\ i < Len(stream) /\ stream[i + 1] = "n"}
<1>1. \A i : i \in crlfs <=> Crlf(i)
  BY DEF Crlf
<1>2. WellFormed(stream) <=>
        /\ \A i \in 1..Len(stream) : stream[i] = "r" => i \in crlfs
        /\ Len(stream) > 0 => Len(stream) - 1 \in crlfs
        /\ \A i \in 0..Len(stream) : (i = 0 \/ i - 1 \in crlfs) =>
             i = Len(stream) \/ \E cr \in crlfs : cr > i /\ cr - i - 1 <= MaxLine
  BY Zenon DEF WellFormed
<1>. HIDE DEF crlfs
<1>3. \A cr : Crlf(cr) => cr \in 1..Len(stream)
  BY DEF Crlf
<1>. QED
  BY <1>1, <1>2, <1>3

\* Nothing is read at first.
LEMMA LineInit0 == LineInit => LineInv
<1>. SUFFICES ASSUME LineInit PROVE LineInv
  OBVIOUS
<1>1. PICK n \in 0..MaxStream : stream \in [1..n -> Bytes]
  BY DEF LineInit
<1>2. stream \in Seq(Bytes) /\ Len(stream) \in Nat
  BY <1>1, LineAssumption
<1>3. /\ Len(data) = 0 /\ data \in Seq(Bytes)
      /\ arrived = 0 /\ eof = FALSE /\ scan = "run"
  BY DEF LineInit
<1>4. taken = 0
  BY <1>3 DEF taken
<1>5. LineTypeOK
  <2>1. arrived \in 0..Len(stream) /\ Len(data) <= arrived
    BY <1>2, <1>3
  <2>2. eof \in BOOLEAN /\ scan \in {"run", "done", "error"}
    BY <1>3
  <2>. QED
    BY <1>2, <1>3, <2>1, <2>2 DEF LineTypeOK
<1>6. BufferInv /\ TakenInv
  BY <1>2, <1>3, <1>4 DEF BufferInv, TakenInv
<1>. QED
  BY <1>3, <1>5, <1>6 DEF LineInv, CutsDoNotMatter

\* A read extends the buffer and takes nothing.
LEMMA ReadsStep == ASSUME LineInv, reads PROVE LineInv'
<1>. USE DEF LineInv, LineTypeOK, reads
<1>0. bufferSize - Len(data) \in Int /\ MaxLine \in Nat
  BY LineAssumption DEF bufferSize
<1>1. CASE arrived = Len(stream) /\ eof' = TRUE /\ UNCHANGED <<arrived, data>>
  BY <1>1 DEF BufferInv, TakenInv, CutsDoNotMatter, taken, Crlf
<1>2. ASSUME NEW n \in 1..(bufferSize - Len(data)),
             arrived + n <= Len(stream), arrived' = arrived + n, eof' = eof,
             data' = data \o SubSeq(stream, arrived + 1, arrived + n)
      PROVE  LineInv'
  <2>. DEFINE new == SubSeq(stream, arrived + 1, arrived + n)
  <2>1. n \in Nat /\ n >= 1
    BY <1>0
  <2>2. new \in Seq(Bytes) /\ Len(new) = n /\ \A i \in 1..n : new[i] = stream[arrived + i]
    BY <1>2, <2>1
  <2>3. data' \in Seq(Bytes) /\ Len(data') = Len(data) + n /\ taken' = taken
    <3>1. data' \in Seq(Bytes) /\ Len(data') = Len(data) + n
      BY <1>2, <2>2, ConcatProperties
    <3>. QED
      BY <1>2, <2>1, <3>1 DEF taken
  <2>4. ASSUME NEW i \in 1..Len(data')
        PROVE  data'[i] = stream[taken + i]
    <3>1. data'[i] = IF i <= Len(data) THEN data[i] ELSE new[i - Len(data)]
      BY <1>2, <2>2, <2>3
    <3>2. CASE i <= Len(data)
      BY <3>1, <3>2 DEF BufferInv
    <3>3. CASE i > Len(data)
      <4>1. i - Len(data) \in 1..n
        BY <2>3, <3>3
      <4>. QED
        BY <2>2, <3>1, <3>3, <4>1 DEF taken
    <3>. QED
      BY <2>3, <3>2, <3>3
  <2>5. LineTypeOK'
    BY <1>2, <2>1, <2>3
  <2>6. BufferInv' /\ TakenInv'
    BY <1>2, <2>3, <2>4 DEF BufferInv, TakenInv, Crlf
  <2>. QED
    BY <2>5, <2>6 DEF CutsDoNotMatter
<1>. QED
  BY <1>1, <1>2

\* The first CR of the buffer, in the stream.
LEMMA FirstCR ==
  ASSUME LineInv, CRs # {}
  PROVE  /\ Min(CRs) \in 1..Len(data) /\ stream[taken + Min(CRs)] = "r"
         /\ \A i \in taken + 1..taken + Min(CRs) - 1 : stream[i] # "r"
<1>1. CRs \in SUBSET Nat
  BY DEF CRs
<1>2. Min(CRs) \in CRs /\ \A y \in CRs : Min(CRs) <= y
  BY <1>1, MinFacts
<1>3. taken \in Nat /\ Len(data) \in Nat
  BY DEF LineInv, LineTypeOK, taken
<1>4. Min(CRs) \in 1..Len(data) /\ stream[taken + Min(CRs)] = "r"
  BY <1>2 DEF CRs, LineInv, BufferInv
<1>5. ASSUME NEW i \in taken + 1..taken + Min(CRs) - 1
      PROVE  stream[i] # "r"
  <2>1. i - taken \in 1..Len(data) /\ i - taken < Min(CRs) /\ taken + (i - taken) = i
    BY <1>3, <1>4
  <2>2. data[i - taken] # "r"
    BY <1>2, <2>1 DEF CRs
  <2>. QED
    BY <2>1, <2>2 DEF LineInv, BufferInv
<1>. QED
  BY <1>4, <1>5

\* A line is taken whole, with its CRLF.
LEMMA EmitsStep == ASSUME LineInv, emits PROVE LineInv'
<1>. DEFINE cr == Min(CRs)
<1>. DEFINE t == taken
<1>0. MaxLine \in Nat
  BY LineAssumption
<1>1. /\ t \in Nat /\ Len(data) \in Nat /\ Len(stream) \in Nat
      /\ t + Len(data) = arrived /\ arrived <= Len(stream) /\ arrived \in Nat
  BY DEF LineInv, LineTypeOK, taken
<1>2. CRs # {} /\ cr < Len(data) /\ data[cr + 1] = "n" /\ cr - 1 <= MaxLine
  BY DEF emits, outcome
<1>3. /\ cr \in 1..Len(data) /\ stream[t + cr] = "r"
      /\ \A i \in t + 1..t + cr - 1 : stream[i] # "r"
  BY <1>2, FirstCR
<1>4. data' = SubSeq(data, cr + 2, Len(data)) /\ UNCHANGED <<stream, arrived, eof, scan>>
  <2>1. data' = SubSeq(data, (cr + 1) + 1, Len(data)) /\ UNCHANGED <<stream, arrived, eof, scan>>
    BY DEF emits, consumed
  <2>. HIDE DEF cr
  <2>2. (cr + 1) + 1 = cr + 2
    BY <1>3
  <2>. QED
    BY <2>1, <2>2
<1>. HIDE DEF cr, t
<1>5. /\ data' \in Seq(Bytes) /\ Len(data') = Len(data) - (cr + 1)
      /\ \A i \in 1..Len(data') : data'[i] = data[cr + 1 + i]
  <2>1. data \in Seq(Bytes) /\ cr + 2 \in 1..Len(data) + 1
    BY <1>1, <1>2, <1>3 DEF LineInv, LineTypeOK
  <2>2. data' \in Seq(Bytes)
    BY <1>1, <1>4, <2>1, SubSeqProperties
  <2>3. Len(data') = Len(data) - (cr + 1)
    BY <1>1, <1>2, <1>3, <1>4, <2>1, SubSeqProperties
  <2>4. ASSUME NEW i \in 1..Len(data')
        PROVE  data'[i] = data[cr + 1 + i]
    <3>1. i \in 1..Len(data) - (cr + 2) + 1
      BY <1>1, <1>3, <2>3
    <3>2. data'[i] = data[cr + 2 + i - 1]
      BY <1>1, <1>4, <2>1, <3>1, SubSeqProperties
    <3>. QED
      BY <1>1, <1>3, <3>1, <3>2
  <2>. QED
    BY <2>2, <2>3, <2>4
<1>6. taken' = t + cr + 1
  <2>1. taken' = arrived - (Len(data) - (cr + 1))
    BY <1>4, <1>5 DEF taken
  <2>. QED
    BY <1>1, <1>3, <2>1
<1>7. LineTypeOK'
  BY <1>1, <1>2, <1>3, <1>4, <1>5 DEF LineInv, LineTypeOK
<1>8. stream[t + cr + 1] = "n" /\ Crlf(t + cr)
  <2>1. data[cr + 1] = stream[t + (cr + 1)]
    <3>1. cr + 1 \in 1..Len(data)
      BY <1>1, <1>2, <1>3
    <3>. QED
      BY <3>1 DEF LineInv, BufferInv, t
  <2>2. t + cr \in 1..Len(stream) /\ t + cr < Len(stream) /\ t + (cr + 1) = t + cr + 1
    BY <1>1, <1>2, <1>3
  <2>. QED
    BY <1>2, <1>3, <2>1, <2>2 DEF Crlf
<1>9. BufferInv'
  <2>1. ASSUME NEW i \in 1..Len(data')
        PROVE  data'[i] = stream[taken' + i]
    <3>1. cr + 1 + i \in 1..Len(data)
      BY <1>1, <1>2, <1>3, <1>5
    <3>2. data[cr + 1 + i] = stream[t + (cr + 1 + i)]
      BY <3>1 DEF LineInv, BufferInv, t
    <3>3. t + (cr + 1 + i) = taken' + i
      BY <1>1, <1>3, <1>6
    <3>. QED
      BY <1>5, <3>2, <3>3
  <2>2. taken' >= 2 /\ Crlf(taken' - 1)
    BY <1>1, <1>3, <1>6, <1>8
  <2>. QED
    BY <1>4, <2>1, <2>2 DEF LineInv, BufferInv, Crlf
<1>10. TakenInv'
  <2>1. ASSUME NEW i \in 1..taken', stream[i] = "r"
        PROVE  Crlf(i) /\ i < taken'
    <3>1. CASE i <= t
      BY <1>1, <1>3, <1>6, <2>1, <3>1 DEF LineInv, TakenInv, t
    <3>2. CASE i > t
      <4>1. i = t + cr
        BY <1>1, <1>3, <1>6, <1>8, <2>1, <3>2
      <4>. QED
        BY <1>1, <1>3, <1>6, <1>8, <4>1
    <3>. QED
      BY <1>1, <1>3, <1>6, <3>1, <3>2
  <2>2. ASSUME NEW i \in 0..taken' - 1, i = 0 \/ Crlf(i - 1)
        PROVE  \E c \in 1..taken' : Crlf(c) /\ c > i /\ c - i - 1 <= MaxLine
    <3>1. CASE i < t
      <4>1. PICK c \in 1..t : Crlf(c) /\ c > i /\ c - i - 1 <= MaxLine
        BY <1>1, <1>6, <2>2, <3>1 DEF LineInv, TakenInv, t
      <4>. QED
        BY <1>1, <1>3, <1>6, <4>1
    <3>2. CASE i = t
      BY <1>0, <1>1, <1>2, <1>3, <1>6, <1>8, <3>2
    <3>3. CASE i > t
      <4>1. i - 1 \in 1..Len(stream) /\ stream[i - 1] = "r"
        BY <1>1, <2>2, <3>3 DEF Crlf
      <4>2. i - 1 = t
        BY <1>1, <1>3, <1>6, <3>3, <4>1
      <4>. QED
        BY <1>1, <4>1, <4>2 DEF LineInv, TakenInv, t
    <3>. QED
      BY <1>1, <1>6, <3>1, <3>2, <3>3
  <2>. QED
    BY <1>4, <2>1, <2>2 DEF TakenInv, Crlf
<1>. QED
  BY <1>4, <1>7, <1>9, <1>10 DEF LineInv, CutsDoNotMatter, emits

\* A stream with no CR where the line that begins at the buffer must have one is not
\* well-formed.
LEMMA LineTooLong ==
  ASSUME LineInv, NEW n \in 0..Len(data), n > MaxLine,
         \A i \in taken + 1..taken + n : stream[i] # "r"
  PROVE  ~WellFormed(stream)
<1>. DEFINE t == taken
<1>1. /\ MaxLine \in Nat /\ t \in Nat /\ Len(stream) \in Nat /\ Len(data) \in Nat
      /\ t + Len(data) = arrived /\ arrived <= Len(stream) /\ arrived \in Nat
  BY LineAssumption DEF LineInv, LineTypeOK, taken
<1>2. t = 0 \/ Crlf(t - 1)
  BY DEF LineInv, BufferInv
<1>3. \A i \in t + 1..t + n : stream[i] # "r"
  OBVIOUS
<1>. HIDE DEF t
<1>4. t \in 0..Len(stream) /\ t # Len(stream)
  BY <1>1
<1>5. SUFFICES ASSUME WellFormed(stream) PROVE FALSE
  OBVIOUS
<1>6. PICK c \in 1..Len(stream) : Crlf(c) /\ c > t /\ c - t - 1 <= MaxLine
  BY <1>2, <1>4, <1>5, WellFormedFacts DEF LineInv
<1>7. c \in t + 1..t + n
  BY <1>1, <1>6
<1>. QED
  BY <1>3, <1>6, <1>7 DEF Crlf

\* The end is reported at the end of a well-formed stream, an error in any other.
LEMMA EndsStep == ASSUME LineInv, ends PROVE LineInv'
<1>. DEFINE t == taken
<1>1. /\ MaxLine \in Nat /\ t \in Nat /\ Len(stream) \in Nat /\ Len(data) \in Nat
      /\ t + Len(data) = arrived /\ arrived <= Len(stream) /\ arrived \in Nat
  BY LineAssumption DEF LineInv, LineTypeOK, taken
<1>2. eof => t + Len(data) = Len(stream)
  BY <1>1 DEF LineInv, BufferInv
<1>3. ~Crlf(t)
  BY <1>1 DEF LineInv, TakenInv, Crlf
<1>4. CRs = {} => \A i \in t + 1..t + Len(data) : stream[i] # "r"
  <2>1. ASSUME CRs = {}, NEW i \in t + 1..t + Len(data)
        PROVE  stream[i] # "r"
    <3>1. i - t \in 1..Len(data) /\ t + (i - t) = i
      BY <1>1
    <3>2. data[i - t] # "r"
      BY <2>1, <3>1 DEF CRs
    <3>. QED
      BY <3>1, <3>2 DEF LineInv, BufferInv
  <2>. QED
    BY <2>1
<1>5. WellFormed(stream) <=>
        /\ \A i \in 1..Len(stream) : stream[i] = "r" => Crlf(i)
        /\ Len(stream) > 0 => Crlf(Len(stream) - 1)
        /\ \A i \in 0..Len(stream) : i = 0 \/ Crlf(i - 1) =>
             \/ i = Len(stream)
             \/ \E cr \in 1..Len(stream) : Crlf(cr) /\ cr > i /\ cr - i - 1 <= MaxLine
  BY WellFormedFacts DEF LineInv
<1>6. CASE outcome = "end"
  <2>1. eof /\ Len(data) = 0
    BY <1>6 DEF outcome
  <2>2. t = Len(stream)
    BY <1>1, <1>2, <2>1
  <2>3. \A i \in 1..Len(stream) : stream[i] = "r" => Crlf(i)
    BY <2>2 DEF LineInv, TakenInv
  <2>4. Len(stream) > 0 => Crlf(Len(stream) - 1)
    BY <2>2 DEF LineInv, BufferInv
  <2>5. ASSUME NEW i \in 0..Len(stream), i = 0 \/ Crlf(i - 1), i # Len(stream)
        PROVE  \E cr \in 1..Len(stream) : Crlf(cr) /\ cr > i /\ cr - i - 1 <= MaxLine
    <3>1. i \in 0..t - 1
      BY <1>1, <2>2, <2>5
    <3>. QED
      BY <2>2, <2>5, <3>1 DEF LineInv, TakenInv
  <2>. HIDE DEF t
  <2>6. WellFormed(stream)
    BY <1>5, <2>3, <2>4, <2>5
  <2>7. scan' = "done"
    BY <1>6 DEF ends
  <2>. QED
    BY <2>6, <2>7 DEF ends, LineInv, LineTypeOK, BufferInv, TakenInv, CutsDoNotMatter, taken, Crlf
<1>7. CASE outcome = "error" \/ (outcome = "more" /\ Len(data) >= bufferSize)
  <2>1. ~WellFormed(stream)
    <3>. DEFINE cr == Min(CRs)
    <3>1. CASE CRs # {}
      <4>1. /\ cr \in 1..Len(data) /\ stream[t + cr] = "r"
            /\ \A i \in t + 1..t + cr - 1 : stream[i] # "r"
        BY <3>1, FirstCR
      <4>2. \/ cr = Len(data) /\ (eof \/ Len(data) >= MaxLine + 2)
            \/ cr < Len(data) /\ data[cr + 1] # "n"
            \/ cr < Len(data) /\ cr - 1 > MaxLine
        BY <1>1, <1>7, <3>1, <4>1 DEF outcome, bufferSize
      <4>3. t + cr \in 1..Len(stream)
        BY <1>1, <4>1
      <4>4. CASE cr = Len(data) /\ eof
        <5>1. ~Crlf(t + cr)
          BY <1>2, <4>4 DEF Crlf
        <5>. QED
          BY <1>5, <4>1, <4>3, <5>1
      <4>5. CASE cr < Len(data) /\ data[cr + 1] # "n"
        <5>1. data[cr + 1] = stream[t + (cr + 1)]
          <6>1. cr + 1 \in 1..Len(data)
            BY <1>1, <4>1, <4>5
          <6>. QED
            BY <6>1 DEF LineInv, BufferInv
        <5>2. t + (cr + 1) = (t + cr) + 1
          BY <1>1, <4>1
        <5>. QED
          BY <1>5, <4>1, <4>3, <4>5, <5>1, <5>2 DEF Crlf
      <4>6. CASE cr - 1 > MaxLine
        <5>1. cr - 1 \in 0..Len(data) /\ t + (cr - 1) = t + cr - 1
          BY <1>1, <4>1
        <5>. QED
          BY <4>1, <4>6, <5>1, LineTooLong
      <4>. QED
        BY <1>1, <4>1, <4>2, <4>4, <4>5, <4>6
    <3>2. CASE CRs = {}
      <4>1. \/ eof /\ data # << >>
            \/ Len(data) > MaxLine
        BY <1>1, <1>7, <3>2 DEF outcome, bufferSize
      <4>2. CASE eof /\ data # << >>
        <5>1. Len(data) > 0
          BY <4>2, EmptySeq DEF LineInv, LineTypeOK
        <5>2. Len(stream) - 1 = t \/ Len(stream) - 1 \in t + 1..t + Len(data)
          BY <1>1, <1>2, <4>2, <5>1
        <5>3. ~Crlf(Len(stream) - 1)
          BY <1>3, <1>4, <3>2, <5>2 DEF Crlf
        <5>. QED
          BY <1>1, <1>2, <1>5, <4>2, <5>1, <5>3
      <4>3. CASE Len(data) > MaxLine
        BY <1>1, <1>4, <3>2, <4>3, LineTooLong
      <4>. QED
        BY <4>1, <4>2, <4>3
    <3>. QED
      BY <3>1, <3>2
  <2>2. scan' = "error"
    BY <1>7 DEF ends
  <2>. QED
    BY <2>1, <2>2 DEF ends, LineInv, LineTypeOK, BufferInv, TakenInv, CutsDoNotMatter, taken, Crlf
<1>. QED
  BY <1>6, <1>7 DEF ends

-----------------------------------------------------------------------------
(* The theorem. *)

\* Every step of the scanner keeps the invariant.
LEMMA LineStutter == ASSUME LineInv, UNCHANGED lineVars PROVE LineInv'
BY DEF lineVars, LineInv, LineTypeOK, BufferInv, TakenInv, CutsDoNotMatter, taken, Crlf

LEMMA LineStep == LineInv /\ [LineNext]_lineVars => LineInv'
BY EmitsStep, EndsStep, ReadsStep, LineStutter DEF LineNext

\* copyBase64Lines accepts a stream exactly if each of its lines is ended by CRLF, has
\* no other CR and is at most MaxLine long, wherever the reads cut it.
THEOREM FramingExact == LineInit /\ [][LineNext]_lineVars => []CutsDoNotMatter
<1>1. LineInv => CutsDoNotMatter
  BY DEF LineInv
<1>. QED
  BY <1>1, LineInit0, LineStep, PTL

-----------------------------------------------------------------------------
(* The lines. *)

\* The stream is cut at some positions, and line k is what lies between cut k - 1 and
\* cut k, without the CRLF.
LinesCut ==
  \E cut \in [0..Len(lines) -> 0..taken] :
    /\ cut[0] = 0 /\ cut[Len(lines)] = taken
    /\ \A k \in 1..Len(lines) :
         /\ cut[k] = cut[k - 1] + Len(lines[k]) + 2
         /\ stream[cut[k] - 1] = "r" /\ stream[cut[k]] = "n"
         /\ \A i \in 1..Len(lines[k]) : lines[k][i] = stream[cut[k - 1] + i]

LinesInv == LineInv /\ lines \in Seq(Seq(Bytes)) /\ LinesCut

\* A step that hands out no line takes nothing from the buffer.
LEMMA LinesKept ==
  ASSUME LinesInv, [ends \/ reads]_lineVars
  PROVE  LinesInv'
<1>1. LineInv'
  BY EndsStep, ReadsStep, LineStutter DEF LinesInv
<1>2. UNCHANGED <<stream, lines>>
  BY DEF ends, reads, lineVars
<1>3. taken' = taken
  <2>1. CASE reads
    <3>1. /\ MaxLine \in Nat /\ arrived \in Nat /\ Len(data) \in Nat
          /\ stream \in Seq(Bytes) /\ data \in Seq(Bytes)
      BY LineAssumption DEF LinesInv, LineInv, LineTypeOK
    <3>2. CASE UNCHANGED <<arrived, data>>
      BY <3>2 DEF taken
    <3>3. ASSUME NEW n \in 1..(bufferSize - Len(data)),
                 arrived + n <= Len(stream), arrived' = arrived + n,
                 data' = data \o SubSeq(stream, arrived + 1, arrived + n)
          PROVE  taken' = taken
      <4>1. n \in Nat
        BY <3>1 DEF bufferSize
      <4>2. Len(SubSeq(stream, arrived + 1, arrived + n)) = n
        BY <3>1, <3>3, <4>1
      <4>3. Len(data') = Len(data) + n
        BY <3>1, <3>3, <4>2
      <4>. QED
        BY <3>1, <3>3, <4>1, <4>3 DEF taken
    <3>. QED
      BY <2>1, <3>2, <3>3 DEF reads
  <2>2. CASE ends \/ UNCHANGED lineVars
    BY <2>2 DEF ends, lineVars, taken
  <2>. QED
    BY <2>1, <2>2
<1>. QED
  BY <1>1, <1>2, <1>3 DEF LinesInv, LinesCut

\* A line handed out ends at a new cut.
LEMMA LinesGrow == ASSUME LinesInv, emits PROVE LinesInv'
<1>. DEFINE cr == Min(CRs)
<1>. DEFINE line == SubSeq(data, 1, cr - 1)
<1>. DEFINE N == Len(lines)
<1>1. LineInv' /\ LineInv
  BY EmitsStep DEF LinesInv
<1>2. /\ taken \in Nat /\ Len(data) \in Nat /\ data \in Seq(Bytes) /\ N \in Nat
      /\ lines \in Seq(Seq(Bytes)) /\ arrived \in Nat /\ arrived - Len(data) = taken
  BY DEF LinesInv, LineInv, LineTypeOK, taken
<1>3. CRs # {} /\ cr < Len(data) /\ data[cr + 1] = "n"
  BY DEF emits, outcome
<1>4. cr \in 1..Len(data) /\ stream[taken + cr] = "r"
  BY <1>1, <1>3, FirstCR
<1>5. /\ lines' = Append(lines, line) /\ UNCHANGED <<stream, arrived>>
      /\ data' = SubSeq(data, (cr + 1) + 1, Len(data))
  BY DEF emits, consumed
<1>. HIDE DEF cr
<1>6. line \in Seq(Bytes) /\ Len(line) = cr - 1 /\ \A i \in 1..cr - 1 : line[i] = data[i]
  BY <1>2, <1>4
<1>7. Len(data') = Len(data) - (cr + 1)
  BY <1>2, <1>3, <1>4, <1>5
<1>8. taken' = taken + cr + 1
  <2>1. taken' = arrived - (Len(data) - (cr + 1))
    BY <1>5, <1>7 DEF taken
  <2>. QED
    BY <1>2, <1>4, <2>1
<1>. HIDE DEF line
<1>9. /\ lines' \in Seq(Seq(Bytes)) /\ Len(lines') = N + 1 /\ lines'[N + 1] = line
      /\ \A k \in 1..N : lines'[k] = lines[k]
  BY <1>2, <1>5, <1>6
<1>10. \A i \in 1..Len(data) : data[i] = stream[taken + i]
  BY <1>1 DEF LineInv, BufferInv
<1>11. LinesCut'
  <2>1. PICK cut \in [0..N -> 0..taken] :
          /\ cut[0] = 0 /\ cut[N] = taken
          /\ \A k \in 1..N :
               /\ cut[k] = cut[k - 1] + Len(lines[k]) + 2
               /\ stream[cut[k] - 1] = "r" /\ stream[cut[k]] = "n"
               /\ \A i \in 1..Len(lines[k]) : lines[k][i] = stream[cut[k - 1] + i]
    BY DEF LinesInv, LinesCut
  <2>. DEFINE new == [k \in 0..N + 1 |-> IF k <= N THEN cut[k] ELSE taken']
  <2>. HIDE DEF N
  <2>2. taken' \in Nat /\ taken \in 0..taken'
    BY <1>2, <1>4, <1>8
  <2>3. new \in [0..N + 1 -> 0..taken']
    BY <1>2, <2>2
  <2>4. (\A k \in 0..N : new[k] = cut[k]) /\ new[N + 1] = taken'
    BY <1>2
  <2>. HIDE DEF new
  <2>5. new[0] = 0 /\ new[N] = taken
    <3>1. 0 \in 0..N /\ N \in 0..N
      BY <1>2
    <3>2. new[0] = cut[0] /\ new[N] = cut[N]
      BY <2>4, <3>1
    <3>3. cut[0] = 0 /\ cut[N] = taken
      BY <2>1
    <3>. QED
      BY <3>2, <3>3
  <2>6. ASSUME NEW k \in 1..N
        PROVE  /\ new[k] = new[k - 1] + Len(lines'[k]) + 2
               /\ stream[new[k] - 1] = "r" /\ stream[new[k]] = "n"
               /\ \A i \in 1..Len(lines'[k]) : lines'[k][i] = stream[new[k - 1] + i]
    <3>1. k \in 0..N /\ k - 1 \in 0..N
      BY <1>2
    <3>2. new[k] = cut[k] /\ new[k - 1] = cut[k - 1] /\ lines'[k] = lines[k]
      BY <1>9, <2>4, <3>1
    <3>. QED
      BY <2>1, <3>2
  <2>7. /\ new[N + 1] = new[N] + Len(lines'[N + 1]) + 2
        /\ stream[new[N + 1] - 1] = "r" /\ stream[new[N + 1]] = "n"
        /\ \A i \in 1..Len(lines'[N + 1]) : lines'[N + 1][i] = stream[new[N] + i]
    <3>1. taken' - 1 = taken + cr /\ taken' = taken + (cr + 1) /\ cr + 1 \in 1..Len(data)
      BY <1>2, <1>3, <1>4, <1>8
    <3>2. stream[taken' - 1] = "r" /\ stream[taken'] = "n"
      BY <1>3, <1>4, <1>10, <3>1
    <3>3. new[N + 1] = new[N] + (cr - 1) + 2
      BY <1>2, <1>4, <1>8, <2>4, <2>5
    <3>4. \A i \in 1..cr - 1 : line[i] = stream[taken + i]
      BY <1>2, <1>4, <1>6, <1>10
    <3>. QED
      BY <1>6, <1>9, <2>4, <2>5, <3>2, <3>3, <3>4
  <2>8. ASSUME NEW k \in 1..N + 1
        PROVE  /\ new[k] = new[k - 1] + Len(lines'[k]) + 2
               /\ stream[new[k] - 1] = "r" /\ stream[new[k]] = "n"
               /\ \A i \in 1..Len(lines'[k]) : lines'[k][i] = stream[new[k - 1] + i]
    <3>1. k \in 1..N \/ (k = N + 1 /\ k - 1 = N)
      BY <1>2
    <3>. QED
      BY <2>6, <2>7, <3>1
  <2>9. new \in [0..Len(lines') -> 0..taken'] /\ new[Len(lines')] = taken'
    BY <1>9, <2>3, <2>4
  <2>10. SUFFICES \E c \in [0..Len(lines') -> 0..taken'] :
           /\ c[0] = 0 /\ c[Len(lines')] = taken'
           /\ \A k \in 1..Len(lines') :
                /\ c[k] = c[k - 1] + Len(lines'[k]) + 2
                /\ stream'[c[k] - 1] = "r" /\ stream'[c[k]] = "n"
                /\ \A i \in 1..Len(lines'[k]) : lines'[k][i] = stream'[c[k - 1] + i]
    BY DEF LinesCut
  <2>. USE <2>9
  <2>. WITNESS new \in [0..Len(lines') -> 0..taken']
  <2>. QED
    BY <1>5, <1>9, <2>5, <2>8, <2>9
<1>. QED
  BY <1>1, <1>9, <1>11 DEF LinesInv

\* No line and no cut at first.
LEMMA LinesInit0 == LineInit => LinesInv
<1>. SUFFICES ASSUME LineInit PROVE LinesInv
  OBVIOUS
<1>1. lines = << >> /\ Len(lines) = 0 /\ lines \in Seq(Seq(Bytes)) /\ arrived = 0 /\ Len(data) = 0
  BY DEF LineInit
<1>2. taken = 0
  BY <1>1 DEF taken
<1>3. LinesCut
  <2>. DEFINE cut == [k \in 0..0 |-> 0]
  <2>1. cut \in [0..0 -> 0..0] /\ cut[0] = 0 /\ 1..0 = {}
    OBVIOUS
  <2>. HIDE DEF cut
  <2>. QED
    BY <1>1, <1>2, <2>1 DEF LinesCut
<1>. QED
  BY <1>1, <1>3, LineInit0 DEF LinesInv

\* Every step keeps the cuts.
LEMMA LinesStep == LinesInv /\ [LineNext]_lineVars => LinesInv'
BY LinesKept, LinesGrow DEF LineNext

\* The decoder gets the lines of the stream, in order, none lost or doubled, as far as
\* the stream was taken: however it is cut into reads, and also before an error.
THEOREM LinesFromStream == LineInit /\ [][LineNext]_lineVars => []LinesCut
<1>1. LinesInv => LinesCut
  BY DEF LinesInv
<1>. QED
  BY <1>1, LinesInit0, LinesStep, PTL

-----------------------------------------------------------------------------
(* The lines, put together again. *)

\* FlattenSeq is the function that its recursive definition determines.
LEMMA FlattenUnique ==
  ASSUME NEW seqs, Len(seqs) \in Nat \ {0}, NEW f,
         f = [i \in 1..Len(seqs) |-> IF i = 1 THEN seqs[i] ELSE f[i - 1] \o seqs[i]]
  PROVE  FlattenSeq(seqs) = f[Len(seqs)]
<1>. DEFINE N == Len(seqs)
<1>. DEFINE P(g) == g = [i \in 1..N |-> IF i = 1 THEN seqs[i] ELSE g[i - 1] \o seqs[i]]
<1>. DEFINE flatten == CHOOSE g : P(g)
<1>1. FlattenSeq(seqs) = flatten[N]
  BY DEF FlattenSeq
<1>2. P(flatten) /\ P(f)
  BY Zenon
<1>. HIDE DEF flatten
<1>. DEFINE Differ == {i \in 1..N : flatten[i] # f[i]}
<1>3. Differ = {}
  <2>. SUFFICES ASSUME Differ # {} PROVE FALSE
    OBVIOUS
  <2>. DEFINE m == Min(Differ)
  <2>1. Differ \in SUBSET Nat
    OBVIOUS
  <2>. HIDE DEF Differ
  <2>2. m \in Differ /\ \A y \in Differ : m <= y
    BY <2>1, MinFacts
  <2>. HIDE DEF m
  <2>3. m \in 1..N /\ flatten[m] # f[m] /\ \A y \in 1..N : flatten[y] # f[y] => m <= y
    BY <2>2 DEF Differ
  <2>4. /\ flatten[m] = IF m = 1 THEN seqs[m] ELSE flatten[m - 1] \o seqs[m]
        /\ f[m] = IF m = 1 THEN seqs[m] ELSE f[m - 1] \o seqs[m]
    BY <1>2, <2>3
  <2>5. m # 1 /\ flatten[m - 1] # f[m - 1]
    BY <2>3, <2>4
  <2>. QED
    BY <2>3, <2>5
<1>4. N \in 1..N
  OBVIOUS
<1>5. flatten[N] = f[N]
  BY <1>3, <1>4
<1>. QED
  BY <1>1, <1>5

\* A piece of the stream.
LEMMA Piece ==
  ASSUME NEW s \in Seq(Bytes), NEW a \in Nat, NEW b \in Nat, a <= b, b <= Len(s)
  PROVE  /\ SubSeq(s, a + 1, b) \in Seq(Bytes) /\ Len(SubSeq(s, a + 1, b)) = b - a
         /\ \A i \in 1..b - a : SubSeq(s, a + 1, b)[i] = s[a + i]
         /\ SubSeq(s, 1, b) = SubSeq(s, 1, a) \o SubSeq(s, a + 1, b)
<1>1. a + 1 \in Int /\ b \in Int /\ \A i \in a + 1..b : s[i] \in Bytes
  OBVIOUS
<1>2. /\ SubSeq(s, a + 1, b) \in Seq(Bytes)
      /\ Len(SubSeq(s, a + 1, b)) = IF a + 1 <= b THEN b - (a + 1) + 1 ELSE 0
      /\ \A i \in 1..b - (a + 1) + 1 : SubSeq(s, a + 1, b)[i] = s[a + 1 + i - 1]
  BY <1>1, SubSeqProperties
<1>3. 1 \in 1..Len(s) + 1 /\ a \in 1 - 1..Len(s) /\ b \in a..Len(s)
  OBVIOUS
<1>4. SubSeq(s, 1, b) = SubSeq(s, 1, a) \o SubSeq(s, a + 1, b)
  BY <1>3, ConcatAdjacentSubSeq
<1>5. /\ b - (a + 1) + 1 = b - a /\ (a + 1 <= b \/ b - a = 0)
      /\ \A i \in 1..b - a : a + 1 + i - 1 = a + i
  OBVIOUS
<1>6. Len(SubSeq(s, a + 1, b)) = b - a
  BY <1>2, <1>5
<1>7. \A i \in 1..b - a : SubSeq(s, a + 1, b)[i] = s[a + i]
  BY <1>2, <1>5
<1>. QED
  BY <1>2, <1>4, <1>6, <1>7

\* What the cuts say of the lines is what is lost when FlattenSeq joins them: up to cut
\* k, the first k lines with their CRLFs are the stream.
LEMMA LinesJoined ==
  ASSUME LinesInv
  PROVE  LinesArrive
<1>. DEFINE N == Len(lines)
<1>. DEFINE crlf == <<"r", "n">>
<1>. DEFINE ended == [k \in 1..N |-> lines[k] \o crlf]
<1>1. /\ N \in Nat /\ taken \in Nat /\ Len(data) \in Nat /\ arrived \in Nat
      /\ taken + Len(data) = arrived /\ arrived <= Len(stream) /\ Len(stream) \in Nat
      /\ stream \in Seq(Bytes) /\ data \in Seq(Bytes) /\ lines \in Seq(Seq(Bytes))
  BY DEF LinesInv, LineInv, LineTypeOK, taken
<1>2. PICK cut \in [0..N -> 0..taken] :
        /\ cut[0] = 0 /\ cut[N] = taken
        /\ \A k \in 1..N :
             /\ cut[k] = cut[k - 1] + Len(lines[k]) + 2
             /\ stream[cut[k] - 1] = "r" /\ stream[cut[k]] = "n"
             /\ \A i \in 1..Len(lines[k]) : lines[k][i] = stream[cut[k - 1] + i]
  BY DEF LinesInv, LinesCut
<1>3. Len(ended) = N
  BY <1>1
<1>. DEFINE f == [k \in 1..N |-> SubSeq(stream, 1, cut[k])]
<1>4. \A k \in 0..N : cut[k] \in 0..Len(stream)
  <2>1. \A k \in 0..N : cut[k] \in 0..taken
    BY <1>2
  <2>2. 0..taken \subseteq 0..Len(stream)
    BY <1>1
  <2>. QED
    BY <2>1, <2>2
<1>5. ASSUME NEW k \in 1..N
      PROVE  /\ k - 1 \in 0..N
             /\ SubSeq(stream, 1, cut[k]) = SubSeq(stream, 1, cut[k - 1]) \o ended[k]
  <2>. DEFINE a == cut[k - 1]
  <2>. DEFINE b == cut[k]
  <2>1. k - 1 \in 0..N /\ k \in 0..N /\ k \in Nat
    BY <1>1
  <2>2. a \in 0..Len(stream) /\ b \in 0..Len(stream)
    BY <1>4, <2>1
  <2>3. lines[k] \in Seq(Bytes) /\ ended[k] = lines[k] \o crlf
    BY <1>1
  <2>4. /\ b = a + Len(lines[k]) + 2 /\ stream[b - 1] = "r" /\ stream[b] = "n"
        /\ \A i \in 1..Len(lines[k]) : lines[k][i] = stream[a + i]
    BY <1>2
  <2>. HIDE DEF a, b, ended
  <2>5. SubSeq(stream, a + 1, b) = lines[k] \o crlf
    <3>. DEFINE l == lines[k]
    <3>. HIDE DEF l
    <3>1. l \in Seq(Bytes) /\ Len(l) \in Nat /\ b = a + Len(l) + 2 /\ a + 1 <= b
      BY <2>2, <2>3, <2>4 DEF l
    <3>2. /\ SubSeq(stream, a + 1, b) \in Seq(Bytes) /\ Len(SubSeq(stream, a + 1, b)) = Len(l) + 2
          /\ \A i \in 1..Len(l) + 2 : SubSeq(stream, a + 1, b)[i] = stream[a + i]
      <4>1. a \in Nat /\ b \in Nat /\ a <= b /\ b <= Len(stream) /\ b - a = Len(l) + 2
        BY <1>1, <2>2, <3>1
      <4>. HIDE DEF crlf
      <4>. QED
        BY <1>1, <4>1, Piece
    <3>3. /\ l \o crlf \in Seq(Bytes) /\ Len(l \o crlf) = Len(l) + 2
          /\ \A i \in 1..Len(l) : (l \o crlf)[i] = l[i]
          /\ (l \o crlf)[Len(l) + 1] = "r" /\ (l \o crlf)[Len(l) + 2] = "n"
      BY <3>1 DEF Bytes
    <3>4. ASSUME NEW i \in 1..Len(l) + 2
          PROVE  SubSeq(stream, a + 1, b)[i] = (l \o crlf)[i]
      <4>1. i \in 1..Len(l) \/ i = Len(l) + 1 \/ i = Len(l) + 2
        BY <3>1
      <4>2. a + (Len(l) + 1) = b - 1 /\ a + (Len(l) + 2) = b
        BY <2>2, <3>1
      <4>. QED
        BY <2>4, <3>2, <3>3, <4>1, <4>2 DEF l
    <3>. QED
      <4>. DEFINE s == SubSeq(stream, a + 1, b)
      <4>. DEFINE t == l \o crlf
      <4>1. s \in Seq(Bytes) /\ t \in Seq(Bytes) /\ Len(s) = Len(t)
        BY <3>2, <3>3
      <4>2. \A i \in 1..Len(s) : s[i] = t[i]
        BY <3>2, <3>4
      <4>. HIDE DEF s, t
      <4>3. s = t
        BY <4>1, <4>2, SeqEqual
      <4>. QED
        BY <4>3 DEF s, t, l
  <2>6. SubSeq(stream, 1, b) = SubSeq(stream, 1, a) \o SubSeq(stream, a + 1, b)
    <3>1. a \in Nat /\ b \in Nat /\ a <= b /\ b <= Len(stream)
      BY <1>1, <2>2, <2>3, <2>4
    <3>. QED
      BY <1>1, <3>1, Piece
  <2>. QED
    BY <2>1, <2>3, <2>5, <2>6 DEF a, b
<1>6. f = [k \in 1..N |-> IF k = 1 THEN ended[k] ELSE f[k - 1] \o ended[k]]
  <2>1. ASSUME NEW k \in 1..N
        PROVE  f[k] = IF k = 1 THEN ended[k] ELSE f[k - 1] \o ended[k]
    <3>1. CASE k = 1
      <4>1. k - 1 = 0 /\ cut[k - 1] = 0
        BY <1>2, <3>1
      <4>2. SubSeq(stream, 1, cut[k - 1]) = << >>
        BY <4>1, SubSeqEmpty
      <4>3. ended[k] \in Seq(Bytes)
        BY <1>1 DEF Bytes
      <4>. HIDE DEF ended
      <4>4. << >> \o ended[k] = ended[k]
        BY <4>3, ConcatEmptySeq
      <4>5. SubSeq(stream, 1, cut[k]) = ended[k]
        BY <1>5, <4>2, <4>4
      <4>. QED
        BY <3>1, <4>5
    <3>2. CASE k # 1
      <4>1. k - 1 \in 1..N
        BY <1>1, <3>2
      <4>2. f[k] = SubSeq(stream, 1, cut[k]) /\ f[k - 1] = SubSeq(stream, 1, cut[k - 1])
        BY <4>1
      <4>3. SubSeq(stream, 1, cut[k]) = SubSeq(stream, 1, cut[k - 1]) \o ended[k]
        BY <1>5
      <4>. HIDE DEF f, ended
      <4>. QED
        BY <3>2, <4>2, <4>3
    <3>. QED
      BY <3>1, <3>2
  <2>. QED
    BY <2>1
<1>7. FlattenSeq(ended) = IF N = 0 THEN << >> ELSE SubSeq(stream, 1, taken)
  <2>1. CASE N = 0
    BY <1>3, <2>1 DEF FlattenSeq
  <2>2. CASE N # 0
    <3>1. f[N] = SubSeq(stream, 1, taken) /\ Len(ended) \in Nat \ {0}
      BY <1>1, <1>2, <1>3, <2>2
    <3>2. f = [k \in 1..Len(ended) |-> IF k = 1 THEN ended[k] ELSE f[k - 1] \o ended[k]]
      BY <1>3, <1>6
    <3>. HIDE DEF f, ended
    <3>3. FlattenSeq(ended) = f[Len(ended)]
      BY <3>1, <3>2, FlattenUnique
    <3>. QED
      BY <1>3, <2>2, <3>1, <3>3
  <2>. QED
    BY <2>1, <2>2
<1>8. FlattenSeq(ended) = SubSeq(stream, 1, taken)
  <2>1. N = 0 => SubSeq(stream, 1, taken) = << >>
    BY <1>1, <1>2, SubSeqEmpty
  <2>. QED
    BY <1>7, <2>1
<1>9. data = SubSeq(stream, taken + 1, arrived)
  <2>. DEFINE s == SubSeq(stream, taken + 1, arrived)
  <2>1. /\ s \in Seq(Bytes) /\ Len(s) = Len(data)
        /\ \A i \in 1..Len(data) : s[i] = stream[taken + i]
    <3>1. arrived - taken = Len(data) /\ taken <= arrived
      BY <1>1
    <3>. QED
      BY <1>1, <3>1, Piece
  <2>2. \A i \in 1..Len(data) : s[i] = data[i]
    BY <2>1 DEF LinesInv, LineInv, BufferInv
  <2>. HIDE DEF s
  <2>3. s = data
    BY <1>1, <2>1, <2>2, SeqEqual
  <2>. QED
    BY <2>3 DEF s
<1>10. SubSeq(stream, 1, taken) \o data = SubSeq(stream, 1, arrived)
  BY <1>1, <1>9, Piece
<1>. QED
  BY <1>8, <1>10 DEF LinesArrive

\* The same of what the decoder gets, joined: the lines with their CRLFs, and what is
\* left in the buffer, are what was read of the stream.
THEOREM LinesWhole == LineInit /\ [][LineNext]_lineVars => []LinesArrive
<1>1. LinesInv => LinesArrive
  BY LinesJoined
<1>. QED
  BY <1>1, LinesInit0, LinesStep, PTL

=============================================================================
