------------------------------ MODULE LineScanner ------------------------------
(***************************************************************************)
(* The framing of a download (copyBase64Lines and splitCRLFLines,          *)
(* internal/remote/transfer_codec.go): lines of Base64, each ended by      *)
(* CRLF, read from a stream that arrives in pieces of any size through a   *)
(* bufio.Scanner whose buffer holds one line of the greatest length. The   *)
(* sender's full lines have exactly that length, 32768 in the code, so     *)
(* that its limits are met by every file longer than one line.             *)
(*                                                                         *)
(* A byte is "r", "n" or any other, "b".                                   *)
(***************************************************************************)
EXTENDS Naturals, SequencesExt

CONSTANTS
  MaxLine,  \* the longest content of a line
  MaxStream \* bound: the length of the stream

ASSUME LineAssumption == MaxLine \in Nat \ {0} /\ MaxStream \in Nat

Bytes == {"b", "r", "n"}

VARIABLES
  stream,  \* what the sender writes, all of it
  arrived, \* how many of its bytes were read
  eof,     \* whether its end was read
  data,    \* the bytes in the buffer that no token has taken
  lines,   \* the lines handed to the decoder
  scan     \* "run", "done" or "error"

lineVars == <<stream, arrived, eof, data, lines, scan>>

-----------------------------------------------------------------------------
(* Faulty variants of definitions below; each property must reject one. *)

bufferOfLine == MaxLine + 1
consumedCR(cr) == cr

-----------------------------------------------------------------------------
(* splitCRLFLines: what the split function makes of the buffer. *)

CRs == {i \in 1..Len(data) : data[i] = "r"}

\* The outcome for the buffer: a line, an error, the end or the wish for more.
outcome ==
  IF CRs # {} THEN
    LET cr == Min(CRs) \* one that ends the buffer may still get its LF
    IN  IF cr = Len(data) /\ ~eof THEN "more"
        ELSE IF cr < Len(data) /\ data[cr + 1] = "n" /\ cr - 1 <= MaxLine THEN "line"
        ELSE "error"
  ELSE IF eof THEN (IF data = << >> THEN "end" ELSE "error")
  ELSE IF Len(data) > MaxLine THEN "error"
  ELSE "more"

-----------------------------------------------------------------------------
(* bufio.Scanner and the loop of copyBase64Lines. *)

bufferSize == MaxLine + 2

\* The bytes a line takes with its CRLF, when its CR is at cr.
consumed(cr) == cr + 1

\* The split function sees the buffer when it has something or the stream has ended.
emits ==
  /\ scan = "run" /\ (data # << >> \/ eof) /\ outcome = "line"
  /\ lines' = Append(lines, SubSeq(data, 1, Min(CRs) - 1))
  /\ data' = SubSeq(data, consumed(Min(CRs)) + 1, Len(data))
  /\ UNCHANGED <<stream, arrived, eof, scan>>

ends ==
  /\ scan = "run" /\ (data # << >> \/ eof)
  /\ \/ outcome = "end" /\ scan' = "done"
     \/ outcome = "error" /\ scan' = "error"
     \/ outcome = "more" /\ Len(data) >= bufferSize /\ scan' = "error"
  /\ UNCHANGED <<stream, arrived, eof, data, lines>>

\* A read returns what there is, as far as the buffer has room, or the end.
reads ==
  /\ scan = "run" /\ ~eof
  /\ data # << >> => outcome = "more" /\ Len(data) < bufferSize
  /\ \/ /\ arrived = Len(stream) /\ eof' = TRUE
        /\ UNCHANGED <<arrived, data>>
     \/ /\ \E n \in 1..(bufferSize - Len(data)) :
             /\ arrived + n <= Len(stream)
             /\ arrived' = arrived + n
             /\ data' = data \o SubSeq(stream, arrived + 1, arrived + n)
        /\ eof' = eof
  /\ UNCHANGED <<stream, lines, scan>>

LineInit ==
  /\ stream \in UNION {[1..n -> Bytes] : n \in 0..MaxStream}
  /\ arrived = 0 /\ eof = FALSE /\ data = << >> /\ lines = << >> /\ scan = "run"

LineNext == emits \/ ends \/ reads

-----------------------------------------------------------------------------
(* Properties. *)

\* What the sender may write: every CR is followed by LF, no line is longer than
\* MaxLine, and the last one is ended.
WellFormed(s) ==
  LET N     == Len(s)
      crlfs == {i \in 1..N : s[i] = "r" /\ i < N /\ s[i + 1] = "n"}
  IN  /\ \A i \in 1..N : s[i] = "r" => i \in crlfs
      /\ N > 0 => N - 1 \in crlfs
      /\ \A i \in 0..N : (i = 0 \/ i - 1 \in crlfs) =>
           i = N \/ \E cr \in crlfs : cr > i /\ cr - i - 1 <= MaxLine

\* However the stream is cut into reads, exactly the well-formed ones are accepted.
CutsDoNotMatter ==
  /\ scan = "done" => WellFormed(stream)
  /\ scan = "error" => ~WellFormed(stream)

\* The lines are those of the stream, in order, none lost or doubled, as far as it
\* was read: also those that came before an error.
LinesArrive ==
  FlattenSeq([i \in 1..Len(lines) |-> lines[i] \o <<"r", "n">>]) \o data = SubSeq(stream, 1, arrived)
==============================================================================
