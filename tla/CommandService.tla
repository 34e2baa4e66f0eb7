---------------------------- MODULE CommandService ----------------------------
(***************************************************************************)
(* What the control master promises the clients that send it commands, as  *)
(* docs/architecture.md and internal/control/protocol.go put it: one line  *)
(* in order of admission, whose first command is the one being run; every  *)
(* admitted command answered once, and by what became of it; after a       *)
(* command that failed on the host, no other.  How the master does it      *)
(* (handlers, workers, contexts, timers, channels) does not appear:        *)
(* MasterServer implements this.                                           *)
(***************************************************************************)
EXTENDS Integers, Sequences

CONSTANTS
  Clients, \* whoever may send a command, one each
  Limit    \* how many commands may wait behind the one being run

VARIABLES
  line,    \* the commands admitted and not answered, the oldest first
  doors,   \* "open", or "closed" for good
  reached, \* the commands that may have reached the host
  answer,  \* per command, what became of it, or "none"
  told     \* per client, what it was told of its command, or "none"

promised == <<line, doors, reached, answer, told>>

\* A command in the line.
Waits(c) == \E i \in 1..Len(line) : line[i] = c

\* What may be said of a command that was given up before it was run.
GivenUp == {"timeout", "canceled"}

\* What may be said of a command that did not reach the host, and of one that may.
Spared  == GivenUp \cup {"not-started", "identity-mismatch", "unavailable"}
Touched == GivenUp \cup {"ok", "cleanup-failed", "remote-state-unknown", "unavailable"}

\* Whatever may be said of a command, the refusals included.
Words == Spared \cup Touched \cup {"persist-mismatch", "queue-full"}

Outcomes(c) == IF c \in reached THEN Touched ELSE Spared

\* Outcomes after which the lanes to the host are as good as before.
Harmless(c) == IF c \in reached THEN {"ok"} ELSE GivenUp \cup {"identity-mismatch"}

\* Nothing was decided about the command of c.
New(c) == ~Waits(c) /\ answer[c] = "none" /\ told[c] = "none"

-----------------------------------------------------------------------------

Init ==
  /\ line = << >> /\ doors = "open" /\ reached = {}
  /\ answer = [c \in Clients |-> "none"]
  /\ told = [c \in Clients |-> "none"]

\* The command takes the last place; at once it is being run if that is the first.
Admit(c) ==
  /\ New(c) /\ doors = "open" /\ Len(line) <= Limit
  /\ line' = Append(line, c)
  /\ UNCHANGED <<doors, reached, answer, told>>

\* The command is not admitted, and its client told why: it can be repeated.
Refuse(c) ==
  /\ New(c)
  /\ \E category \in Spared \cup {"persist-mismatch", "queue-full"} :
       /\ category = "queue-full" => doors = "open" /\ Len(line) > Limit
       /\ category \in {"not-started", "unavailable"} => doors = "closed"
       /\ told' = [told EXCEPT ![c] = category]
  /\ UNCHANGED <<line, doors, reached, answer>>

\* The first command is sent to the host.
Reach ==
  /\ line # << >>
  /\ reached' = reached \cup {Head(line)}
  /\ UNCHANGED <<line, doors, answer, told>>

\* A command that waits is given up.
Withdraw(i) ==
  /\ i \in 2..Len(line)
  /\ \E category \in GivenUp : answer' = [answer EXCEPT ![line[i]] = category]
  /\ line' = SubSeq(line, 1, i - 1) \o SubSeq(line, i + 1, Len(line))
  /\ UNCHANGED <<doors, reached, told>>

\* The first command ends and, after k others that were given up, the next is run.
Proceed(k) ==
  /\ doors = "open" /\ k < Len(line)
  /\ line' = SubSeq(line, k + 2, Len(line))
  /\ \A c \in Clients :
       IF c = line[1] THEN answer'[c] \in Harmless(c)
       ELSE IF \E i \in 2..k + 1 : line[i] = c THEN answer'[c] \in GivenUp
       ELSE answer'[c] = answer[c]
  /\ answer' \in [Clients -> Words \cup {"none"}]
  /\ UNCHANGED <<doors, reached, told>>

\* No more commands: those that wait are turned away, and the first one goes on to its
\* end, or has come to it.
Close ==
  /\ doors' = "closed"
  /\ \E kept \in 0..1 :
       /\ kept <= Len(line)
       /\ line' = SubSeq(line, 1, kept)
       /\ \A c \in Clients :
            IF ~Waits(c) THEN answer'[c] = answer[c]
            ELSE IF c # line[1] THEN answer'[c] = "not-started"
            ELSE IF kept = 0 THEN answer'[c] \in Outcomes(c)
            ELSE answer'[c] = answer[c]
  /\ answer' \in [Clients -> Words \cup {"none"}]
  /\ UNCHANGED <<reached, told>>

\* A client is told what became of its command.
Tell(c) ==
  /\ answer[c] # "none" /\ told[c] = "none"
  /\ told' = [told EXCEPT ![c] = answer[c]]
  /\ UNCHANGED <<line, doors, reached, answer>>

Next ==
  \/ \E c \in Clients : Admit(c) \/ Refuse(c) \/ Tell(c)
  \/ \E i \in 1..Len(line) : Withdraw(i)
  \/ \E k \in 0..Len(line) : Proceed(k)
  \/ Reach \/ Close

Spec == Init /\ [][Next]_promised

=============================================================================
