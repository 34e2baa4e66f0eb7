----------------------------- MODULE ControlStart -----------------------------
(***************************************************************************)
(* The start of a control master (internal/control/master_unix.go,         *)
(* socket_unix.go). Several clients run StartOrConnect for one socket path *)
(* at once. Each looks for a usable master and, if there is none, takes    *)
(* the lock of the path, removes a stale socket and launches a child: the  *)
(* master, named by the client that launched it. The child inherits the    *)
(* lock, authenticates, binds the socket, tells its parent that it is      *)
(* ready and serves (MasterServer), until it stops, is killed by a parent  *)
(* whose time is up, or crashes. Clients crash too.                        *)
(*                                                                         *)
(* The lock is a flock on an open file description that a client and its   *)
(* child share: it is held as long as one of the two has it open. The      *)
(* directory and the permissions of socket and lock are as they should be: *)
(* the child sets its umask before it binds.                               *)
(***************************************************************************)
EXTENDS Naturals, FiniteSets

CONSTANTS
  Clients,
  None     \* no socket at the path

ASSUME NoneAssumption == None \notin Clients

VARIABLES
  start,   \* per client, where StartOrConnect is
  startup, \* per client, startupCtx: "live" or "ended"
  open,    \* the clients that have the locked file open
  path,    \* whose socket is at the path, or None
  child,   \* per client, the process it launched, "none" when there is none
  ready    \* per client, the frame its child sent it: "none", "ready" or "failed"

startVars == <<start, startup, open, path, child, ready>>

Alive(m)     == child[m] # "none"
Listening(m) == child[m] \in {"bound", "serve"}
Connectable  == path # None /\ Listening(path)

-----------------------------------------------------------------------------
(* Faulty variants of definitions below; each property must reject one. *)

LockFreeOfChildren == open = {}
LockFreeOfDraining == open = {} /\ \A c \in Clients : child[c] \in {"none", "drain"}
startupTimesOutUnlocked(c) == FALSE

-----------------------------------------------------------------------------
(* StartOrConnect. *)

LockFree == open = {} /\ \A c \in Clients : ~Alive(c)

move(c, from, to) == start[c] = from /\ start' = [start EXCEPT ![c] = to]

\* StartOrConnect goes on with the lock as it is.
goes(c, from, to) == move(c, from, to) /\ UNCHANGED <<startup, open>>

\* It returns, which ends startupCtx and closes the lock.
leaves(c, from, to) ==
  /\ move(c, from, to)
  /\ startup' = [startup EXCEPT ![c] = "ended"]
  /\ open' = open \ {c}

\* socketState, before and under the lock.
looks(c) ==
  /\ \/ path # None /\ (goes(c, "look", "probe") \/ goes(c, "look2", "probe2"))
     \/ path = None /\ (goes(c, "look", "trylock") \/ goes(c, "look2", "resolve"))
  /\ UNCHANGED <<path, child, ready>>

\* probeMaster: a master that serves may answer; one that listens may answer with a
\* category or miss the 250 ms; a socket nobody listens on refuses.
Answers == Connectable /\ child[path] = "serve"

\* Without the lock, silence and refusal are the reasons to go on.
probes(c) ==
  /\ \/ Answers /\ leaves(c, "probe", "path")
     \/ goes(c, "probe", "trylock")
     \/ (Connectable \/ startup[c] = "ended") /\ leaves(c, "probe", "error")
  /\ UNCHANGED <<path, child, ready>>

startupTimesOut(c) == startup[c] = "ended"

triesLock(c) ==
  /\ \/ LockFree /\ move(c, "trylock", "look2") /\ open' = open \cup {c} /\ startup' = startup
     \/ ~LockFree /\ ~startupTimesOut(c) /\ goes(c, "trylock", "look")
     \/ ~LockFree /\ startupTimesOut(c) /\ leaves(c, "trylock", "error")
  /\ UNCHANGED <<path, child, ready>>

\* Under the lock a master that accepts the connection is left alone, and every
\* failure to connect, a full backlog or an ended context too, means a stale socket.
probesAgain(c) ==
  /\ \/ Answers /\ leaves(c, "probe2", "path")
     \/ Connectable /\ leaves(c, "probe2", "error")
     \/ goes(c, "probe2", "remove")
  /\ UNCHANGED <<path, child, ready>>

removes(c) ==
  /\ IF path # None THEN goes(c, "remove", "resolve") ELSE leaves(c, "remove", "error")
  /\ path' = None
  /\ UNCHANGED <<child, ready>>

\* The password is read; that may fail, and takes its time.
resolves(c) ==
  /\ \/ startup[c] = "live" /\ goes(c, "resolve", "launch")
     \/ leaves(c, "resolve", "error")
  /\ UNCHANGED <<path, child, ready>>

\* launchMaster starts the child and sends the bootstrap.
launches(c) ==
  /\ \/ goes(c, "launch", "await") /\ child' = [child EXCEPT ![c] = "boot"]
     \/ leaves(c, "launch", "error") /\ child' = child
  /\ UNCHANGED <<path, ready>>

\* The ready frame, or the child is killed and waited for before the lock is closed.
awaits(c) ==
  /\ \/ ready[c] = "ready" /\ leaves(c, "await", "path") /\ child' = child
     \/ /\ startup[c] = "ended" \/ ready[c] = "failed" \/ ~Alive(c)
        /\ leaves(c, "await", "error")
        /\ child' = [child EXCEPT ![c] = "none"]
  /\ ready' = [ready EXCEPT ![c] = "none"]
  /\ path' = path

Starting(c) == start[c] \notin {"path", "error", "crashed"}

StartupEnds(c) ==
  /\ Starting(c) /\ startup[c] = "live"
  /\ startup' = [startup EXCEPT ![c] = "ended"]
  /\ UNCHANGED <<start, open, path, child, ready>>

ClientCrashes(c) ==
  /\ Starting(c)
  /\ leaves(c, start[c], "crashed")
  /\ UNCHANGED <<path, child, ready>>

-----------------------------------------------------------------------------
(* The child. *)

becomes(m, from, to) == child[m] = from /\ child' = [child EXCEPT ![m] = to]

\* It reads the bootstrap and authenticates; a parent that goes away ends both.
boots(m) ==
  /\ \/ becomes(m, "boot", "auth") /\ ready' = ready
     \/ becomes(m, "boot", "none") /\ ready' = ready
     \/ becomes(m, "auth", "bind") /\ ready' = ready
     \/ becomes(m, "auth", "none") /\ ready' = [ready EXCEPT ![m] = "failed"]
  /\ UNCHANGED <<start, startup, open, path>>

\* It binds the socket, unless there is one.
binds(m) ==
  /\ IF path = None THEN becomes(m, "bind", "bound") /\ path' = m
                    ELSE becomes(m, "bind", "none") /\ path' = path
  /\ UNCHANGED <<start, startup, open, ready>>

\* The ready frame is written while the parent reads; otherwise the listener is
\* closed, which unlinks the path.
becomesReady(m) ==
  /\ \/ /\ start[m] = "await"
        /\ becomes(m, "bound", "serve")
        /\ ready' = [ready EXCEPT ![m] = "ready"]
        /\ path' = path
     \/ /\ start[m] # "await" \/ startup[m] = "ended"
        /\ becomes(m, "bound", "none")
        /\ path' = None
        /\ ready' = ready
  /\ UNCHANGED <<start, startup, open>>

\* The master stops: its listener is closed, which unlinks the path; the process
\* ends when its work is done.
stops(m) ==
  /\ \/ becomes(m, "serve", "drain") /\ path' = None
     \/ becomes(m, "drain", "none") /\ path' = path
  /\ UNCHANGED <<start, startup, open, ready>>

MasterCrashes(m) ==
  /\ Alive(m)
  /\ child' = [child EXCEPT ![m] = "none"]
  /\ UNCHANGED <<start, startup, open, path, ready>>

-----------------------------------------------------------------------------
(* The specification. A socket left by an earlier master may be there: that of a
   client which is no more. *)

StartInit ==
  /\ start \in [Clients -> {"look", "crashed"}]
  /\ startup = [c \in Clients |-> IF start[c] = "look" THEN "live" ELSE "ended"]
  /\ path \in {c \in Clients : start[c] = "crashed"} \cup {None}
  /\ child = [c \in Clients |-> "none"]
  /\ ready = [c \in Clients |-> "none"]
  /\ open = {}

client(c) == \/ looks(c) \/ probes(c) \/ triesLock(c) \/ probesAgain(c) \/ removes(c)
             \/ resolves(c) \/ launches(c) \/ awaits(c)

\* A step of the start that is not an operation of a serving master.
StartStep == \E c \in Clients : client(c) \/ StartupEnds(c) \/ ClientCrashes(c)
                                \/ boots(c) \/ binds(c) \/ becomesReady(c)
StartNext == StartStep \/ \E m \in Clients : stops(m) \/ MasterCrashes(m)

StartSpec == StartInit /\ [][StartNext]_startVars

-----------------------------------------------------------------------------
(* Properties. *)

StartTypeOK ==
  /\ start \in [Clients -> {"look", "probe", "trylock", "look2", "probe2", "remove", "resolve",
                            "launch", "await", "path", "error", "crashed"}]
  /\ startup \in [Clients -> {"live", "ended"}]
  /\ open \subseteq Clients
  /\ path \in Clients \cup {None}
  /\ child \in [Clients -> {"none", "boot", "auth", "bind", "bound", "serve", "drain"}]
  /\ ready \in [Clients -> {"none", "ready", "failed"}]

\* There is one master for a path: whatever crashes or is slow, no second one is
\* started, or authenticates, before the last one, draining or not, has ended.
OneMaster == \A c, d \in Clients : Alive(c) /\ Alive(d) => c = d

\* A master that listens can be reached: no starter that finds it silent, and no
\* other master on its way out, removes its socket.
LiveSocketKept == \A m \in Clients : Listening(m) => path = m

\* master_unix.go:45-46: the password is asked for only when there is no master.
PasswordNeeded == \A c \in Clients : start[c] = "resolve" => \A m \in Clients : ~Alive(m)
=============================================================================
