-------------------------- MODULE ControlStartProofs --------------------------
(***************************************************************************)
(* What the start of a control master guarantees for any number of         *)
(* clients: one master for a socket path, its socket left alone as long as *)
(* it listens, and no question for a password while there is a master.     *)
(***************************************************************************)
EXTENDS ControlStart, TLAPS

\* The places of StartOrConnect under the lock.
Locked == {"look2", "probe2", "remove", "resolve", "launch", "await"}

\* c or the child it launched has the locked file open.
Holds(c) == c \in open \/ Alive(c)

\* The lock is released on every return, and a child lives only after it was launched.
PlaceInv == \A c \in Clients :
  /\ c \in open <=> start[c] \in Locked
  /\ Alive(c) => start[c] \in {"await", "path", "crashed"}

\* One client and its child have the lock.
LockInv == \A c, d \in Clients : Holds(c) /\ Holds(d) => c = d

StartInv == StartTypeOK /\ PlaceInv /\ LockInv /\ LiveSocketKept

-----------------------------------------------------------------------------
(* Types. *)

LEMMA StartTypeInit == StartInit => StartTypeOK
BY DEF StartInit, StartTypeOK

LEMMA StartTypeNext == StartTypeOK /\ [StartNext]_startVars => StartTypeOK'
<1> SUFFICES ASSUME StartTypeOK, [StartNext]_startVars
             PROVE  StartTypeOK'
  OBVIOUS
<1>. USE DEF StartTypeOK, goes, leaves, move
<1>1. ASSUME NEW c \in Clients, looks(c) PROVE StartTypeOK'
  BY <1>1 DEF looks
<1>2. ASSUME NEW c \in Clients, probes(c) PROVE StartTypeOK'
  BY <1>2 DEF probes
<1>3. ASSUME NEW c \in Clients, triesLock(c) PROVE StartTypeOK'
  BY <1>3 DEF triesLock
<1>4. ASSUME NEW c \in Clients, probesAgain(c) PROVE StartTypeOK'
  BY <1>4 DEF probesAgain
<1>5. ASSUME NEW c \in Clients, removes(c) PROVE StartTypeOK'
  BY <1>5 DEF removes
<1>6. ASSUME NEW c \in Clients, resolves(c) PROVE StartTypeOK'
  BY <1>6 DEF resolves
<1>7. ASSUME NEW c \in Clients, launches(c) PROVE StartTypeOK'
  BY <1>7 DEF launches
<1>8. ASSUME NEW c \in Clients, awaits(c) PROVE StartTypeOK'
  BY <1>8 DEF awaits
<1>9. ASSUME NEW c \in Clients, StartupEnds(c) PROVE StartTypeOK'
  BY <1>9 DEF StartupEnds
<1>10. ASSUME NEW c \in Clients, ClientCrashes(c) PROVE StartTypeOK'
  BY <1>10 DEF ClientCrashes
<1>11. ASSUME NEW m \in Clients, boots(m) PROVE StartTypeOK'
  BY <1>11 DEF boots, becomes
<1>12. ASSUME NEW m \in Clients, binds(m) PROVE StartTypeOK'
  BY <1>12 DEF binds, becomes
<1>13. ASSUME NEW m \in Clients, becomesReady(m) PROVE StartTypeOK'
  BY <1>13 DEF becomesReady, becomes
<1>14. ASSUME NEW m \in Clients, stops(m) PROVE StartTypeOK'
  BY <1>14 DEF stops, becomes
<1>15. ASSUME NEW m \in Clients, MasterCrashes(m) PROVE StartTypeOK'
  BY <1>15 DEF MasterCrashes
<1>16. CASE UNCHANGED startVars
  BY <1>16 DEF startVars
<1>. QED
  BY <1>1, <1>2, <1>3, <1>4, <1>5, <1>6, <1>7, <1>8, <1>9, <1>10, <1>11, <1>12, <1>13, <1>14,
     <1>15, <1>16 DEF StartNext, StartStep, client

\* Every variable of the start keeps its type, whatever crashes and however slow a
\* probe is.
THEOREM StartTypeCorrect == StartSpec => []StartTypeOK
BY StartTypeInit, StartTypeNext, PTL DEF StartSpec

-----------------------------------------------------------------------------
(* The lock. *)

LEMMA StartInvInit == StartInit => StartInv
<1> SUFFICES ASSUME StartInit PROVE StartInv
  OBVIOUS
<1>1. StartTypeOK
  BY StartTypeInit
<1>2. PlaceInv
  BY DEF StartInit, PlaceInv, Locked, Alive
<1>3. LockInv /\ LiveSocketKept
  BY DEF StartInit, LockInv, Holds, LiveSocketKept, Alive, Listening
<1>. QED
  BY <1>1, <1>2, <1>3 DEF StartInv

\* A client that goes on without a return, or without a lock, keeps what it holds.
LEMMA PlaceStep == StartInv /\ [StartNext]_startVars => PlaceInv'
<1> SUFFICES ASSUME StartInv, [StartNext]_startVars
             PROVE  PlaceInv'
  OBVIOUS
<1>. USE DEF StartInv, StartTypeOK, PlaceInv, Locked, Alive, goes, leaves, move
<1>1. ASSUME NEW c \in Clients, looks(c) PROVE PlaceInv'
  BY <1>1 DEF looks
<1>2. ASSUME NEW c \in Clients, probes(c) PROVE PlaceInv'
  BY <1>2 DEF probes
<1>3. ASSUME NEW c \in Clients, triesLock(c) PROVE PlaceInv'
  BY <1>3 DEF triesLock
<1>4. ASSUME NEW c \in Clients, probesAgain(c) PROVE PlaceInv'
  BY <1>4 DEF probesAgain
<1>5. ASSUME NEW c \in Clients, removes(c) PROVE PlaceInv'
  BY <1>5 DEF removes
<1>6. ASSUME NEW c \in Clients, resolves(c) PROVE PlaceInv'
  BY <1>6 DEF resolves
<1>7. ASSUME NEW c \in Clients, launches(c) PROVE PlaceInv'
  BY <1>7 DEF launches
<1>8. ASSUME NEW c \in Clients, awaits(c) PROVE PlaceInv'
  BY <1>8 DEF awaits
<1>9. ASSUME NEW c \in Clients, StartupEnds(c) PROVE PlaceInv'
  BY <1>9 DEF StartupEnds
<1>10. ASSUME NEW c \in Clients, ClientCrashes(c) PROVE PlaceInv'
  BY <1>10 DEF ClientCrashes, Starting
<1>11. ASSUME NEW m \in Clients, boots(m) PROVE PlaceInv'
  BY <1>11 DEF boots, becomes
<1>12. ASSUME NEW m \in Clients, binds(m) PROVE PlaceInv'
  BY <1>12 DEF binds, becomes
<1>13. ASSUME NEW m \in Clients, becomesReady(m) PROVE PlaceInv'
  BY <1>13 DEF becomesReady, becomes
<1>14. ASSUME NEW m \in Clients, stops(m) PROVE PlaceInv'
  BY <1>14 DEF stops, becomes
<1>15. ASSUME NEW m \in Clients, MasterCrashes(m) PROVE PlaceInv'
  BY <1>15 DEF MasterCrashes
<1>16. CASE UNCHANGED startVars
  BY <1>16 DEF startVars
<1>. QED
  BY <1>1, <1>2, <1>3, <1>4, <1>5, <1>6, <1>7, <1>8, <1>9, <1>10, <1>11, <1>12, <1>13, <1>14,
     <1>15, <1>16 DEF StartNext, StartStep, client

\* Only triesLock adds a holder: the lock is free, of children too. A client that
\* launches a child has the lock already.
LEMMA LockStep == StartInv /\ [StartNext]_startVars => LockInv'
<1> SUFFICES ASSUME StartInv, [StartNext]_startVars
             PROVE  LockInv'
  OBVIOUS
<1>1. ASSUME NEW c \in Clients, triesLock(c) PROVE LockInv'
  <2>1. CASE LockFree /\ open' = open \cup {c} /\ child' = child
    BY <2>1 DEF StartInv, StartTypeOK, LockFree, LockInv, Holds, Alive
  <2>2. CASE open' \subseteq open /\ child' = child
    BY <2>2 DEF StartInv, LockInv, Holds, Alive
  <2>. QED
    BY <1>1, <2>1, <2>2 DEF triesLock, goes, leaves, move
<1>2. ASSUME NEW c \in Clients, launches(c) PROVE LockInv'
  <2>1. c \in open
    BY <1>2 DEF StartInv, PlaceInv, Locked, launches, goes, leaves, move
  <2>2. open' \subseteq open /\ \A d \in Clients : d # c => child'[d] = child[d]
    BY <1>2 DEF StartInv, StartTypeOK, launches, goes, leaves, move
  <2>3. \A d \in Clients : Holds(d)' => Holds(d)
    BY <2>1, <2>2 DEF Holds, Alive
  <2>. QED
    BY <2>3 DEF StartInv, LockInv
<1>3. CASE /\ open' \subseteq open
           /\ \A d \in Clients : child[d] = "none" => child'[d] = "none"
  BY <1>3 DEF StartInv, LockInv, Holds, Alive
<1>4. ASSUME NEW c \in Clients, \/ looks(c) \/ probes(c) \/ probesAgain(c) \/ removes(c)
                                \/ resolves(c) \/ awaits(c) \/ StartupEnds(c) \/ ClientCrashes(c)
      PROVE  open' \subseteq open /\ \A d \in Clients : child[d] = "none" => child'[d] = "none"
  BY <1>4 DEF StartInv, StartTypeOK, looks, probes, probesAgain, removes, resolves, awaits,
              StartupEnds, ClientCrashes, goes, leaves, move
<1>5. ASSUME NEW m \in Clients, \/ boots(m) \/ binds(m) \/ becomesReady(m) \/ stops(m)
                                \/ MasterCrashes(m)
      PROVE  open' \subseteq open /\ \A d \in Clients : child[d] = "none" => child'[d] = "none"
  BY <1>5 DEF StartInv, StartTypeOK, boots, binds, becomesReady, stops, MasterCrashes, becomes
<1>6. CASE UNCHANGED startVars
  BY <1>6, <1>3 DEF startVars
<1>. QED
  BY <1>1, <1>2, <1>3, <1>4, <1>5, <1>6 DEF StartNext, StartStep, client

-----------------------------------------------------------------------------
(* The socket. *)

\* Who removes a socket has the lock and no child, or is the only child there is.
LEMMA SocketStep == StartInv /\ [StartNext]_startVars => LiveSocketKept'
<1> SUFFICES ASSUME StartInv, [StartNext]_startVars, NEW m \in Clients, Listening(m)'
             PROVE  path' = m
  BY DEF LiveSocketKept
<1>. USE DEF Listening
<1>1. ASSUME NEW c \in Clients, removes(c) PROVE FALSE
  <2>1. c \in open /\ ~Alive(c)
    BY <1>1 DEF StartInv, PlaceInv, Locked, removes, goes, leaves, move
  <2>2. Alive(m)
    BY <1>1 DEF removes, Alive
  <2>. QED
    BY <2>1, <2>2 DEF StartInv, LockInv, Holds
<1>2. ASSUME NEW n \in Clients, binds(n) \/ becomesReady(n) \/ stops(n) PROVE path' = m
  <2>1. Alive(n)
    BY <1>2 DEF binds, becomesReady, stops, becomes, Alive
  <2>2. CASE n # m
    <3>1. child'[m] = child[m]
      BY <1>2, <2>2 DEF StartInv, StartTypeOK, binds, becomesReady, stops, becomes
    <3>. QED
      BY <2>1, <2>2, <3>1 DEF StartInv, LockInv, Holds, Alive
  <2>3. CASE n = m
    BY <1>2, <2>3 DEF StartInv, StartTypeOK, LiveSocketKept, binds, becomesReady, stops, becomes
  <2>. QED
    BY <2>2, <2>3
<1>3. ASSUME NEW c \in Clients, \/ looks(c) \/ probes(c) \/ triesLock(c) \/ probesAgain(c)
                                \/ resolves(c) \/ launches(c) \/ awaits(c) \/ StartupEnds(c)
                                \/ ClientCrashes(c) \/ boots(c) \/ MasterCrashes(c)
      PROVE  path' = path /\ Listening(m)
  BY <1>3 DEF StartInv, StartTypeOK, looks, probes, triesLock, probesAgain, resolves, launches, awaits,
              StartupEnds, ClientCrashes, boots, MasterCrashes, becomes, goes, leaves, move
<1>4. CASE UNCHANGED startVars
  BY <1>4 DEF StartInv, LiveSocketKept, startVars
<1>. QED
  BY <1>1, <1>2, <1>3, <1>4 DEF StartInv, LiveSocketKept, StartNext, StartStep, client

-----------------------------------------------------------------------------
(* The theorems. *)

\* In every reachable state places, lock, children and socket agree, for any number
\* of clients.
THEOREM StartInductive == StartSpec => []StartInv
<1>1. StartInv /\ [StartNext]_startVars => StartInv'
  BY StartTypeNext, PlaceStep, LockStep, SocketStep DEF StartInv
<1>. QED
  BY <1>1, StartInvInit, PTL DEF StartSpec

\* However many clients start a master for a path at once, crash or are killed, there
\* are never two masters, draining ones included.
THEOREM SingleMaster == StartSpec => []OneMaster
<1>1. StartInv => OneMaster
  BY DEF StartInv, LockInv, Holds, OneMaster
<1>. QED
  BY <1>1, StartInductive, PTL

\* Nobody removes or replaces the socket of a master that listens: not a starter whose
\* probe it missed, nor a master that fails or stops.
THEOREM SocketKept == StartSpec => []LiveSocketKept
<1>1. StartInv => LiveSocketKept
  BY DEF StartInv
<1>. QED
  BY <1>1, StartInductive, PTL

\* The password is resolved only when there is no master.
THEOREM PasswordWhenNeeded == StartSpec => []PasswordNeeded
<1>1. StartInv => PasswordNeeded
  <2> SUFFICES ASSUME StartInv, NEW c \in Clients, start[c] = "resolve", NEW m \in Clients, Alive(m)
               PROVE  FALSE
    BY DEF PasswordNeeded
  <2>1. c \in open /\ ~Alive(c)
    BY DEF StartInv, PlaceInv, Locked
  <2>. QED
    BY <2>1 DEF StartInv, LockInv, Holds
<1>. QED
  BY <1>1, StartInductive, PTL
===============================================================================
