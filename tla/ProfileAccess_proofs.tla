------------------------ MODULE ProfileAccess_proofs ------------------------
(***************************************************************************)
(* No lock is left behind while the container is not recreated, for any    *)
(* number of readers, openers, confirmers and pids.                        *)
(*                                                                         *)
(* AtRestUnlocked says nothing of the steps on the way to rest, so it is   *)
(* not inductive; LockIsOwed is, with the types.                           *)
(***************************************************************************)
EXTENDS ProfileAccess, TLAPS

\* The lock has a process that will release it.
Owned == Holds(lockFile) \/ \E c \in Confirmers : pc[c] \in Stopping

IInv == TypeOK /\ LockIsOwed
-----------------------------------------------------------------------------
(* Types.                                                                  *)

\* A step of one process between known places keeps pc a function to places.
LEMMA MoveType ==
  ASSUME TypeOK, NEW a \in Actors, NEW from, NEW to \in Places, Move(a, from, to)
  PROVE  pc' \in [Actors -> Places]
  BY DEF TypeOK, Move

\* The steps that only change pc keep every type.
LEMMA QuietTypes ==
  ASSUME TypeOK, NEW a \in Actors, NEW from, NEW to \in Places, Move(a, from, to),
         UNCHANGED <<files, child, seen, browser, world>>
  PROVE  TypeOK'
<1>1. pc' \in [Actors -> Places]
  BY MoveType
<1>2. QED
  BY <1>1 DEF TypeOK, files, browser, world

\* The operations on the lock file keep every type.
LEMMA LockTypes ==
  ASSUME TypeOK, NEW a \in Actors, NEW from,
         NEW p \in Places, NEW q \in Places,
         \/ AcquireTest(a, from, p, q) \/ AcquireWrite(a, from, p)
         \/ ReleaseTest(a, from, p, q) \/ ReleaseUnlink(a, from, p, q)
         \/ OrphanTest(a, from, p, q)
  PROVE  TypeOK'
<1>1. CASE AcquireTest(a, from, p, q)
  <2>1. (IF Locked THEN q ELSE p) \in Places
    OBVIOUS
  <2>2. QED
    BY <1>1, <2>1, QuietTypes DEF AcquireTest
<1>2. CASE AcquireWrite(a, from, p)
  <2>1. pc' \in [Actors -> Places]
    BY <1>2, MoveType DEF AcquireWrite
  <2>2. QED
    BY <1>2, <2>1 DEF AcquireWrite, TypeOK, browser, world
<1>3. CASE ReleaseTest(a, from, p, q)
  <2>1. (IF Locked THEN p ELSE q) \in Places
    OBVIOUS
  <2>2. QED
    BY <1>3, <2>1, QuietTypes DEF ReleaseTest
<1>4. CASE ReleaseUnlink(a, from, p, q)
  <2>1. (IF Locked THEN p ELSE q) \in Places
    OBVIOUS
  <2>2. pc' \in [Actors -> Places]
    BY <1>4, <2>1, MoveType DEF ReleaseUnlink
  <2>3. QED
    BY <1>4, <2>2 DEF ReleaseUnlink, TypeOK, browser, world
<1>5. CASE OrphanTest(a, from, p, q)
  <2>1. (IF Locked /\ chrome = {} THEN p ELSE q) \in Places
    OBVIOUS
  <2>2. QED
    BY <1>5, <2>1, QuietTypes DEF OrphanTest
<1>6. QED
  BY <1>1, <1>2, <1>3, <1>4, <1>5

\* The operations on Chromium, its singleton and the marker keep every type.
LEMMA BrowserTypes ==
  ASSUME TypeOK, NEW a \in Actors, NEW from,
         NEW p \in Places, NEW q \in Places,
         \/ Launch(a, from, p, q) \/ Close(a, from, p)
         \/ SingletonTest(a, from, p, q) \/ SingletonClear(a, from, p)
         \/ MarkPending(a, from, p)
  PROVE  TypeOK'
<1>1. CASE Launch(a, from, p, q)
  <2>1. pc' \in [Actors -> Places]
    BY <1>1, MoveType DEF Launch
  <2>2. QED
    BY <1>1, <2>1 DEF Launch, TypeOK, files, browser, world
<1>2. CASE Close(a, from, p)
  <2>1. pc' \in [Actors -> Places]
    BY <1>2, MoveType DEF Close
  <2>2. QED
    BY <1>2, <2>1 DEF Close, ChromeEnds, TypeOK, files, world
<1>3. CASE SingletonTest(a, from, p, q)
  <2>1. (IF singleton # NoOne /\ chrome = {} THEN p ELSE q) \in Places
    OBVIOUS
  <2>2. QED
    BY <1>3, <2>1, QuietTypes DEF SingletonTest
<1>4. CASE SingletonClear(a, from, p)
  <2>1. pc' \in [Actors -> Places]
    BY <1>4, MoveType DEF SingletonClear
  <2>2. QED
    BY <1>4, <2>1 DEF SingletonClear, TypeOK, files, world
<1>5. CASE MarkPending(a, from, p)
  <2>1. pc' \in [Actors -> Places]
    BY <1>5, MoveType DEF MarkPending
  <2>2. QED
    BY <1>5, <2>1 DEF MarkPending, TypeOK, browser, world
<1>6. QED
  BY <1>1, <1>2, <1>3, <1>4, <1>5

\* Every process keeps every type.
LEMMA TypeStep == TypeOK /\ [Next]_vars => TypeOK'
<1> SUFFICES ASSUME TypeOK, [Next]_vars
             PROVE  TypeOK'
  OBVIOUS
<1> USE DEF Places
<1>1. ASSUME NEW r \in Readers, Read(r)
      PROVE  TypeOK'
  <2>1. r \in Actors
    BY DEF Actors
  <2>2. CASE \/ AcquireTest(r, "idle", "claim", "idle")
             \/ AcquireWrite(r, "claim", "launch")
             \/ ReleaseTest(r, "release", "unlink", "idle")
             \/ ReleaseUnlink(r, "unlink", "idle", "idle")
    BY <2>1, <2>2, LockTypes
  <2>3. CASE Launch(r, "launch", "browse", "release") \/ Close(r, "browse", "release")
    BY <2>1, <2>3, BrowserTypes
  <2>4. QED
    BY <1>1, <2>2, <2>3 DEF Read
<1>2. ASSUME NEW o \in Openers, OpenLogin(o)
      PROVE  TypeOK'
  <2>1. o \in Actors
    BY DEF Actors
  <2>2. CASE Spawn(o)
    <3>1. PICK w \in Windows : /\ pc' = [pc EXCEPT ![o] = "writePid", ![w] = "orphan"]
                               /\ child' = [child EXCEPT ![o] = w]
      BY <2>2 DEF Spawn
    <3>2. pc' \in [Actors -> Places]
      BY <3>1 DEF TypeOK
    <3>3. child' \in [Openers \cup Confirmers -> Windows \cup {NoOne}]
      BY <3>1 DEF TypeOK
    <3>4. QED
      BY <2>2, <3>2, <3>3 DEF Spawn, TypeOK, files, browser, world
  <2>3. CASE WritePid(o)
    <3>1. pc' \in [Actors -> Places]
      BY <2>1, <2>3, MoveType DEF WritePid
    <3>2. child[o] \in Windows \cup {NoOne}
      BY DEF TypeOK
    <3>3. QED
      BY <2>3, <3>1, <3>2 DEF WritePid, TypeOK, browser, world
  <2>4. QED
    BY <1>2, <2>1, <2>2, <2>3, LockTypes, BrowserTypes DEF OpenLogin
<1>3. ASSUME NEW w \in Windows, Window(w) \/ LogIn(w) \/ ChromeDies(w)
      PROVE  TypeOK'
  <2>1. w \in Actors
    BY DEF Actors
  <2>2. CASE Window(w)
    <3>1. CASE Foreground(w)
      BY <2>1, <3>1, QuietTypes DEF Foreground
    <3>2. QED
      BY <2>1, <2>2, <3>1, LockTypes, BrowserTypes DEF Window
  <2>3. CASE LogIn(w)
    BY <2>3 DEF LogIn, TypeOK, files, browser
  <2>4. CASE ChromeDies(w)
    BY <2>4 DEF ChromeDies, ChromeEnds, TypeOK, files, world
  <2>5. QED
    BY <1>3, <2>2, <2>3, <2>4
<1>4. ASSUME NEW c \in Confirmers, Confirm(c) \/ ClearLogin(c)
      PROVE  TypeOK'
  <2>1. c \in Actors
    BY DEF Actors
  <2>2. CASE ReadPid(c)
    <3>1. pc' \in [Actors -> Places]
      BY <2>1, <2>2, MoveType DEF ReadPid
    <3>2. QED
      BY <2>2, <3>1 DEF ReadPid, TypeOK, files, browser, world
  <2>3. CASE Kill(c)
    BY <2>1, <2>3 DEF Kill, TypeOK, files, browser
  <2>4. CASE DropPid(c)
    <3>1. pc' \in [Actors -> Places]
      BY <2>1, <2>4, MoveType DEF DropPid
    <3>2. QED
      BY <2>4, <3>1 DEF DropPid, TypeOK, browser, world
  <2>5. CASE ReadPrior(c)
    BY <2>1, <2>5, QuietTypes DEF ReadPrior
  <2>6. CASE Probe(c)
    <3>1. pc' \in [Actors -> Places]
      BY <2>1, <2>6, MoveType DEF Probe
    <3>2. QED
      BY <2>6, <3>1 DEF Probe, ChromeEnds, TypeOK, files, world
  <2>7. CASE ProbeUnlink(c)
    <3>1. pc' \in [Actors -> Places]
      BY <2>1, <2>7, MoveType DEF ProbeUnlink
    <3>2. QED
      BY <2>7, <3>1 DEF ProbeUnlink, TypeOK, browser, world
  <2>8. CASE WriteMarker(c)
    <3>1. pc' \in [Actors -> Places]
      BY <2>1, <2>8, MoveType DEF WriteMarker
    <3>2. QED
      BY <2>8, <3>1 DEF WriteMarker, TypeOK, browser, world
  <2>9. CASE ClearLogin(c)
    <3>1. pc' \in [Actors -> Places]
      BY <2>1, <2>9, MoveType DEF ClearLogin
    <3>2. QED
      BY <2>9, <3>1 DEF ClearLogin, TypeOK, browser, world
  <2>10. QED
    BY <1>4, <2>1, <2>2, <2>3, <2>4, <2>5, <2>6, <2>7, <2>8, <2>9, LockTypes, BrowserTypes
       DEF Confirm
<1>5. CASE Restart
  BY <1>5, RestartsNatural DEF Restart, TypeOK, files
<1>6. CASE UNCHANGED vars
  BY <1>6 DEF vars, files, browser, world, TypeOK
<1>7. QED
  BY <1>1, <1>2, <1>3, <1>4, <1>5, <1>6 DEF Next
-----------------------------------------------------------------------------
(* Nobody loses the lock.                                                  *)

\* A step of one process that leaves the lock file alone keeps the lock owed,
\* unless that process gives up its duty to release.
LEMMA DutyKept ==
  ASSUME IInv, NEW a \in Actors, NEW from, NEW to, Move(a, from, to),
         lockFile' = lockFile, restarts' = restarts,
         a \notin Openers /\ from \in HoldPlaces => to \in HoldPlaces,
         a \in Confirmers /\ from \in Stopping => to \in Stopping
  PROVE  LockIsOwed'
<1> SUFFICES ASSUME restarts = 0, Locked
             PROVE  Owned'
  BY DEF LockIsOwed, Owned, Locked
<1>1. lockFile \in Actors /\ pc \in [Actors -> Places]
  BY DEF IInv, TypeOK, Locked
<1>2. CASE Holds(lockFile)
  BY <1>1, <1>2 DEF Move, Holds, Owned
<1>3. CASE \E c \in Confirmers : pc[c] \in Stopping
  <2>1. PICK c \in Confirmers : pc[c] \in Stopping
    BY <1>3
  <2>2. pc'[c] \in Stopping
    BY <1>1, <2>1 DEF Move, Actors
  <2>3. QED
    BY <2>2 DEF Owned
<1>4. QED
  BY <1>2, <1>3 DEF IInv, LockIsOwed, Owned

\* No lock file, no duty.
LEMMA Unlocked == lockFile' = NoOne => LockIsOwed'
  BY DEF LockIsOwed, Locked

\* Who writes the lock file is about to use the profile and to release it.
LEMMA WriterHolds ==
  ASSUME IInv, NEW a \in Actors \ Openers, NEW to \in HoldPlaces,
         AcquireWrite(a, "claim", to)
  PROVE  LockIsOwed'
<1>1. pc'[a] = to /\ lockFile' = a
  BY DEF AcquireWrite, Move, IInv, TypeOK
<1>2. QED
  BY <1>1 DEF LockIsOwed, Owned, Holds

\* release keeps the lock owed when it follows a duty with its own unlink.
LEMMA ReleaseBacked ==
  ASSUME IInv, NEW a \in Actors, NEW from, NEW p, NEW q,
         \/ /\ ReleaseTest(a, from, p, q)
            /\ a \notin Openers /\ from \in HoldPlaces => p \in HoldPlaces
            /\ a \in Confirmers /\ from \in Stopping => p \in Stopping
         \/ ReleaseUnlink(a, from, p, q)
  PROVE  LockIsOwed'
<1>1. CASE ReleaseUnlink(a, from, p, q)
  BY <1>1, Unlocked DEF ReleaseUnlink
<1>2. CASE ReleaseTest(a, from, p, q) /\ ~Locked
  BY <1>2, Unlocked DEF ReleaseTest, Locked, files
<1>3. CASE /\ ReleaseTest(a, from, p, q)
           /\ Locked
           /\ a \notin Openers /\ from \in HoldPlaces => p \in HoldPlaces
           /\ a \in Confirmers /\ from \in Stopping => p \in Stopping
  <2>1. Move(a, from, p) /\ lockFile' = lockFile /\ restarts' = restarts
    BY <1>3 DEF ReleaseTest, files, world
  <2>2. QED
    BY <1>3, <2>1, DutyKept
<1>4. QED
  BY <1>1, <1>2, <1>3

\* The steps that use the profile or ask for it, but keep off the lock file.
LEMMA QuietBacked ==
  ASSUME IInv, NEW a \in Actors, NEW from, NEW p, NEW q,
         \/ AcquireTest(a, from, p, q) \/ OrphanTest(a, from, p, q)
         \/ Launch(a, from, p, q) \/ (Close(a, from, p) /\ q = p)
         \/ SingletonTest(a, from, p, q) \/ (SingletonClear(a, from, p) /\ q = p)
         \/ (MarkPending(a, from, p) /\ q = p),
         a \notin Openers /\ from \in HoldPlaces => p \in HoldPlaces /\ q \in HoldPlaces,
         a \in Confirmers /\ from \in Stopping => p \in Stopping /\ q \in Stopping
  PROVE  LockIsOwed'
<1>1. PICK to \in {p, q} : Move(a, from, to)
  BY DEF AcquireTest, OrphanTest, Launch, Close, SingletonTest, SingletonClear, MarkPending
<1>2. lockFile' = lockFile /\ restarts' = restarts
  BY DEF AcquireTest, OrphanTest, Launch, Close, SingletonTest, SingletonClear, MarkPending,
         files, world
<1>3. QED
  BY <1>1, <1>2, DutyKept

\* No step of a process, and no restart, leaves a lock without a duty.
LEMMA OwedStep == IInv /\ [Next]_vars => LockIsOwed'
<1> SUFFICES ASSUME IInv, [Next]_vars
             PROVE  LockIsOwed'
  OBVIOUS
<1> USE DEF HoldPlaces, Stopping
<1>1. ASSUME NEW r \in Readers, Read(r)
      PROVE  LockIsOwed'
  <2>1. r \in Actors \ Openers /\ r \notin Confirmers
    BY DistinctKinds DEF Actors
  <2>2. CASE AcquireTest(r, "idle", "claim", "idle")
             \/ Launch(r, "launch", "browse", "release")
    BY <2>1, <2>2, QuietBacked
  <2>3. CASE Close(r, "browse", "release")
    BY <2>1, <2>3, QuietBacked
  <2>4. CASE AcquireWrite(r, "claim", "launch")
    BY <2>1, <2>4, WriterHolds
  <2>5. CASE ReleaseTest(r, "release", "unlink", "idle")
             \/ ReleaseUnlink(r, "unlink", "idle", "idle")
    BY <2>1, <2>5, ReleaseBacked
  <2>6. QED
    BY <1>1, <2>2, <2>3, <2>4, <2>5 DEF Read
<1>2. ASSUME NEW o \in Openers, OpenLogin(o)
      PROVE  LockIsOwed'
  <2>1. o \in Actors /\ o \notin Confirmers
    BY DistinctKinds DEF Actors
  <2>2. CASE OrphanTest(o, "idle", "dropLock", "mark")
             \/ SingletonTest(o, "singleton", "clear", "spawn")
    BY <2>1, <2>2, QuietBacked
  <2>3. CASE ReleaseTest(o, "dropLock", "dropUnlink", "mark")
             \/ ReleaseUnlink(o, "dropUnlink", "mark", "idle")
    BY <2>1, <2>3, ReleaseBacked
  <2>4. CASE MarkPending(o, "mark", "singleton") \/ SingletonClear(o, "clear", "spawn")
    BY <2>1, <2>4, QuietBacked
  <2>5. CASE Spawn(o)
    <3>1. PICK w \in Windows : /\ pc[w] = "idle"
                               /\ pc' = [pc EXCEPT ![o] = "writePid", ![w] = "orphan"]
      BY <2>5 DEF Spawn
    <3>2. lockFile' = lockFile /\ restarts' = restarts
      BY <2>5 DEF Spawn, files, world
    <3>3. \A c \in Confirmers : pc'[c] = pc[c]
      BY <2>1, <3>1, DistinctKinds DEF IInv, TypeOK, Actors
    <3>4. \A a \in Actors : Holds(a) => Holds(a)'
      BY <3>1 DEF IInv, TypeOK, Holds
    <3>5. QED
      BY <3>2, <3>3, <3>4 DEF IInv, TypeOK, LockIsOwed, Locked, Owned
  <2>6. CASE WritePid(o)
    <3>1. Move(o, "writePid", "idle") /\ lockFile' = lockFile /\ restarts' = restarts
      BY <2>6 DEF WritePid, world
    <3>2. QED
      BY <2>1, <3>1, DutyKept
  <2>7. QED
    BY <1>2, <2>2, <2>3, <2>4, <2>5, <2>6 DEF OpenLogin
<1>3. ASSUME NEW w \in Windows, Window(w)
      PROVE  LockIsOwed'
  <2>1. w \in Actors \ Openers /\ w \notin Confirmers
    BY DistinctKinds DEF Actors
  <2>2. CASE \/ OrphanTest(w, "orphan", "dropLock", "acquire")
             \/ AcquireTest(w, "acquire", "claim", "idle")
             \/ SingletonTest(w, "singleton", "clear", "launch")
             \/ Launch(w, "launch", "browse", "release")
    BY <2>1, <2>2, QuietBacked
  <2>3. CASE \/ MarkPending(w, "mark", "singleton")
             \/ SingletonClear(w, "clear", "launch")
             \/ Close(w, "browse", "release")
    BY <2>1, <2>3, QuietBacked
  <2>4. CASE AcquireWrite(w, "claim", "mark")
    BY <2>1, <2>4, WriterHolds
  <2>5. CASE \/ ReleaseTest(w, "dropLock", "dropUnlink", "acquire")
             \/ ReleaseUnlink(w, "dropUnlink", "acquire", "idle")
             \/ ReleaseTest(w, "release", "unlink", "idle")
             \/ ReleaseUnlink(w, "unlink", "idle", "idle")
    BY <2>1, <2>5, ReleaseBacked
  <2>6. CASE Foreground(w)
    <3>1. Move(w, "idle", "orphan") /\ lockFile' = lockFile /\ restarts' = restarts
      BY <2>6 DEF Foreground, files, world
    <3>2. QED
      BY <2>1, <3>1, DutyKept
  <2>7. QED
    BY <1>3, <2>2, <2>3, <2>4, <2>5, <2>6 DEF Window
<1>4. ASSUME NEW w \in Windows, LogIn(w) \/ ChromeDies(w)
      PROVE  LockIsOwed'
  BY <1>4 DEF LogIn, ChromeDies, IInv, LockIsOwed, Owned, Holds, Locked, files, world
<1>5. ASSUME NEW c \in Confirmers, Confirm(c) \/ ClearLogin(c)
      PROVE  LockIsOwed'
  <2>1. c \in Actors \ Openers
    BY DistinctKinds DEF Actors
  <2>2. CASE ReadPid(c)
    <3>1. /\ Move(c, "idle", IF pidFile = NoOne THEN "dropLock" ELSE "kill")
          /\ lockFile' = lockFile /\ restarts' = restarts
      BY <2>2 DEF ReadPid, files, world
    <3>2. QED
      BY <2>1, <3>1, DutyKept
  <2>3. CASE Kill(c)
    <3>1. pc'[c] \in Stopping
      BY <2>1, <2>3, DistinctKinds, DistinctNames DEF Kill, IInv, TypeOK, Actors
    <3>2. QED
      BY <3>1 DEF LockIsOwed, Owned
  <2>4. CASE DropPid(c)
    <3>1. pc'[c] \in Stopping
      BY <2>1, <2>4 DEF DropPid, Move, IInv, TypeOK
    <3>2. QED
      BY <3>1 DEF LockIsOwed, Owned
  <2>5. CASE ReadPrior(c)
    <3>1. /\ Move(c, "prior", IF marker = "pending_operator" THEN "acquire" ELSE "present")
          /\ lockFile' = lockFile /\ restarts' = restarts
      BY <2>5 DEF ReadPrior, files, world
    <3>2. QED
      BY <2>1, <3>1, DutyKept
  <2>6. CASE Probe(c)
    <3>1. Move(c, "browse", "release") /\ lockFile' = lockFile /\ restarts' = restarts
      BY <2>6 DEF Probe, files, world
    <3>2. QED
      BY <2>1, <3>1, DutyKept
  <2>7. CASE ProbeUnlink(c)
    BY <2>7, Unlocked DEF ProbeUnlink
  <2>8. CASE WriteMarker(c)
    <3>1. Move(c, "present", "idle") /\ lockFile' = lockFile /\ restarts' = restarts
      BY <2>8 DEF WriteMarker, world
    <3>2. QED
      BY <2>1, <3>1, DutyKept
  <2>9. CASE ClearLogin(c)
    <3>1. Move(c, "idle", "idle") /\ lockFile' = lockFile /\ restarts' = restarts
      BY <2>9 DEF ClearLogin, world
    <3>2. QED
      BY <2>1, <3>1, DutyKept
  <2>10. CASE \/ ReleaseTest(c, "dropLock", "dropUnlink", "prior")
              \/ ReleaseUnlink(c, "dropUnlink", "prior", "idle")
              \/ ReleaseTest(c, "release", "unlink", "present")
    BY <2>1, <2>10, ReleaseBacked
  <2>11. CASE \/ AcquireTest(c, "acquire", "claim", "present")
              \/ Launch(c, "launch", "browse", "release")
    BY <2>1, <2>11, QuietBacked
  <2>12. CASE AcquireWrite(c, "claim", "launch")
    BY <2>1, <2>12, WriterHolds
  <2>13. QED
    BY <1>5, <2>2, <2>3, <2>4, <2>5, <2>6, <2>7, <2>8, <2>9, <2>10, <2>11, <2>12 DEF Confirm
<1>6. CASE Restart
  BY <1>6 DEF Restart, LockIsOwed, IInv, TypeOK
<1>7. CASE UNCHANGED vars
  BY <1>7 DEF vars, files, world, IInv, LockIsOwed, Owned, Holds, Locked
<1>8. QED
  BY <1>1, <1>2, <1>3, <1>4, <1>5, <1>6, <1>7 DEF Next

\* The invariant holds from the start and in every reachable state.
LEMMA InductiveInvariant == Spec => []IInv
<1>1. Init => IInv
  BY RestartsNatural DEF Init, IInv, TypeOK, LockIsOwed, Locked, Places
<1>2. IInv /\ [Next]_vars => IInv'
  BY TypeStep, OwedStep DEF IInv
<1>3. QED
  BY <1>1, <1>2, PTL DEF Spec

\* The state has its type in every reachable state.
THEOREM TypeCorrect == Spec => []TypeOK
<1>1. IInv => TypeOK
  BY DEF IInv
<1>2. QED
  BY <1>1, InductiveInvariant, PTL

\* However many handlers overlap, fail and kill each other's windows, a lock has a process
\* that still is to remove it: the one it names, or a confirm.
THEOREM LocksAreOwed == Spec => []LockIsOwed
<1>1. IInv => LockIsOwed
  BY DEF IInv
<1>2. QED
  BY <1>1, InductiveInvariant, PTL

\* However many handlers overlap, fail and kill each other's windows, the profile is
\* unlocked once all have ended.
THEOREM NothingLeftBehind == Spec => []AtRestUnlocked
<1>1. IInv => AtRestUnlocked
  BY DEF IInv, TypeOK, LockIsOwed, Owned, Holds, HoldPlaces, Stopping, AtRestUnlocked, Locked,
         Actors
<1>2. QED
  BY <1>1, InductiveInvariant, PTL
=============================================================================
