----------------------- MODULE ChallengeHandoff_proofs -----------------------
(***************************************************************************)
(* Proofs about ChallengeHandoff, for any number of searches, openers and  *)
(* confirmers and any bounds.                                              *)
(***************************************************************************)
EXTENDS ChallengeHandoff, TLAPS

\* A handler at work has a challenge in its hands.
Holding ==
    \A a \in Handlers : pc[a] \notin {"idle", "reading", "done"} => read[a] \in Challenge

Sound(s) == /\ s.recovery => s.evidence \in Confirmed /\ s.status = "captured"
            /\ s.evidence = "url" => s.recovery

\* Every copy of a challenge, not only the stored one, offers recovery rightly.
CopiesSound ==
    /\ stored # None => Sound(stored)
    /\ \A a \in Handlers : read[a] # None => Sound(read[a])

Past == {"close", "handoff", "closeBare", "handoffBare", "notify", "done"}

\* A confirmed challenge belongs to a search that has met it and met its last.
Met(s) == s.evidence \in Confirmed => s.run \in Captors /\ pc[s.run] \in Past

CopiesMet ==
    /\ stored # None => Met(stored)
    /\ \A a \in Handlers : read[a] # None => Met(read[a])

IInv == TypeOK /\ Holding /\ CopiesSound /\ CopiesMet /\ ClearedIsProbed
-----------------------------------------------------------------------------

\* A new record, and one filed again, is a challenge.
LEMMA RecordTypes ==
  /\ \A k \in Captors, e \in Evidence : NewChallenge(k, e) \in Challenge
  /\ \A s \in Challenge : Refiled(s) \in Challenge
  /\ \A e \in Evidence : UrlAlone(e) \in Evidence
  /\ Phantom \in Challenge
<1>1. \A e \in Evidence : UrlAlone(e) \in Evidence /\ Classify(e) \in Statuses
  BY DEF Evidence, UrlAlone, Classify, Confirmed, Statuses
<1>2. \A k \in Captors, e \in Evidence : NewChallenge(k, e) \in Challenge
  BY <1>1 DEF NewChallenge, Challenge, Confirmed
<1>3. \A s \in Challenge : Refiled(s) \in Challenge
  BY <1>1 DEF Refiled, Challenge
<1>4. Phantom \in Challenge
  BY DEF Phantom, Challenge, Evidence, Statuses
<1>5. QED
  BY <1>1, <1>2, <1>3, <1>4

\* Every step keeps the types.
LEMMA TypeStep == TypeOK /\ Holding /\ [Next]_vars => TypeOK'
<1> SUFFICES ASSUME TypeOK, Holding, [Next]_vars
             PROVE  TypeOK'
  OBVIOUS
<1>1. ASSUME NEW k \in Captors, Search(k)
      PROVE  TypeOK'
  <2>0. k \in Handlers
    BY DEF Handlers
  <2>1. CASE StartReading(k)
    BY <2>0, <2>1 DEF StartReading, Move, TypeOK, Holding, Places, file, world, counts
  <2>2. CASE FinishReading(k)
    BY <2>0, <2>2 DEF FinishReading, Move, TypeOK, Holding, Places, file, world, counts
  <2>3. ASSUME NEW e \in Evidence, Capture(k, e)
        PROVE  TypeOK'
    BY <2>0, <2>3, RecordTypes DEF Capture, Move, TypeOK, Holding, Places, file, world, counts
  <2>4. ASSUME NEW e \in Evidence, CaptureFails(k, e)
        PROVE  TypeOK'
    BY <2>0, <2>4, RecordTypes DEF CaptureFails, Move, TypeOK, Holding, Places, file, world, counts
  <2>5. CASE CloseContext(k)
    BY <2>0, <2>5 DEF CloseContext, Move, End, TypeOK, Holding, Places, file, world, counts
  <2>6. CASE File(k)
    BY <2>0, <2>6, RecordTypes DEF File, Move, TypeOK, Holding, Places, file, world, counts
  <2>7. CASE FileAgain(k)
    BY <2>0, <2>7 DEF FileAgain, Move, End, TypeOK, Holding, Places, file, world, counts
  <2>8. QED
    BY <1>1, <2>1, <2>2, <2>3, <2>4, <2>5, <2>6, <2>7 DEF Search
<1>2. ASSUME NEW o \in Openers, Open(o) \/ WindowStep(o) \/ Solve(o)
      PROVE  TypeOK'
  <2>0. o \in Handlers
    BY DEF Handlers
  <2>1. ASSUME NEW g \in BOOLEAN, OpenRead(o, g)
        PROVE  TypeOK'
    BY <2>0, <2>1, RecordTypes, BoundsNatural
       DEF OpenRead, Move, TypeOK, Holding, Places, file, world, counts
  <2>2. CASE SpawnWindow(o)
    BY <2>0, <2>2 DEF SpawnWindow, Move, TypeOK, Holding, Places, file, world, counts
  <2>3. CASE OpenRefused(o)
    BY <2>0, <2>3 DEF OpenRefused, Move, End, TypeOK, Holding, Places, file, world, counts
  <2>4. CASE WriteOpened(o)
    BY <2>0, <2>4
       DEF WriteOpened, Move, End, TypeOK, Holding, Places, file, world, counts, Challenge
  <2>5. CASE OpenFails(o)
    BY <2>0, <2>5 DEF OpenFails, Move, End, TypeOK, Holding, Places, file, world, counts, Killed
  <2>6. CASE WindowLocks(o)
    BY <2>0, <2>6 DEF WindowLocks, TypeOK, Holding, Places, file, world, counts
  <2>7. CASE WindowFails(o)
    BY <2>0, <2>7 DEF WindowFails, TypeOK, Holding, Places, file, world, counts
  <2>8. CASE WindowEnds(o)
    BY <2>0, <2>8 DEF WindowEnds, TypeOK, Holding, Places, file, world, counts
  <2>9. CASE Solve(o)
    BY <2>0, <2>9 DEF Solve, TypeOK, Holding, Places, file, world, counts
  <2>10. QED
    BY <1>2, <2>1, <2>2, <2>3, <2>4, <2>5, <2>6, <2>7, <2>8, <2>9 DEF Open, WindowStep
<1>3. ASSUME NEW c \in Confirmers, Confirm(c)
      PROVE  TypeOK'
  <2>0. c \in Handlers
    BY DEF Handlers
  <2>1. CASE ConfirmRead(c)
    BY <2>0, <2>1 DEF ConfirmRead, Move, TypeOK, Holding, Places, file, world, counts
  <2>2. CASE Inspect(c)
    BY <2>0, <2>2 DEF Inspect, Move, TypeOK, Holding, Places, file, world, counts
  <2>3. CASE WriteBack(c)
    BY <2>0, <2>3 DEF WriteBack, Move, End, TypeOK, Holding, Places, file, world, counts
  <2>4. CASE Stop(c)
    BY <2>0, <2>4 DEF Stop, Move, TypeOK, Holding, Places, file, world, counts, Killed
  <2>5. CASE Recheck(c)
    BY <2>0, <2>5 DEF Recheck, Move, End, TypeOK, Holding, Places, file, world, counts
  <2>6. CASE Probe(c)
    BY <2>0, <2>6 DEF Probe, Move, End, TypeOK, Holding, Places, file, world, counts
  <2>7. CASE ProbeOk(c)
    BY <2>0, <2>7 DEF ProbeOk, Move, TypeOK, Holding, Places, file, world, counts
  <2>8. CASE ProbeFails(c)
    BY <2>0, <2>8 DEF ProbeFails, Move, End, TypeOK, Holding, Places, file, world, counts
  <2>9. CASE KeepChallenge(c)
    BY <2>0, <2>9
       DEF KeepChallenge, Move, End, TypeOK, Holding, Places, file, world, counts, Challenge
  <2>10. CASE ClearChallenge(c)
    BY <2>0, <2>10 DEF ClearChallenge, Move, End, TypeOK, Holding, Places, file, world, counts
  <2>11. QED
    BY <1>3, <2>1, <2>2, <2>3, <2>4, <2>5, <2>6, <2>7, <2>8, <2>9, <2>10 DEF Confirm
<1>4. CASE HHGates
  BY <1>4, BoundsNatural DEF HHGates, TypeOK, Holding, Places, file, world, counts
<1>5. CASE UNCHANGED vars
  BY <1>5 DEF vars, TypeOK, Holding, Places, file, world, counts
<1>6. QED
  BY <1>1, <1>2, <1>3, <1>4, <1>5 DEF Next

\* Every step keeps a challenge in the hands of whoever works on one.
LEMMA HoldingStep == TypeOK /\ Holding /\ [Next]_vars => Holding'
<1> SUFFICES ASSUME TypeOK, Holding, [Next]_vars
             PROVE  Holding'
  OBVIOUS
<1>1. ASSUME NEW k \in Captors, Search(k)
      PROVE  Holding'
  <2>0. k \in Handlers
    BY DEF Handlers
  <2>1. CASE StartReading(k)
    BY <2>0, <2>1 DEF StartReading, Move, TypeOK, Holding, file, world, counts
  <2>2. CASE FinishReading(k)
    BY <2>0, <2>2 DEF FinishReading, Move, TypeOK, Holding, file, world, counts
  <2>3. ASSUME NEW e \in Evidence, Capture(k, e)
        PROVE  Holding'
    BY <2>0, <2>3, RecordTypes DEF Capture, Move, TypeOK, Holding, file, world, counts
  <2>4. ASSUME NEW e \in Evidence, CaptureFails(k, e)
        PROVE  Holding'
    BY <2>0, <2>4, RecordTypes DEF CaptureFails, Move, TypeOK, Holding, file, world, counts
  <2>5. CASE CloseContext(k)
    BY <2>0, <2>5 DEF CloseContext, Move, End, TypeOK, Holding, file, world, counts
  <2>6. CASE File(k)
    BY <2>0, <2>6, RecordTypes DEF File, Move, TypeOK, Holding, file, world, counts
  <2>7. CASE FileAgain(k)
    BY <2>0, <2>7 DEF FileAgain, Move, End, TypeOK, Holding, file, world, counts
  <2>8. QED
    BY <1>1, <2>1, <2>2, <2>3, <2>4, <2>5, <2>6, <2>7 DEF Search
<1>2. ASSUME NEW o \in Openers, Open(o) \/ WindowStep(o) \/ Solve(o)
      PROVE  Holding'
  <2>0. o \in Handlers
    BY DEF Handlers
  <2>1. ASSUME NEW g \in BOOLEAN, OpenRead(o, g)
        PROVE  Holding'
    BY <2>0, <2>1, RecordTypes DEF OpenRead, Move, TypeOK, Holding, file, world, counts
  <2>2. CASE SpawnWindow(o)
    BY <2>0, <2>2 DEF SpawnWindow, Move, TypeOK, Holding, file, world, counts
  <2>3. CASE OpenRefused(o)
    BY <2>0, <2>3 DEF OpenRefused, Move, End, TypeOK, Holding, file, world, counts
  <2>4. CASE WriteOpened(o)
    BY <2>0, <2>4 DEF WriteOpened, Move, End, TypeOK, Holding, file, world, counts
  <2>5. CASE OpenFails(o)
    BY <2>0, <2>5 DEF OpenFails, Move, End, TypeOK, Holding, file, world, counts
  <2>6. CASE WindowLocks(o)
    BY <2>0, <2>6 DEF WindowLocks, TypeOK, Holding, file, world, counts
  <2>7. CASE WindowFails(o)
    BY <2>0, <2>7 DEF WindowFails, TypeOK, Holding, file, world, counts
  <2>8. CASE WindowEnds(o)
    BY <2>0, <2>8 DEF WindowEnds, TypeOK, Holding, file, world, counts
  <2>9. CASE Solve(o)
    BY <2>0, <2>9 DEF Solve, TypeOK, Holding, file, world, counts
  <2>10. QED
    BY <1>2, <2>1, <2>2, <2>3, <2>4, <2>5, <2>6, <2>7, <2>8, <2>9 DEF Open, WindowStep
<1>3. ASSUME NEW c \in Confirmers, Confirm(c)
      PROVE  Holding'
  <2>0. c \in Handlers
    BY DEF Handlers
  <2>1. CASE ConfirmRead(c)
    BY <2>0, <2>1 DEF ConfirmRead, Move, TypeOK, Holding, file, world, counts
  <2>2. CASE Inspect(c)
    BY <2>0, <2>2 DEF Inspect, Move, TypeOK, Holding, file, world, counts
  <2>3. CASE WriteBack(c)
    BY <2>0, <2>3 DEF WriteBack, Move, End, TypeOK, Holding, file, world, counts
  <2>4. CASE Stop(c)
    BY <2>0, <2>4 DEF Stop, Move, TypeOK, Holding, file, world, counts
  <2>5. CASE Recheck(c)
    BY <2>0, <2>5 DEF Recheck, Move, End, TypeOK, Holding, file, world, counts
  <2>6. CASE Probe(c)
    BY <2>0, <2>6 DEF Probe, Move, End, TypeOK, Holding, file, world, counts
  <2>7. CASE ProbeOk(c)
    BY <2>0, <2>7 DEF ProbeOk, Move, TypeOK, Holding, file, world, counts
  <2>8. CASE ProbeFails(c)
    BY <2>0, <2>8 DEF ProbeFails, Move, End, TypeOK, Holding, file, world, counts
  <2>9. CASE KeepChallenge(c)
    BY <2>0, <2>9 DEF KeepChallenge, Move, End, TypeOK, Holding, file, world, counts
  <2>10. CASE ClearChallenge(c)
    BY <2>0, <2>10 DEF ClearChallenge, Move, End, TypeOK, Holding, file, world, counts
  <2>11. QED
    BY <1>3, <2>1, <2>2, <2>3, <2>4, <2>5, <2>6, <2>7, <2>8, <2>9, <2>10 DEF Confirm
<1>4. CASE HHGates
  BY <1>4 DEF HHGates, TypeOK, Holding, file, world, counts
<1>5. CASE UNCHANGED vars
  BY <1>5 DEF vars, TypeOK, Holding, file, world, counts
<1>6. QED
  BY <1>1, <1>2, <1>3, <1>4, <1>5 DEF Next
-----------------------------------------------------------------------------
(* What the steps do to the copies of a challenge: three make a record, the others *)
(* pass copies on, at most with another pid.                                       *)

Makes == \E k \in Captors : File(k) \/ \E e \in Evidence : Capture(k, e) \/ CaptureFails(k, e)

PassedOn ==
    /\ \/ stored' \in {stored, None}
       \/ \E a \in Handlers, p \in Openers \cup {None} :
              read[a] \in Challenge /\ stored' \in {read[a], [read[a] EXCEPT !.pid = p]}
    /\ \A b \in Handlers : read'[b] \in {read[b], stored, Phantom, None}

\* Every step makes a record or passes copies on.
LEMMA CopyStep == TypeOK /\ Holding /\ [Next]_vars => Makes \/ PassedOn
<1> SUFFICES ASSUME TypeOK, Holding, [Next]_vars
             PROVE  Makes \/ PassedOn
  OBVIOUS
<1>1. ASSUME NEW k \in Captors, Search(k)
      PROVE  Makes \/ PassedOn
  <2>0. k \in Handlers
    BY DEF Handlers
  <2>1. CASE StartReading(k)
    BY <2>0, <2>1 DEF StartReading, Move, TypeOK, Holding, PassedOn, file, world, counts
  <2>2. CASE FinishReading(k)
    BY <2>0, <2>2 DEF FinishReading, Move, TypeOK, Holding, PassedOn, file, world, counts
  <2>3. ASSUME NEW e \in Evidence, Capture(k, e)
        PROVE  Makes \/ PassedOn
    BY <2>0, <2>3 DEF Makes
  <2>4. ASSUME NEW e \in Evidence, CaptureFails(k, e)
        PROVE  Makes \/ PassedOn
    BY <2>0, <2>4 DEF Makes
  <2>5. CASE CloseContext(k)
    BY <2>0, <2>5 DEF CloseContext, Move, End, TypeOK, Holding, PassedOn, file, world, counts
  <2>6. CASE File(k)
    BY <2>0, <2>6 DEF Makes
  <2>7. CASE FileAgain(k)
    BY <2>0, <2>7 DEF FileAgain, Move, End, TypeOK, Holding, PassedOn, file, world, counts
  <2>8. QED
    BY <1>1, <2>1, <2>2, <2>3, <2>4, <2>5, <2>6, <2>7 DEF Search
<1>2. ASSUME NEW o \in Openers, Open(o) \/ WindowStep(o) \/ Solve(o)
      PROVE  Makes \/ PassedOn
  <2>0. o \in Handlers
    BY DEF Handlers
  <2>1. ASSUME NEW g \in BOOLEAN, OpenRead(o, g)
        PROVE  Makes \/ PassedOn
    BY <2>0, <2>1 DEF OpenRead, Move, TypeOK, Holding, PassedOn, file, world, counts
  <2>2. CASE SpawnWindow(o)
    BY <2>0, <2>2 DEF SpawnWindow, Move, TypeOK, Holding, PassedOn, file, world, counts
  <2>3. CASE OpenRefused(o)
    BY <2>0, <2>3 DEF OpenRefused, Move, End, TypeOK, Holding, PassedOn, file, world, counts
  <2>4. CASE WriteOpened(o)
    BY <2>0, <2>4 DEF WriteOpened, Move, End, TypeOK, Holding, PassedOn, file, world, counts
  <2>5. CASE OpenFails(o)
    BY <2>0, <2>5 DEF OpenFails, Move, End, TypeOK, Holding, PassedOn, file, world, counts
  <2>6. CASE WindowLocks(o)
    BY <2>0, <2>6 DEF WindowLocks, TypeOK, Holding, PassedOn, file, world, counts
  <2>7. CASE WindowFails(o)
    BY <2>0, <2>7 DEF WindowFails, TypeOK, Holding, PassedOn, file, world, counts
  <2>8. CASE WindowEnds(o)
    BY <2>0, <2>8 DEF WindowEnds, TypeOK, Holding, PassedOn, file, world, counts
  <2>9. CASE Solve(o)
    BY <2>0, <2>9 DEF Solve, TypeOK, Holding, PassedOn, file, world, counts
  <2>10. QED
    BY <1>2, <2>1, <2>2, <2>3, <2>4, <2>5, <2>6, <2>7, <2>8, <2>9 DEF Open, WindowStep
<1>3. ASSUME NEW c \in Confirmers, Confirm(c)
      PROVE  Makes \/ PassedOn
  <2>0. c \in Handlers
    BY DEF Handlers
  <2>1. CASE ConfirmRead(c)
    BY <2>0, <2>1 DEF ConfirmRead, Move, TypeOK, Holding, PassedOn, file, world, counts
  <2>2. CASE Inspect(c)
    BY <2>0, <2>2 DEF Inspect, Move, TypeOK, Holding, PassedOn, file, world, counts
  <2>3. CASE WriteBack(c)
    BY <2>0, <2>3 DEF WriteBack, Move, End, TypeOK, Holding, PassedOn, file, world, counts
  <2>4. CASE Stop(c)
    BY <2>0, <2>4 DEF Stop, Move, TypeOK, Holding, PassedOn, file, world, counts
  <2>5. CASE Recheck(c)
    BY <2>0, <2>5 DEF Recheck, Move, End, TypeOK, Holding, PassedOn, file, world, counts
  <2>6. CASE Probe(c)
    BY <2>0, <2>6 DEF Probe, Move, End, TypeOK, Holding, PassedOn, file, world, counts
  <2>7. CASE ProbeOk(c)
    BY <2>0, <2>7 DEF ProbeOk, Move, TypeOK, Holding, PassedOn, file, world, counts
  <2>8. CASE ProbeFails(c)
    BY <2>0, <2>8 DEF ProbeFails, Move, End, TypeOK, Holding, PassedOn, file, world, counts
  <2>9. CASE KeepChallenge(c)
    BY <2>0, <2>9 DEF KeepChallenge, Move, End, TypeOK, Holding, PassedOn, file, world, counts
  <2>10. CASE ClearChallenge(c)
    BY <2>0, <2>10 DEF ClearChallenge, Move, End, TypeOK, Holding, PassedOn, file, world, counts
  <2>11. QED
    BY <1>3, <2>1, <2>2, <2>3, <2>4, <2>5, <2>6, <2>7, <2>8, <2>9, <2>10 DEF Confirm
<1>4. CASE HHGates
  BY <1>4 DEF HHGates, TypeOK, Holding, PassedOn, file, world, counts
<1>5. CASE UNCHANGED vars
  BY <1>5 DEF vars, TypeOK, Holding, PassedOn, file, world, counts
<1>6. QED
  BY <1>1, <1>2, <1>3, <1>4, <1>5 DEF Next
\* A search that has met its challenge stays past it.
PastStays == \A q \in Captors : pc[q] \in Past => pc'[q] \in Past

LEMMA PastStep == TypeOK /\ [Next]_vars => PastStays
<1> SUFFICES ASSUME TypeOK, [Next]_vars
             PROVE  PastStays
  OBVIOUS
<1> USE DEF PastStays
<1>1. ASSUME NEW k \in Captors, Search(k)
      PROVE  PastStays
  <2>0. k \in Handlers
    BY DEF Handlers
  <2>1. CASE StartReading(k)
    BY <2>0, <2>1, DistinctKinds DEF StartReading, Move, TypeOK, Past, Handlers, file, world, counts
  <2>2. CASE FinishReading(k)
    BY <2>0, <2>2, DistinctKinds
       DEF FinishReading, Move, TypeOK, Past, Handlers, file, world, counts
  <2>3. ASSUME NEW e \in Evidence, Capture(k, e)
        PROVE  PastStays
    BY <2>0, <2>3, DistinctKinds DEF Capture, Move, TypeOK, Past, Handlers, file, world, counts
  <2>4. ASSUME NEW e \in Evidence, CaptureFails(k, e)
        PROVE  PastStays
    BY <2>0, <2>4, DistinctKinds DEF CaptureFails, Move, TypeOK, Past, Handlers, file, world, counts
  <2>5. CASE CloseContext(k)
    BY <2>0, <2>5, DistinctKinds
       DEF CloseContext, Move, End, TypeOK, Past, Handlers, file, world, counts
  <2>6. CASE File(k)
    BY <2>0, <2>6, DistinctKinds DEF File, Move, TypeOK, Past, Handlers, file, world, counts
  <2>7. CASE FileAgain(k)
    BY <2>0, <2>7, DistinctKinds
       DEF FileAgain, Move, End, TypeOK, Past, Handlers, file, world, counts
  <2>8. QED
    BY <1>1, <2>1, <2>2, <2>3, <2>4, <2>5, <2>6, <2>7 DEF Search
<1>2. ASSUME NEW o \in Openers, Open(o) \/ WindowStep(o) \/ Solve(o)
      PROVE  PastStays
  <2>0. o \in Handlers
    BY DEF Handlers
  <2>1. ASSUME NEW g \in BOOLEAN, OpenRead(o, g)
        PROVE  PastStays
    BY <2>0, <2>1, DistinctKinds DEF OpenRead, Move, TypeOK, Past, Handlers, file, world, counts
  <2>2. CASE SpawnWindow(o)
    BY <2>0, <2>2, DistinctKinds DEF SpawnWindow, Move, TypeOK, Past, Handlers, file, world, counts
  <2>3. CASE OpenRefused(o)
    BY <2>0, <2>3, DistinctKinds
       DEF OpenRefused, Move, End, TypeOK, Past, Handlers, file, world, counts
  <2>4. CASE WriteOpened(o)
    BY <2>0, <2>4, DistinctKinds
       DEF WriteOpened, Move, End, TypeOK, Past, Handlers, file, world, counts
  <2>5. CASE OpenFails(o)
    BY <2>0, <2>5, DistinctKinds
       DEF OpenFails, Move, End, TypeOK, Past, Handlers, file, world, counts
  <2>6. CASE WindowLocks(o)
    BY <2>0, <2>6, DistinctKinds DEF WindowLocks, TypeOK, Past, Handlers, file, world, counts
  <2>7. CASE WindowFails(o)
    BY <2>0, <2>7, DistinctKinds DEF WindowFails, TypeOK, Past, Handlers, file, world, counts
  <2>8. CASE WindowEnds(o)
    BY <2>0, <2>8, DistinctKinds DEF WindowEnds, TypeOK, Past, Handlers, file, world, counts
  <2>9. CASE Solve(o)
    BY <2>0, <2>9, DistinctKinds DEF Solve, TypeOK, Past, Handlers, file, world, counts
  <2>10. QED
    BY <1>2, <2>1, <2>2, <2>3, <2>4, <2>5, <2>6, <2>7, <2>8, <2>9 DEF Open, WindowStep
<1>3. ASSUME NEW c \in Confirmers, Confirm(c)
      PROVE  PastStays
  <2>0. c \in Handlers
    BY DEF Handlers
  <2>1. CASE ConfirmRead(c)
    BY <2>0, <2>1, DistinctKinds DEF ConfirmRead, Move, TypeOK, Past, Handlers, file, world, counts
  <2>2. CASE Inspect(c)
    BY <2>0, <2>2, DistinctKinds DEF Inspect, Move, TypeOK, Past, Handlers, file, world, counts
  <2>3. CASE WriteBack(c)
    BY <2>0, <2>3, DistinctKinds
       DEF WriteBack, Move, End, TypeOK, Past, Handlers, file, world, counts
  <2>4. CASE Stop(c)
    BY <2>0, <2>4, DistinctKinds DEF Stop, Move, TypeOK, Past, Handlers, file, world, counts
  <2>5. CASE Recheck(c)
    BY <2>0, <2>5, DistinctKinds DEF Recheck, Move, End, TypeOK, Past, Handlers, file, world, counts
  <2>6. CASE Probe(c)
    BY <2>0, <2>6, DistinctKinds DEF Probe, Move, End, TypeOK, Past, Handlers, file, world, counts
  <2>7. CASE ProbeOk(c)
    BY <2>0, <2>7, DistinctKinds DEF ProbeOk, Move, TypeOK, Past, Handlers, file, world, counts
  <2>8. CASE ProbeFails(c)
    BY <2>0, <2>8, DistinctKinds
       DEF ProbeFails, Move, End, TypeOK, Past, Handlers, file, world, counts
  <2>9. CASE KeepChallenge(c)
    BY <2>0, <2>9, DistinctKinds
       DEF KeepChallenge, Move, End, TypeOK, Past, Handlers, file, world, counts
  <2>10. CASE ClearChallenge(c)
    BY <2>0, <2>10, DistinctKinds
       DEF ClearChallenge, Move, End, TypeOK, Past, Handlers, file, world, counts
  <2>11. QED
    BY <1>3, <2>1, <2>2, <2>3, <2>4, <2>5, <2>6, <2>7, <2>8, <2>9, <2>10 DEF Confirm
<1>4. CASE HHGates
  BY <1>4, DistinctKinds DEF HHGates, TypeOK, Past, Handlers, file, world, counts
<1>5. CASE UNCHANGED vars
  BY <1>5, DistinctKinds DEF vars, TypeOK, Past, Handlers, file, world, counts
<1>6. QED
  BY <1>1, <1>2, <1>3, <1>4, <1>5 DEF Next

\* Passing copies on keeps them sound, and those of a search past it.
LEMMA PassedOnKeeps ==
  ASSUME TypeOK, PassedOn
  PROVE  /\ CopiesSound => CopiesSound'
         /\ CopiesMet /\ PastStays => CopiesMet'
<1> DEFINE Old == {s \in Challenge : s = stored \/ \E b \in Handlers : s = read[b]}
<1>1. \A s \in Challenge, p \in Openers \cup {None} :
          LET t == [s EXCEPT !.pid = p]
          IN  /\ t.recovery = s.recovery /\ t.evidence = s.evidence
              /\ t.status = s.status /\ t.run = s.run
  BY DEF Challenge
<1>2. stored' # None => \E s \in Old : /\ stored'.recovery = s.recovery
                                       /\ stored'.evidence = s.evidence
                                       /\ stored'.status = s.status
                                       /\ stored'.run = s.run
  <2>1. CASE stored' \in {stored, None}
    BY <2>1 DEF TypeOK
  <2>2. ASSUME NEW a \in Handlers, NEW p \in Openers \cup {None}, read[a] \in Challenge,
               stored' \in {read[a], [read[a] EXCEPT !.pid = p]}
        PROVE  \E s \in Old : /\ stored'.recovery = s.recovery
                               /\ stored'.evidence = s.evidence
                               /\ stored'.status = s.status
                               /\ stored'.run = s.run
    <3>1. read[a] \in Old
      BY <2>2
    <3>2. /\ stored'.recovery = read[a].recovery /\ stored'.evidence = read[a].evidence
          /\ stored'.status = read[a].status /\ stored'.run = read[a].run
      <4>1. CASE stored' = read[a]
        BY <4>1
      <4>2. CASE stored' = [read[a] EXCEPT !.pid = p]
        BY <1>1, <2>2, <4>2
      <4>3. QED
        BY <2>2, <4>1, <4>2
    <3>3. QED
      BY <3>1, <3>2
  <2>3. QED
    BY <2>1, <2>2 DEF PassedOn
<1>3. \A b \in Handlers : read'[b] # None => read'[b] \in Old \cup {Phantom}
  BY DEF PassedOn, TypeOK
<1>4. Sound(Phantom) /\ Met(Phantom)'
  BY DEF Sound, Met, Phantom, Confirmed
<1>5. ASSUME CopiesSound
      PROVE  CopiesSound'
  <2>1. \A s \in Old : Sound(s)
    BY <1>5, NoneIsNoChallenge DEF CopiesSound
  <2>2. stored' # None => Sound(stored')
    BY <1>2, <2>1 DEF Sound
  <2>3. QED
    BY <1>3, <1>4, <2>1, <2>2 DEF CopiesSound
<1>6. ASSUME CopiesMet, PastStays
      PROVE  CopiesMet'
  <2>1. \A s \in Old : s.evidence \in Confirmed => s.run \in Captors /\ pc'[s.run] \in Past
    BY <1>6, NoneIsNoChallenge DEF CopiesMet, Met, PastStays
  <2>2. stored' # None => Met(stored)'
    BY <1>2, <2>1 DEF Met
  <2>3. \A b \in Handlers : read'[b] # None => Met(read[b])'
    BY <1>3, <1>4, <2>1 DEF Met
  <2>4. QED
    BY <2>2, <2>3 DEF CopiesMet
<1>7. QED
  BY <1>5, <1>6

\* A record made is sound, and of a search that is past meeting a challenge.
LEMMA MadeCopies ==
  ASSUME TypeOK, Holding, Makes
  PROVE  /\ CopiesSound => CopiesSound'
         /\ CopiesMet /\ PastStays => CopiesMet'
<1>1. PICK k \in Captors : File(k) \/ \E e \in Evidence : Capture(k, e) \/ CaptureFails(k, e)
  BY DEF Makes
<1>2. k \in Handlers
  BY DEF Handlers
<1>3. \A e \in Evidence : LET s == NewChallenge(k, e)
                          IN  Sound(s) /\ s.run = k /\ s.evidence = e
  BY DEF NewChallenge, Sound, Classify, Confirmed, Evidence
<1>4. \A s \in Challenge : /\ Sound(Refiled(s))
                           /\ Refiled(s).run = s.run /\ Refiled(s).evidence = s.evidence
  BY DEF Refiled, Sound, Classify, UrlAlone, Confirmed, Challenge
<1>5. CASE File(k)
  <2>1. /\ read[k] \in Challenge
        /\ read'[k] \in {read[k], Refiled(read[k])}
        /\ stored' = read'[k]
    BY <1>2, <1>5 DEF File, Move, Holding, TypeOK
  <2>2. \A b \in Handlers : b # k => read'[b] = read[b]
    BY <1>2, <1>5 DEF File, TypeOK
  <2>3. CopiesSound => CopiesSound'
    BY <1>2, <1>4, <2>1, <2>2, NoneIsNoChallenge DEF CopiesSound
  <2>4. CopiesMet /\ PastStays => Met(read[k])'
    <3> SUFFICES ASSUME CopiesMet, PastStays
                 PROVE  Met(read[k])'
      OBVIOUS
    <3>1. Met(read[k])
      BY <1>2, <2>1, NoneIsNoChallenge DEF CopiesMet
    <3>2. read'[k].run = read[k].run /\ read'[k].evidence = read[k].evidence
      BY <1>4, <2>1
    <3>3. QED
      BY <3>1, <3>2 DEF Met, PastStays
  <2>5. CopiesMet /\ PastStays => CopiesMet'
    <3> SUFFICES ASSUME CopiesMet, PastStays
                 PROVE  CopiesMet'
      OBVIOUS
    <3>1. stored' # None => Met(stored)'
      BY <2>4, <2>1 DEF Met
    <3>2. \A b \in Handlers : read'[b] # None => Met(read[b])'
      <4> SUFFICES ASSUME NEW b \in Handlers, read'[b] # None
                   PROVE  Met(read[b])'
        OBVIOUS
      <4>1. CASE b = k
        BY <2>4, <4>1
      <4>2. CASE b # k
        BY <2>2, <4>2 DEF CopiesMet, Met, PastStays
      <4>3. QED
        BY <4>1, <4>2
    <3>3. QED
      BY <3>1, <3>2 DEF CopiesMet
  <2>6. QED
    BY <2>3, <2>5
<1>6. ASSUME NEW e \in Evidence, Capture(k, e) \/ CaptureFails(k, e)
      PROVE  /\ CopiesSound => CopiesSound'
             /\ CopiesMet /\ PastStays => CopiesMet'
  <2>1. PICK f \in Evidence :
            /\ stored' \in {stored, NewChallenge(k, f)}
            /\ \A b \in Handlers : read'[b] \in {read[b], None, NewChallenge(k, f)}
            /\ f \in Confirmed => pc'[k] \in Past
    <3>1. CASE Capture(k, e)
      BY <1>2, <3>1 DEF Capture, Move, TypeOK, Past, Confirmed
    <3>2. CASE CaptureFails(k, e)
      <4>1. PICK f \in {e, UrlAlone(e)} :
                read' = [read EXCEPT ![k] = NewChallenge(k, f)]
        BY <3>2 DEF CaptureFails
      <4>2. f \in Evidence /\ stored' = stored /\ pc'[k] \in Past
        BY <1>2, <3>2, RecordTypes DEF CaptureFails, Move, TypeOK, Past, file
      <4>3. QED
        BY <1>2, <4>1, <4>2 DEF TypeOK
    <3>3. QED
      BY <1>6, <3>1, <3>2
  <2>2. CopiesSound => CopiesSound'
    BY <1>3, <2>1 DEF CopiesSound
  <2>3. Met(NewChallenge(k, f))'
    BY <1>3, <2>1 DEF Met
  <2>4. CopiesMet /\ PastStays => CopiesMet'
    BY <2>1, <2>3 DEF CopiesMet, Met, PastStays
  <2>5. QED
    BY <2>2, <2>4
<1>7. QED
  BY <1>1, <1>5, <1>6

\* Every step keeps all copies sound, and those of a search past its challenge.
LEMMA CopiesStep ==
  TypeOK /\ Holding /\ CopiesSound /\ CopiesMet /\ [Next]_vars => CopiesSound' /\ CopiesMet'
  BY CopyStep, PastStep, PassedOnKeeps, MadeCopies

\* A confirmed challenge in the hands of a confirm that is about to remove it is met.
LEMMA ClearersMet ==
  ASSUME Holding, CopiesMet, NEW c \in Confirmers, pc[c] = "clear",
         read[c].evidence \in Confirmed
  PROVE  read[c].run \in Captors /\ pc[read[c].run] \in Past
BY NoneIsNoChallenge DEF Holding, CopiesMet, Met, Handlers

\* No step lets a confirm remove what it has read without a good probe since.
LEMMA ProbedStep == IInv /\ [Next]_vars => ClearedIsProbed'
<1> SUFFICES ASSUME IInv, [Next]_vars
             PROVE  ClearedIsProbed'
  OBVIOUS
<1> USE DEF IInv
<1>1. ASSUME NEW k \in Captors, Search(k)
      PROVE  ClearedIsProbed'
  <2>0. k \in Handlers
    BY DEF Handlers
  <2>1. CASE StartReading(k)
    BY <2>0, <2>1, DistinctKinds
       DEF StartReading, Move, TypeOK, ClearedIsProbed, Handlers, file, world, counts
  <2>2. CASE FinishReading(k)
    BY <2>0, <2>2, DistinctKinds
       DEF FinishReading, Move, TypeOK, ClearedIsProbed, Handlers, file, world, counts
  <2>3. ASSUME NEW e \in Evidence, Capture(k, e)
        PROVE  ClearedIsProbed'
    <3>1. /\ pc[k] = "reading" /\ proven' = proven \ {k}
          /\ \A d \in Confirmers : pc'[d] = pc[d] /\ read'[d] = read[d]
      BY <2>0, <2>3, DistinctKinds DEF Capture, Move, TypeOK, Handlers
    <3>2. QED
      BY <3>1, ClearersMet DEF ClearedIsProbed, Past
  <2>4. ASSUME NEW e \in Evidence, CaptureFails(k, e)
        PROVE  ClearedIsProbed'
    <3>1. /\ pc[k] = "reading" /\ proven' = proven \ {k}
          /\ \A d \in Confirmers : pc'[d] = pc[d] /\ read'[d] = read[d]
      BY <2>0, <2>4, DistinctKinds DEF CaptureFails, Move, TypeOK, Handlers
    <3>2. QED
      BY <3>1, ClearersMet DEF ClearedIsProbed, Past
  <2>5. CASE CloseContext(k)
    BY <2>0, <2>5, DistinctKinds
       DEF CloseContext, Move, End, TypeOK, ClearedIsProbed, Handlers, file, world, counts
  <2>6. CASE File(k)
    BY <2>0, <2>6, DistinctKinds
       DEF File, Move, TypeOK, ClearedIsProbed, Handlers, file, world, counts
  <2>7. CASE FileAgain(k)
    BY <2>0, <2>7, DistinctKinds
       DEF FileAgain, Move, End, TypeOK, ClearedIsProbed, Handlers, file, world, counts
  <2>8. QED
    BY <1>1, <2>1, <2>2, <2>3, <2>4, <2>5, <2>6, <2>7 DEF Search
<1>2. ASSUME NEW o \in Openers, Open(o) \/ WindowStep(o) \/ Solve(o)
      PROVE  ClearedIsProbed'
  <2>0. o \in Handlers
    BY DEF Handlers
  <2>1. ASSUME NEW g \in BOOLEAN, OpenRead(o, g)
        PROVE  ClearedIsProbed'
    BY <2>0, <2>1, DistinctKinds
       DEF OpenRead, Move, TypeOK, ClearedIsProbed, Handlers, file, world, counts
  <2>2. CASE SpawnWindow(o)
    BY <2>0, <2>2, DistinctKinds
       DEF SpawnWindow, Move, TypeOK, ClearedIsProbed, Handlers, file, world, counts
  <2>3. CASE OpenRefused(o)
    BY <2>0, <2>3, DistinctKinds
       DEF OpenRefused, Move, End, TypeOK, ClearedIsProbed, Handlers, file, world, counts
  <2>4. CASE WriteOpened(o)
    BY <2>0, <2>4, DistinctKinds
       DEF WriteOpened, Move, End, TypeOK, ClearedIsProbed, Handlers, file, world, counts
  <2>5. CASE OpenFails(o)
    BY <2>0, <2>5, DistinctKinds
       DEF OpenFails, Move, End, TypeOK, ClearedIsProbed, Handlers, file, world, counts
  <2>6. CASE WindowLocks(o)
    BY <2>0, <2>6, DistinctKinds
       DEF WindowLocks, TypeOK, ClearedIsProbed, Handlers, file, world, counts
  <2>7. CASE WindowFails(o)
    BY <2>0, <2>7, DistinctKinds
       DEF WindowFails, TypeOK, ClearedIsProbed, Handlers, file, world, counts
  <2>8. CASE WindowEnds(o)
    BY <2>0, <2>8, DistinctKinds
       DEF WindowEnds, TypeOK, ClearedIsProbed, Handlers, file, world, counts
  <2>9. CASE Solve(o)
    BY <2>0, <2>9, DistinctKinds DEF Solve, TypeOK, ClearedIsProbed, Handlers, file, world, counts
  <2>10. QED
    BY <1>2, <2>1, <2>2, <2>3, <2>4, <2>5, <2>6, <2>7, <2>8, <2>9 DEF Open, WindowStep
<1>3. ASSUME NEW c \in Confirmers, Confirm(c)
      PROVE  ClearedIsProbed'
  <2>0. c \in Handlers
    BY DEF Handlers
  <2>1. CASE ConfirmRead(c)
    BY <2>0, <2>1, DistinctKinds
       DEF ConfirmRead, Move, TypeOK, ClearedIsProbed, Handlers, file, world, counts, HasUrl,
           Confirmed
  <2>2. CASE Inspect(c)
    BY <2>0, <2>2, DistinctKinds
       DEF Inspect, Move, TypeOK, ClearedIsProbed, Handlers, file, world, counts
  <2>3. CASE WriteBack(c)
    BY <2>0, <2>3, DistinctKinds
       DEF WriteBack, Move, End, TypeOK, ClearedIsProbed, Handlers, file, world, counts
  <2>4. CASE Stop(c)
    BY <2>0, <2>4, DistinctKinds
       DEF Stop, Move, TypeOK, ClearedIsProbed, Handlers, file, world, counts
  <2>5. CASE Recheck(c)
    BY <2>0, <2>5, DistinctKinds
       DEF Recheck, Move, End, TypeOK, ClearedIsProbed, Handlers, file, world, counts
  <2>6. CASE Probe(c)
    <3>1. /\ proven' = proven /\ pc'[c] # "clear"
          /\ \A d \in Confirmers : d # c => pc'[d] = pc[d] /\ read'[d] = read[d]
      BY <2>0, <2>6, DistinctKinds DEF Probe, Move, End, TypeOK, Handlers, counts
    <3>2. QED
      BY <3>1 DEF ClearedIsProbed
  <2>7. CASE ProbeOk(c)
    <3>1. proven' = Captors /\ pc' = [pc EXCEPT ![c] = "clear"] /\ read' = read
          /\ pc[c] = "probing"
      BY <2>7 DEF ProbeOk, Move
    <3>2. \A d \in Confirmers : d \in Handlers /\ read[d] # None => Met(read[d])
      BY DEF CopiesMet
    <3>3. \A d \in Confirmers : pc'[d] = "clear" => read[d] \in Challenge
      BY <2>0, <3>1 DEF Holding, TypeOK, Handlers
    <3>4. QED
      BY <3>1, <3>2, <3>3, NoneIsNoChallenge DEF ClearedIsProbed, Met, Handlers
  <2>8. CASE ProbeFails(c)
    BY <2>0, <2>8, DistinctKinds
       DEF ProbeFails, Move, End, TypeOK, ClearedIsProbed, Handlers, file, world, counts
  <2>9. CASE KeepChallenge(c)
    BY <2>0, <2>9, DistinctKinds
       DEF KeepChallenge, Move, End, TypeOK, ClearedIsProbed, Handlers, file, world, counts
  <2>10. CASE ClearChallenge(c)
    BY <2>0, <2>10, DistinctKinds
       DEF ClearChallenge, Move, End, TypeOK, ClearedIsProbed, Handlers, file, world, counts
  <2>11. QED
    BY <1>3, <2>1, <2>2, <2>3, <2>4, <2>5, <2>6, <2>7, <2>8, <2>9, <2>10 DEF Confirm
<1>4. CASE HHGates
  BY <1>4, DistinctKinds DEF HHGates, TypeOK, ClearedIsProbed, Handlers, file, world, counts
<1>5. CASE UNCHANGED vars
  BY <1>5, DistinctKinds DEF vars, TypeOK, ClearedIsProbed, Handlers, file, world, counts
<1>6. QED
  BY <1>1, <1>2, <1>3, <1>4, <1>5 DEF Next

-----------------------------------------------------------------------------
\* The invariant holds in every reachable state.
LEMMA InductiveInvariant == Spec => []IInv
<1>1. Init => IInv
  <2> SUFFICES ASSUME Init
               PROVE  IInv
    OBVIOUS
  <2>1. TypeOK
    <3>1. pc \in [Handlers -> Places] /\ read \in [Handlers -> Challenge \cup {None}]
      BY DEF Init, Places
    <3>2. window \in [Openers -> {"none", "starting", "open", "dying"}]
      BY DEF Init
    <3>3. gates \in 0..MaxGates /\ windows \in 0..MaxWindows
      BY BoundsNatural DEF Init
    <3>4. QED
      BY <3>1, <3>2, <3>3 DEF Init, TypeOK
  <2>2. Holding /\ CopiesSound /\ CopiesMet
    BY DEF Init, Holding, CopiesSound, CopiesMet
  <2>3. ClearedIsProbed
    BY DEF Init, ClearedIsProbed, Handlers
  <2>4. QED
    BY <2>1, <2>2, <2>3 DEF IInv
<1>2. IInv /\ [Next]_vars => IInv'
  <2> SUFFICES ASSUME IInv, [Next]_vars
               PROVE  IInv'
    OBVIOUS
  <2>1. TypeOK' /\ Holding'
    BY TypeStep, HoldingStep DEF IInv
  <2>2. CopiesSound' /\ CopiesMet' /\ ClearedIsProbed'
    BY CopiesStep, ProbedStep DEF IInv
  <2>3. QED
    BY <2>1, <2>2 DEF IInv
<1>3. QED
  BY <1>1, <1>2, PTL DEF Spec

\* The stored challenge, its copies and every process stay in their types.
THEOREM TypeCorrect == Spec => []TypeOK
<1>1. IInv => TypeOK
  BY DEF IInv
<1>2. QED
  BY <1>1, InductiveInvariant, PTL

\* However searches, openers and confirmers overwrite each other's file, recovery is
\* offered for every challenge that its URL confirms and only for a confirmed one.
THEOREM RecoveryIsRight == Spec => []OfferedRightly
<1>1. IInv => OfferedRightly
  BY DEF IInv, CopiesSound, Sound, OfferedRightly
<1>2. QED
  BY <1>1, InductiveInvariant, PTL

\* A confirm removes a confirmed challenge it has read only after HH was seen without
\* one, and the search that met it has not met another since.
THEOREM ClearingIsProbed == Spec => []ClearedIsProbed
<1>1. IInv => ClearedIsProbed
  BY DEF IInv
<1>2. QED
  BY <1>1, InductiveInvariant, PTL
=============================================================================
