----------------------------- MODULE IntakeProofs -----------------------------
(***************************************************************************)
(* Safety theorems about what comes in from outside, for any number of     *)
(* events, documents, deliveries, scans, attempts and faults.              *)
(***************************************************************************)
EXTENDS Intake, TLAPS

-------------------------------------------------------------------------------
(***************************************************************************)
(* The invariant.                                                          *)
(***************************************************************************)

TxStates == Running \cup {"none", "duplicate", "committed", "threw"}

RunSteps ==
  {"idle", "loading", "scanning", "reading", "writing", "completed", "failed"}

RunType ==
  [at : RunSteps, doc : Document \cup {NoItem}, verdict : Verdicts \cup {"none"},
   locked : BOOLEAN]

PassSteps == {"idle", "next", "added", "retry", "mark"}

PassType == [at : PassSteps, item : Item \cup {NoItem}, todo : SUBSET Item]

QueueStates == {"absent", "waiting", "active", "delayed", "completed", "failed"}

Stored == {d \in Document : documents[d] # "NONE"}

\* A transaction that has committed or found a duplicate leaves its event
\* stored, so a delivery that is answered 202 has all of them stored.
DeliveryInv ==
  /\ arriving \in Scenarios
  /\ tx \in [Delivery -> [Event -> TxStates]]
  /\ answer \in [Delivery -> {"none", "open", "202", "500"}]
  /\ events \subseteq Event
  /\ \A x \in Delivery, e \in Event :
       tx[x][e] \in {"committed", "duplicate"} => e \in events
  /\ AcknowledgedIsStored

RowsOK ==
  /\ documents \in [Document -> {"NONE", "QUARANTINED"} \cup Verdicts]
  /\ outbox \subseteq events \cup Stored
  /\ tries \in [Document -> 0 .. Attempts]
  /\ faults \in 0 .. MaxFaults
  /\ lost \in BOOLEAN

\* The queue and the passes only know stored documents.
QueueOK ==
  /\ queue \in [Item -> QueueStates]
  /\ \A d \in Document : queue[d] # "absent" => documents[d] # "NONE"
  /\ CompletedMeansDecided
  /\ pass \in [Passes -> PassType]
  /\ \A l \in Passes : \A d \in pass[l].todo \cap Document : documents[d] # "NONE"

\* A scan knows a stored document, and what it has found out so far.
RunsOK ==
  /\ runs \in [Slot -> RunType]
  /\ \A s \in Slot : runs[s].at # "idle" =>
       /\ runs[s].doc \in Document /\ documents[runs[s].doc] # "NONE"
       /\ runs[s].at \in {"reading", "writing"} => runs[s].verdict \in Verdicts
       /\ runs[s].at = "completed" => documents[runs[s].doc] \in Verdicts

LocksOK ==
  \A s \in Slot : runs[s].locked =>
    /\ runs[s].at # "idle"
    /\ queue[runs[s].doc] = "active"
    /\ \A r \in Slot \ {s} : ~(runs[r].locked /\ runs[r].doc = runs[s].doc)

\* As long as no scan has lost its lock, what a scan read when it was about to
\* write is still so.
Undisturbed ==
  lost \/ \A s \in Slot : runs[s].at # "idle" =>
            /\ runs[s].locked
            /\ runs[s].at = "writing" => documents[runs[s].doc] = "QUARANTINED"

ScanInv == RowsOK /\ QueueOK /\ RunsOK /\ LocksOK /\ Undisturbed

IntakeInv == DeliveryInv /\ ScanInv

-------------------------------------------------------------------------------
(***************************************************************************)
(* Deliveries.                                                             *)
(***************************************************************************)

\* A transaction's step keeps what is known of deliveries, if an event is
\* stored when it says so, and stored events stay.
LEMMA TxStep ==
  ASSUME DeliveryInv, NEW x \in Delivery, NEW e \in Event, NEW from, NEW to \in TxStates,
         Step(x, e, from, to),
         events \subseteq events', events' \subseteq Event,
         to \in {"committed", "duplicate"} => e \in events'
  PROVE  DeliveryInv'
<1>1. /\ tx' = [tx EXCEPT ![x][e] = to]
      /\ UNCHANGED <<arriving, answer>>
  BY DEF Step
<1>2. tx' \in [Delivery -> [Event -> TxStates]]
  BY <1>1 DEF DeliveryInv
<1>3. \A y \in Delivery, f \in Event :
        tx'[y][f] \in {"committed", "duplicate"} => f \in events'
  BY <1>1 DEF DeliveryInv
<1>4. AcknowledgedIsStored'
  BY <1>1 DEF DeliveryInv, AcknowledgedIsStored, Batch
<1> QED
  BY <1>1, <1>2, <1>3, <1>4 DEF DeliveryInv

\* Every arrival keeps what is known of deliveries.
LEMMA ArrivalsDelivery ==
  ASSUME DeliveryInv, Arrivals
  PROVE  DeliveryInv'
<1> USE DEF TxStates, Running
<1>1. ASSUME NEW x \in Delivery, Deliver(x)
      PROVE  DeliveryInv'
  BY <1>1 DEF Deliver, DeliveryInv, AcknowledgedIsStored, Batch, database
<1>2. ASSUME NEW x \in Delivery, Answer(x)
      PROVE  DeliveryInv'
  <2>1. /\ UNCHANGED <<arriving, tx, events>>
        /\ \/ /\ \A e \in Batch : tx[x][e] \in {"committed", "duplicate"}
              /\ answer' = [answer EXCEPT ![x] = "202"]
           \/ answer' = [answer EXCEPT ![x] = "500"]
    BY <1>2 DEF Answer, database
  <2> QED
    BY <2>1 DEF DeliveryInv, AcknowledgedIsStored, Batch
<1>3. ASSUME NEW x \in Delivery, NEW e \in Event,
             \/ Insert(x, e) \/ Duplicate(x, e) \/ CommitEvent(x, e) \/ FailEvent(x, e)
      PROVE  DeliveryInv'
  <2>1. events \subseteq Event
    BY DEF DeliveryInv
  <2>2. CASE Insert(x, e)
    BY <2>1, <2>2, TxStep DEF Insert, database
  <2>3. CASE Duplicate(x, e)
    BY <2>1, <2>3, TxStep DEF Duplicate, database
  <2>4. CASE CommitEvent(x, e)
    BY <2>1, <2>4, TxStep DEF CommitEvent
  <2>5. CASE FailEvent(x, e)
    BY <2>1, <2>5, TxStep DEF FailEvent, database
  <2> QED
    BY <1>3, <2>2, <2>3, <2>4, <2>5
<1>4. ASSUME WebDies
      PROVE  DeliveryInv'
  <2>1. /\ tx' = [x \in Delivery |-> [e \in Event |->
                    IF tx[x][e] \in Running THEN "threw" ELSE tx[x][e]]]
        /\ answer' = [x \in Delivery |-> IF answer[x] = "open" THEN "500" ELSE answer[x]]
        /\ UNCHANGED <<arriving, events>>
    BY <1>4 DEF WebDies, database
  <2>2. tx' \in [Delivery -> [Event -> TxStates]]
    BY <2>1 DEF DeliveryInv
  <2>3. AcknowledgedIsStored'
    BY <2>1 DEF DeliveryInv, AcknowledgedIsStored, Batch
  <2> QED
    BY <2>1, <2>2, <2>3 DEF DeliveryInv
<1>5. ASSUME NEW d \in Document, Upload(d)
      PROVE  DeliveryInv'
  BY <1>5 DEF Upload, web, DeliveryInv, AcknowledgedIsStored, Batch
<1> QED
  BY <1>1, <1>2, <1>3, <1>4, <1>5 DEF Arrivals

\* The platform worker, BullMQ and Redis do not touch deliveries.
LEMMA BackstageDelivery ==
  ASSUME DeliveryInv, UNCHANGED <<arriving, web, events>>
  PROVE  DeliveryInv'
BY DEF DeliveryInv, AcknowledgedIsStored, Batch, web

-------------------------------------------------------------------------------
(***************************************************************************)
(* Documents, their queue and their scans.                                 *)
(***************************************************************************)

\* A fault is one more.
LEMMA FaultType ==
  ASSUME faults \in 0 .. MaxFaults, lost \in BOOLEAN,
         Fault \/ LosesLock \/ UNCHANGED trouble
  PROVE  faults' \in 0 .. MaxFaults /\ lost' \in BOOLEAN /\ (lost => lost')
<1>1. CASE Fault
  <2>1. faults' = faults + 1 /\ faults < MaxFaults /\ lost' = lost
    BY <1>1 DEF Fault
  <2>2. faults' \in 0 .. MaxFaults
    BY <2>1, IntakeAssumption
  <2> QED
    BY <2>1, <2>2
<1>2. CASE LosesLock
  <2>1. faults' = faults + 1 /\ faults < MaxFaults /\ lost' = TRUE
    BY <1>2 DEF LosesLock
  <2>2. faults' \in 0 .. MaxFaults
    BY <2>1, IntakeAssumption
  <2> QED
    BY <2>1, <2>2
<1>3. CASE UNCHANGED trouble
  BY <1>3 DEF trouble
<1> QED
  BY <1>1, <1>2, <1>3

\* Arrivals store documents and events, and nothing else the scans know.
LEMMA ArrivalsScan ==
  ASSUME IntakeInv, Arrivals
  PROVE  ScanInv'
<1>1. /\ UNCHANGED <<redis, platform>> /\ UNCHANGED lost /\ faults' \in 0 .. MaxFaults
  <2>1. UNCHANGED <<redis, platform>> /\ (Fault \/ UNCHANGED trouble)
    BY DEF Arrivals, Deliver, Answer, Insert, Duplicate, CommitEvent, FailEvent, Step,
       WebDies, Upload
  <2> QED
    BY <2>1, FaultType DEF Fault, trouble, IntakeInv, ScanInv, RowsOK
<1>2. \/ UNCHANGED database
      \/ /\ UNCHANGED documents
         /\ \E e \in Event : events' = events \cup {e} /\ outbox' = outbox \cup {e}
      \/ /\ UNCHANGED events
         /\ \E d \in Document :
              /\ documents[d] = "NONE"
              /\ documents' = [documents EXCEPT ![d] = "QUARANTINED"]
              /\ outbox' = outbox \cup {d}
  BY DEF Arrivals, Deliver, Answer, Insert, Duplicate, CommitEvent, FailEvent, Step,
     WebDies, Upload, database
<1>3. RowsOK'
  BY <1>1, <1>2 DEF IntakeInv, ScanInv, RowsOK, Stored, database, redis
<1>4. \A d \in Document : \/ documents'[d] = documents[d]
                          \/ documents[d] = "NONE" /\ documents'[d] = "QUARANTINED"
  BY <1>2 DEF IntakeInv, ScanInv, RowsOK, database
<1>5. QueueOK'
  BY <1>1, <1>4 DEF IntakeInv, ScanInv, QueueOK, CompletedMeansDecided, Verdicts,
     redis, platform
<1>6. RunsOK'
  BY <1>1, <1>4 DEF IntakeInv, ScanInv, RunsOK, Verdicts, platform
<1>7. LocksOK'
  BY <1>1 DEF IntakeInv, ScanInv, LocksOK, platform, redis
<1>8. Undisturbed'
  BY <1>1, <1>4 DEF IntakeInv, ScanInv, RunsOK, Undisturbed, platform
<1> QED
  BY <1>3, <1>5, <1>6, <1>7, <1>8 DEF ScanInv

\* A step of the queue: a job is added, retried, due, stalled or gone, but none
\* that a scan holds changes, and none completes.
QueueStep ==
  /\ queue' \in [Item -> QueueStates]
  /\ \A i \in Item :
       \/ queue'[i] = queue[i]
       \/ /\ queue'[i] \notin {"completed", "active"}
          /\ \A s \in Slot : ~(runs[s].locked /\ runs[s].doc = i)

\* What follows from such a step, if the documents do not change.
LEMMA QueueStepScan ==
  ASSUME ScanInv, QueueStep, UNCHANGED <<documents, runs, lost>>,
         \A d \in Document : queue'[d] # "absent" => documents[d] # "NONE",
         outbox' \subseteq outbox, UNCHANGED events,
         tries' \in [Document -> 0 .. Attempts], faults' \in 0 .. MaxFaults,
         pass' \in [Passes -> PassType],
         \A l \in Passes : \A d \in pass'[l].todo \cap Document : documents[d] # "NONE"
  PROVE  ScanInv'
<1>1. RowsOK'
  BY DEF ScanInv, RowsOK, Stored
<1>2. QueueOK'
  BY DEF ScanInv, QueueOK, QueueStep, CompletedMeansDecided, Item
<1>3. RunsOK'
  BY DEF ScanInv, RunsOK
<1>4. LocksOK'
  BY DEF ScanInv, LocksOK, RunsOK, QueueStep, Item
<1>5. Undisturbed'
  BY DEF ScanInv, Undisturbed
<1> QED
  BY <1>1, <1>2, <1>3, <1>4, <1>5 DEF ScanInv

\* A pass goes on.
LEMMA PassGoes ==
  ASSUME QueueOK, NEW l \in Passes, NEW at \in PassSteps, Goes(l, at)
  PROVE  /\ pass' \in [Passes -> PassType]
         /\ \A k \in Passes : pass'[k].todo = pass[k].todo
BY DEF QueueOK, Goes, PassType

\* A pass of the dispatcher keeps the scans' invariant.
LEMMA PassScan ==
  ASSUME ScanInv, DeliveryInv, NEW l \in Passes, PassStep(l) \/ AddFails(l)
  PROVE  ScanInv'
<1>0. /\ UNCHANGED <<documents, events, runs, tries, lost>>
      /\ faults' \in 0 .. MaxFaults
      /\ outbox' \subseteq outbox
  <2>1. UNCHANGED <<documents, events, runs, tries>> /\ (Fault \/ UNCHANGED trouble)
    BY DEF PassStep, Start, Add, GetState, Retry, Mark, Finish, AddFails, database, redis
  <2>2. outbox' \subseteq outbox
    BY DEF PassStep, Start, Add, GetState, Retry, Mark, Finish, AddFails, database
  <2> QED
    BY <2>1, <2>2, FaultType DEF Fault, trouble, ScanInv, RowsOK
<1>1. /\ queue \in [Item -> QueueStates] /\ pass \in [Passes -> PassType]
      /\ \A d \in Document : queue[d] # "absent" => documents[d] # "NONE"
      /\ \A k \in Passes : \A d \in pass[k].todo \cap Document : documents[d] # "NONE"
      /\ \A s \in Slot : runs[s].locked => queue[runs[s].doc] = "active"
  BY DEF ScanInv, QueueOK, LocksOK
<1>2. /\ QueueStep
      /\ \A d \in Document : queue'[d] # "absent" => documents[d] # "NONE"
  <2>1. CASE UNCHANGED queue
    BY <1>1, <2>1 DEF QueueStep
  <2>2. CASE Add(l)
    <3>1. PICK i \in pass[l].todo :
            queue' = [queue EXCEPT ![i] = IF @ = "absent" THEN "waiting" ELSE @]
      BY <2>2 DEF Add
    <3>2. i \in Item
      BY <1>1, <3>1 DEF PassType
    <3> QED
      BY <1>1, <3>1, <3>2 DEF QueueStep, QueueStates
  <2>3. CASE Retry(l)
    <3>1. PICK d : d = pass[l].item
      OBVIOUS
    <3>2. \/ UNCHANGED queue
          \/ queue[d] = "failed" /\ queue' = [queue EXCEPT ![d] = "waiting"]
      BY <2>3, <3>1 DEF Retry, MayRetry
    <3> QED
      BY <1>1, <3>2 DEF QueueStep, QueueStates, Item
  <2> QED
    BY <2>1, <2>2, <2>3 DEF PassStep, Start, GetState, Mark, Finish, AddFails, redis
<1>3. /\ pass' \in [Passes -> PassType]
      /\ \A k \in Passes : \A d \in pass'[k].todo \cap Document : documents[d] # "NONE"
  <2>1. CASE Start(l)
    <3>1. /\ Listed(l) \subseteq Item
          /\ \A d \in Listed(l) \cap Document : documents[d] # "NONE"
      BY IntakeAssumption DEF Listed, Quarantined, ScanInv, RowsOK, Stored, DeliveryInv, Item
    <3> QED
      BY <1>1, <2>1, <3>1 DEF Start, PassType, PassSteps
  <2>2. CASE Add(l)
    <3>1. PICK i \in pass[l].todo :
            pass' = [pass EXCEPT ![l] = [at |-> IF i \in Document THEN "added" ELSE "mark",
                                         item |-> i, todo |-> @.todo \ {i}]]
      BY <2>2 DEF Add
    <3>2. i \in Item
      BY <1>1, <3>1 DEF PassType
    <3> QED
      BY <1>1, <3>1, <3>2 DEF PassType, PassSteps
  <2>3. CASE GetState(l) \/ Retry(l) \/ Mark(l)
    <3>1. \E at \in PassSteps : Goes(l, at)
      BY <2>3 DEF GetState, Retry, Mark, PassSteps
    <3> QED
      BY <1>1, <3>1, PassGoes DEF ScanInv
  <2>4. CASE Finish(l)
    BY <1>1, <2>4 DEF Finish, IdlePass, PassType, PassSteps
  <2>5. CASE AddFails(l)
    BY <1>1, <2>5 DEF AddFails, PassType
  <2> QED
    BY <2>1, <2>2, <2>3, <2>4, <2>5 DEF PassStep
<1> QED
  BY <1>0, <1>2, <1>3, QueueStepScan DEF ScanInv, RowsOK

\* BullMQ moves delayed and stalled jobs.
LEMMA MovesScan ==
  ASSUME ScanInv, NEW d \in Document, Due(d) \/ Stalled(d)
  PROVE  ScanInv'
<1>1. UNCHANGED <<documents, outbox, events, tries, runs, pass, faults, lost>>
  BY DEF Due, Stalled, database, platform, trouble
<1>2. PICK q \in {"waiting", "failed"} :
        /\ queue' = [queue EXCEPT ![d] = q] /\ queue[d] # "absent"
        /\ \A s \in Slot : ~(runs[s].locked /\ runs[s].doc = d)
  BY DEF Due, Stalled, ScanInv, LocksOK
<1>3. /\ QueueStep
      /\ \A c \in Document : queue'[c] # "absent" => documents[c] # "NONE"
  BY <1>2 DEF QueueStep, ScanInv, QueueOK, QueueStates, Item
<1> QED
  BY <1>1, <1>3, QueueStepScan DEF ScanInv, RowsOK, QueueOK

\* The platform worker dies.
LEMMA DeathScan ==
  ASSUME ScanInv, PlatformDies
  PROVE  ScanInv'
<1>1. /\ UNCHANGED <<documents, outbox, events, queue, tries, lost>>
      /\ faults' \in 0 .. MaxFaults
      /\ runs' = [s \in Slot |-> IdleRun] /\ pass' = [l \in Passes |-> IdlePass]
  BY FaultType DEF PlatformDies, database, redis, Fault, ScanInv, RowsOK
<1>2. RowsOK'
  BY <1>1 DEF ScanInv, RowsOK, Stored
<1>3. QueueOK'
  BY <1>1 DEF ScanInv, QueueOK, CompletedMeansDecided, IdlePass, PassType, PassSteps
<1>4. RunsOK' /\ LocksOK' /\ Undisturbed'
  BY <1>1 DEF RunsOK, LocksOK, Undisturbed, IdleRun, RunType, RunSteps
<1> QED
  BY <1>2, <1>3, <1>4 DEF ScanInv

\* Redis loses its data, or a scan its lock: from then on nothing is promised
\* about who writes.
LEMMA LossScan ==
  ASSUME ScanInv, RedisLoss \/ \E s \in Slot : LoseLock(s)
  PROVE  ScanInv'
<1>1. /\ UNCHANGED <<documents, outbox, events, pass>>
      /\ lost' = TRUE /\ faults' \in 0 .. MaxFaults
  BY FaultType DEF RedisLoss, LoseLock, LosesLock, database, ScanInv, RowsOK
<1>2. /\ runs' \in [Slot -> RunType]
      /\ \A s \in Slot : /\ runs'[s].at = runs[s].at /\ runs'[s].doc = runs[s].doc
                         /\ runs'[s].verdict = runs[s].verdict
                         /\ runs'[s].locked => runs[s].locked /\ UNCHANGED queue
  <2>0. runs \in [Slot -> RunType]
    BY DEF ScanInv, RunsOK
  <2>1. CASE RedisLoss
    <3>1. ASSUME NEW s \in Slot
          PROVE  /\ runs'[s] \in RunType /\ runs'[s].at = runs[s].at
                 /\ runs'[s].doc = runs[s].doc /\ runs'[s].verdict = runs[s].verdict
                 /\ runs'[s].locked = FALSE
      <4>1. PICK r : r = runs[s]
        OBVIOUS
      <4>2. runs'[s] = [r EXCEPT !.locked = FALSE] /\ r \in RunType
        BY <2>0, <2>1, <4>1 DEF RedisLoss
      <4> QED
        BY <4>1, <4>2 DEF RunType
    <3>2. runs' = [s \in Slot |-> runs'[s]]
      BY <2>1 DEF RedisLoss
    <3> QED
      BY <3>1, <3>2
  <2>2. ASSUME NEW t \in Slot, LoseLock(t)
        PROVE  /\ runs' \in [Slot -> RunType]
               /\ \A s \in Slot : /\ runs'[s].at = runs[s].at /\ runs'[s].doc = runs[s].doc
                                  /\ runs'[s].verdict = runs[s].verdict
                                  /\ runs'[s].locked => runs[s].locked /\ UNCHANGED queue
    <3>1. PICK q : q = [runs[t] EXCEPT !.locked = FALSE]
      OBVIOUS
    <3>2. /\ q \in RunType /\ q.at = runs[t].at /\ q.doc = runs[t].doc
          /\ q.verdict = runs[t].verdict /\ q.locked = FALSE
      BY <2>0, <3>1 DEF RunType
    <3>3. runs' = [runs EXCEPT ![t] = q] /\ UNCHANGED queue
      BY <2>0, <2>2, <3>1 DEF LoseLock, redis
    <3> QED
      BY <2>0, <3>2, <3>3
  <2> QED
    BY <2>1, <2>2
<1>3. queue' = queue \/ queue' = [i \in Item |-> "absent"]
  BY DEF RedisLoss, LoseLock, redis
<1>4. RowsOK'
  <2>1. tries' \in [Document -> 0 .. Attempts]
    BY IntakeAssumption DEF RedisLoss, LoseLock, redis, ScanInv, RowsOK
  <2> QED
    BY <1>1, <2>1 DEF ScanInv, RowsOK, Stored
<1>5. QueueOK'
  BY <1>1, <1>3 DEF ScanInv, QueueOK, CompletedMeansDecided, QueueStates, Item
<1>6. RunsOK'
  BY <1>1, <1>2 DEF ScanInv, RunsOK
<1>7. LocksOK'
  BY <1>2 DEF ScanInv, LocksOK
<1>8. Undisturbed'
  BY <1>1 DEF Undisturbed
<1> QED
  BY <1>4, <1>5, <1>6, <1>7, <1>8 DEF ScanInv

\* A scan takes a waiting job.
LEMMA TakeScan ==
  ASSUME ScanInv, NEW s \in Slot, NEW d \in Document, Take(s, d)
  PROVE  ScanInv'
<1>1. /\ runs[s].at = "idle" /\ queue[d] = "waiting"
      /\ queue' = [queue EXCEPT ![d] = "active"]
      /\ runs' = [runs EXCEPT ![s] =
           [at |-> "loading", doc |-> d, verdict |-> "none", locked |-> TRUE]]
      /\ UNCHANGED <<documents, outbox, events, tries, pass, faults, lost>>
  BY DEF Take, database, trouble
<1>2. documents[d] # "NONE" /\ d \in Item
  BY <1>1 DEF ScanInv, QueueOK, Item
<1>3. RowsOK'
  BY <1>1 DEF ScanInv, RowsOK, Stored
<1>4. QueueOK'
  BY <1>1, <1>2 DEF ScanInv, QueueOK, CompletedMeansDecided, QueueStates, Item
<1>5. RunsOK'
  BY <1>1, <1>2 DEF ScanInv, RunsOK, RunType, RunSteps
<1>6. LocksOK'
  <2>1. \A r \in Slot : runs[r].locked => runs[r].doc # d
    BY <1>1 DEF ScanInv, LocksOK
  <2>2. \A r \in Slot : runs[r].locked => runs[r].doc \in Item
    BY DEF ScanInv, LocksOK, RunsOK, Item
  <2> QED
    BY <1>1, <1>2, <2>1, <2>2 DEF ScanInv, LocksOK, RunsOK, QueueOK
<1>7. Undisturbed'
  BY <1>1 DEF ScanInv, Undisturbed, RunsOK
<1> QED
  BY <1>3, <1>4, <1>5, <1>6, <1>7 DEF ScanInv

\* A scan goes on with its document and its lock, and changes nothing else.
LEMMA RunGoesScan ==
  ASSUME ScanInv, NEW s \in Slot, runs[s].at # "idle",
         NEW r, r \in RunType, r.at # "idle",
         r.doc = runs[s].doc, r.locked = runs[s].locked,
         runs' = [runs EXCEPT ![s] = r],
         UNCHANGED <<database, redis, pass, lost>>, faults' \in 0 .. MaxFaults,
         r.at \in {"reading", "writing"} => r.verdict \in Verdicts,
         r.at = "completed" => documents[r.doc] \in Verdicts,
         r.at = "writing" => documents[r.doc] = "QUARANTINED"
  PROVE  ScanInv'
<1>1. RowsOK'
  BY DEF ScanInv, RowsOK, Stored, database, redis
<1>2. QueueOK'
  BY DEF ScanInv, QueueOK, CompletedMeansDecided, database, redis
<1>3. RunsOK'
  BY DEF ScanInv, RunsOK, database
<1>4. LocksOK'
  BY DEF ScanInv, LocksOK, RunsOK, redis
<1>5. Undisturbed'
  BY DEF ScanInv, Undisturbed, RunsOK, database
<1> QED
  BY <1>1, <1>2, <1>3, <1>4, <1>5 DEF ScanInv

\* A run at another step.
LEMMA RunAt ==
  ASSUME NEW r \in RunType, NEW at \in RunSteps, NEW q, q = [r EXCEPT !.at = at]
  PROVE  /\ q \in RunType
         /\ q.at = at /\ q.doc = r.doc /\ q.locked = r.locked /\ q.verdict = r.verdict
BY DEF RunType

\* Loading, scanning, reading and failing.
LEMMA QuietScan ==
  ASSUME ScanInv, NEW s \in Slot, Load(s) \/ Scan(s) \/ Read(s) \/ ScanFails(s)
  PROVE  ScanInv'
<1>1. PICK r : r = runs[s]
  OBVIOUS
<1>2. /\ r \in RunType /\ r.at # "idle"
      /\ r.doc \in Document /\ documents[r.doc] # "NONE"
      /\ r.at = "reading" => r.verdict \in Verdicts
  BY <1>1 DEF ScanInv, RunsOK, Load, Scan, Read, ScanFails
<1>3. UNCHANGED <<database, redis, pass, lost>> /\ faults' \in 0 .. MaxFaults
  BY FaultType DEF Load, Scan, Read, ScanFails, Fault, trouble, ScanInv, RowsOK
<1>4. PICK q \in RunType :
        /\ runs' = [runs EXCEPT ![s] = q]
        /\ q.at # "idle" /\ q.doc = r.doc /\ q.locked = r.locked
        /\ q.at \in {"reading", "writing"} => q.verdict \in Verdicts
        /\ q.at = "completed" => documents[r.doc] \in Verdicts
        /\ q.at = "writing" => documents[r.doc] = "QUARANTINED"
  <2>0. documents[r.doc] \in {"QUARANTINED"} \cup Verdicts
    BY <1>2 DEF ScanInv, RowsOK
  <2>9. RunsOK
    BY DEF ScanInv
  <2>1. CASE Load(s)
    <3>1. PICK at \in {"scanning", "completed"} :
            /\ runs' = [runs EXCEPT ![s].at = at]
            /\ at = "completed" => documents[r.doc] # "QUARANTINED"
      BY <1>1, <1>2, <2>1 DEF Load, RunGoes, Quarantined
    <3>2. at \in RunSteps
      BY DEF RunSteps
    <3>3. PICK q : q = [r EXCEPT !.at = at]
      OBVIOUS
    <3>4. /\ q \in RunType
          /\ q.at = at /\ q.doc = r.doc /\ q.locked = r.locked /\ q.verdict = r.verdict
      BY <1>2, <3>1, <3>2, <3>3, RunAt
    <3>5. runs' = [runs EXCEPT ![s] = q]
      BY <1>1, <2>9, <3>1, <3>3 DEF RunsOK
    <3> QED
      BY <2>0, <3>1, <3>4, <3>5
  <2>2. CASE Scan(s)
    <3>1. PICK v \in Verdicts : runs' = [runs EXCEPT ![s].at = "reading", ![s].verdict = v]
      BY <2>2 DEF Scan
    <3>2. "reading" \in RunSteps
      BY DEF RunSteps
    <3>3. PICK q : q = [r EXCEPT !.at = "reading", !.verdict = v]
      OBVIOUS
    <3>4. /\ q \in RunType
          /\ q.at = "reading" /\ q.doc = r.doc /\ q.locked = r.locked /\ q.verdict = v
      BY <1>2, <3>1, <3>2, <3>3 DEF RunType
    <3>5. runs' = [runs EXCEPT ![s] = q]
      BY <1>1, <2>9, <3>1, <3>3 DEF RunsOK
    <3> QED
      BY <3>1, <3>4, <3>5
  <2>3. CASE Read(s)
    <3>1. PICK at \in {"writing", "failed"} :
            /\ runs' = [runs EXCEPT ![s].at = at]
            /\ at = "writing" => documents[r.doc] = "QUARANTINED"
      BY <1>1, <1>2, <2>3 DEF Read, RunGoes, Quarantined
    <3>2. at \in RunSteps /\ r.verdict \in Verdicts
      BY <1>1, <1>2, <2>3 DEF Read, RunSteps
    <3>3. PICK q : q = [r EXCEPT !.at = at]
      OBVIOUS
    <3>4. /\ q \in RunType
          /\ q.at = at /\ q.doc = r.doc /\ q.locked = r.locked /\ q.verdict = r.verdict
      BY <1>2, <3>1, <3>2, <3>3, RunAt
    <3>5. runs' = [runs EXCEPT ![s] = q]
      BY <1>1, <2>9, <3>1, <3>3 DEF RunsOK
    <3> QED
      BY <3>1, <3>2, <3>4, <3>5
  <2>4. CASE ScanFails(s)
    <3>1. runs' = [runs EXCEPT ![s].at = "failed"] /\ "failed" \in RunSteps
      BY <2>4 DEF ScanFails, RunGoes, RunSteps
    <3>2. PICK q : q = [r EXCEPT !.at = "failed"]
      OBVIOUS
    <3>4. /\ q \in RunType
          /\ q.at = "failed" /\ q.doc = r.doc /\ q.locked = r.locked /\ q.verdict = r.verdict
      BY <1>2, <3>1, <3>2, RunAt
    <3>5. runs' = [runs EXCEPT ![s] = q]
      BY <1>1, <2>9, <3>1, <3>2 DEF RunsOK
    <3> QED
      BY <3>4, <3>5
  <2> QED
    BY <2>1, <2>2, <2>3, <2>4
<1> QED
  BY <1>1, <1>2, <1>3, <1>4, RunGoesScan

\* A verdict is written over another one only if a scan has lost its lock.
LEMMA WriteScan ==
  ASSUME ScanInv, NEW s \in Slot, Write(s)
  PROVE  ScanInv' /\ OverturnedByZombies
<1>1. PICK r : r = runs[s]
  OBVIOUS
<1>2. /\ r \in RunType /\ r.at = "writing"
      /\ r.doc \in Document /\ r.verdict \in Verdicts /\ documents[r.doc] # "NONE"
  BY <1>1 DEF ScanInv, RunsOK, Write
<1>3. PICK d, v, q : d = r.doc /\ v = r.verdict /\ q = [r EXCEPT !.at = "completed"]
  OBVIOUS
<1>4. /\ documents' = [documents EXCEPT ![d] = v]
      /\ runs' = [runs EXCEPT ![s] = q]
      /\ UNCHANGED <<outbox, events, queue, tries, pass, faults, lost>>
  BY <1>1, <1>3 DEF Write, RunGoes, redis, trouble, ScanInv, RunsOK
<1>5. q \in RunType /\ q.at = "completed" /\ q.doc = d /\ q.locked = r.locked
  BY <1>2, <1>3 DEF RunType, RunSteps
<1>6. \A c \in Document : /\ documents'[c] = IF c = d THEN v ELSE documents[c]
                          /\ documents[c] \in Verdicts => documents'[c] \in Verdicts
  BY <1>2, <1>3, <1>4 DEF ScanInv, RowsOK
<1>7. RowsOK'
  <2>1. documents' \in [Document -> {"NONE", "QUARANTINED"} \cup Verdicts]
    BY <1>2, <1>3, <1>4 DEF ScanInv, RowsOK
  <2>2. Stored \subseteq Stored'
    BY <1>2, <1>3, <1>6 DEF Stored, Verdicts
  <2> QED
    BY <1>4, <2>1, <2>2 DEF ScanInv, RowsOK
<1>8. QueueOK'
  BY <1>2, <1>3, <1>4, <1>6 DEF ScanInv, QueueOK, CompletedMeansDecided, Verdicts
<1>9. RunsOK'
  BY <1>2, <1>3, <1>4, <1>5, <1>6 DEF ScanInv, RunsOK, Verdicts
<1>10. LocksOK'
  BY <1>1, <1>2, <1>3, <1>4, <1>5 DEF ScanInv, LocksOK
<1>11. lost \/ (/\ documents[d] = "QUARANTINED"
                /\ \A t \in Slot \ {s} : runs[t].at # "idle" => runs[t].doc # d)
  BY <1>1, <1>2, <1>3 DEF ScanInv, Undisturbed, LocksOK
<1>12. Undisturbed'
  <2>1. CASE lost
    BY <1>4, <2>1 DEF Undisturbed
  <2>2. CASE ~lost
    <3>1. ASSUME NEW t \in Slot, runs'[t].at # "idle"
          PROVE  /\ runs'[t].locked
                 /\ runs'[t].at = "writing" => documents'[runs'[t].doc] = "QUARANTINED"
      <4>1. CASE t = s
        BY <1>1, <1>2, <1>4, <1>5, <2>2, <4>1 DEF ScanInv, RunsOK, Undisturbed
      <4>2. CASE t # s
        BY <1>4, <1>6, <1>11, <2>2, <3>1, <4>2 DEF ScanInv, RunsOK, Undisturbed
      <4> QED
        BY <4>1, <4>2
    <3> QED
      BY <3>1 DEF Undisturbed
  <2> QED
    BY <2>1, <2>2
<1>13. OverturnedByZombies
  BY <1>6, <1>11 DEF OverturnedByZombies, Verdicts
<1> QED
  BY <1>7, <1>8, <1>9, <1>10, <1>12, <1>13 DEF ScanInv

\* A scan hands its job back, if the job is still its own.
LEMMA HandBackScan ==
  ASSUME ScanInv, NEW s \in Slot, HandBack(s)
  PROVE  ScanInv'
<1>1. PICK r : r = runs[s]
  OBVIOUS
<1>2. /\ r \in RunType /\ r.at \in {"completed", "failed"}
      /\ r.doc \in Document /\ documents[r.doc] # "NONE"
      /\ r.at = "completed" => documents[r.doc] \in Verdicts
  BY <1>1 DEF ScanInv, RunsOK, HandBack
<1>3. PICK d : d = r.doc
  OBVIOUS
<1>4. PICK q \in {"completed", "delayed", "failed"} :
        /\ runs' = [runs EXCEPT ![s] = IdleRun]
        /\ UNCHANGED <<documents, outbox, events, pass, faults, lost>>
        /\ tries' \in [Document -> 0 .. Attempts]
        /\ IF r.locked THEN queue' = [queue EXCEPT ![d] = q] ELSE UNCHANGED queue
        /\ q = "completed" => documents[d] \in Verdicts
  <2>1. /\ runs' = [runs EXCEPT ![s] = IdleRun]
        /\ UNCHANGED <<documents, outbox, events, pass, faults, lost>>
    BY DEF HandBack, database, trouble
  <2>2. tries' \in [Document -> 0 .. Attempts]
    <3>1. tries \in [Document -> 0 .. Attempts] /\ Attempts \in Nat
      BY IntakeAssumption DEF ScanInv, RowsOK
    <3>2. \/ UNCHANGED tries
          \/ tries' = [tries EXCEPT ![d] = IF @ < Attempts THEN @ + 1 ELSE @]
      BY <1>1, <1>3 DEF HandBack, redis
    <3>3. d \in Document
      BY <1>2, <1>3
    <3>4. tries[d] \in 0 .. Attempts
      BY <3>1, <3>3
    <3> QED
      BY <3>1, <3>2, <3>4
  <2>3. \E q \in {"completed", "delayed", "failed"} :
          /\ IF r.locked THEN queue' = [queue EXCEPT ![d] = q] ELSE UNCHANGED queue
          /\ q = "completed" => documents[d] \in Verdicts
    BY <1>1, <1>2, <1>3 DEF HandBack, redis
  <2> QED
    BY <2>1, <2>2, <2>3
<1>5. IdleRun \in RunType /\ IdleRun.at = "idle" /\ IdleRun.locked = FALSE
  BY DEF IdleRun, RunType, RunSteps
<1>6. RowsOK'
  BY <1>4 DEF ScanInv, RowsOK, Stored
<1>7. QueueOK'
  BY <1>2, <1>3, <1>4 DEF ScanInv, QueueOK, CompletedMeansDecided, QueueStates, Item
<1>8. RunsOK'
  BY <1>4, <1>5 DEF ScanInv, RunsOK
<1>9. LocksOK'
  <2>1. \A t \in Slot \ {s} : runs[t].locked /\ r.locked => runs[t].doc # d
    BY <1>1, <1>3 DEF ScanInv, LocksOK
  <2>2. \A t \in Slot : runs[t].locked => runs[t].doc \in Item
    BY DEF ScanInv, LocksOK, RunsOK, Item
  <2> QED
    BY <1>4, <1>5, <2>1, <2>2 DEF ScanInv, LocksOK, RunsOK, QueueOK
<1>10. Undisturbed'
  BY <1>4, <1>5 DEF ScanInv, Undisturbed, RunsOK
<1> QED
  BY <1>6, <1>7, <1>8, <1>9, <1>10 DEF ScanInv

-------------------------------------------------------------------------------
(***************************************************************************)
(* The theorems.                                                           *)
(***************************************************************************)

\* The invariant holds to begin with.
LEMMA InitIntake == ASSUME Init PROVE IntakeInv
<1>1. DeliveryInv
  BY DEF Init, DeliveryInv, TxStates, AcknowledgedIsStored
<1>2. RowsOK
  <2>1. 0 \in 0 .. MaxFaults /\ 0 \in 0 .. Attempts
    BY IntakeAssumption
  <2> QED
    BY <2>1 DEF Init, RowsOK, Stored
<1>3. QueueOK
  BY DEF Init, QueueOK, QueueStates, CompletedMeansDecided, IdlePass, PassType,
     PassSteps, Item
<1>4. RunsOK /\ LocksOK /\ Undisturbed
  BY DEF Init, RunsOK, LocksOK, Undisturbed, IdleRun, RunType, RunSteps
<1> QED
  BY <1>1, <1>2, <1>3, <1>4 DEF IntakeInv, ScanInv

\* Every step but a scan's write leaves the verdicts there are.
LEMMA VerdictsKept ==
  ASSUME IntakeInv, Next, \A s \in Slot : ~Write(s)
  PROVE  OverturnedByZombies
<1>1. \/ UNCHANGED documents
      \/ \E d \in Document : documents[d] = "NONE" /\ \E v : documents' = [documents EXCEPT ![d] = v]
  BY DEF Next, Arrivals, Deliver, Answer, Insert, Duplicate, CommitEvent, FailEvent, Step,
     WebDies, Upload, PassStep, Start, Add, GetState, Retry, Mark, Finish, AddFails,
     RunStep, Take, Load, Scan, Read, HandBack, ScanFails, LoseLock, Due, Stalled,
     PlatformDies, RedisLoss, database
<1>2. documents \in [Document -> {"NONE", "QUARANTINED"} \cup Verdicts]
  BY DEF IntakeInv, ScanInv, RowsOK
<1> QED
  BY <1>1, <1>2 DEF OverturnedByZombies, Verdicts

\* Every step keeps the invariant and the verdicts that stand.
LEMMA NextIntake ==
  ASSUME IntakeInv, Next
  PROVE  IntakeInv' /\ OverturnedByZombies
<1>0. DeliveryInv /\ ScanInv
  BY DEF IntakeInv
<1>1. ASSUME Arrivals
      PROVE  IntakeInv'
  BY <1>0, <1>1, ArrivalsDelivery, ArrivalsScan DEF IntakeInv
<1>2. ASSUME ~Arrivals
      PROVE  UNCHANGED <<arriving, web, events>>
  BY <1>2 DEF Next, PassStep, Start, Add, GetState, Retry, Mark, Finish, AddFails,
     RunStep, Take, Load, Scan, Read, Write, HandBack, ScanFails, LoseLock, Due,
     Stalled, PlatformDies, RedisLoss, database
<1>3. ASSUME ~Arrivals
      PROVE  ScanInv'
  <2>1. ASSUME NEW s \in Slot, RunStep(s)
        PROVE  ScanInv'
    BY <1>0, <2>1, TakeScan, QuietScan, WriteScan, HandBackScan DEF RunStep
  <2> QED
    BY <1>0, <1>3, <2>1, PassScan, QuietScan, MovesScan, DeathScan, LossScan DEF Next
<1>4. IntakeInv'
  BY <1>0, <1>1, <1>2, <1>3, BackstageDelivery DEF IntakeInv
<1>5. OverturnedByZombies
  BY <1>0, VerdictsKept, WriteScan
<1> QED
  BY <1>4, <1>5

\* The invariant of deliveries, queues and scans.
THEOREM IntakeInvariant == Spec => []IntakeInv
<1>1. Init => IntakeInv
  BY InitIntake
<1>2. ASSUME IntakeInv, UNCHANGED vars
      PROVE  IntakeInv'
  <2>1. DeliveryInv'
    BY <1>2 DEF vars, IntakeInv, web, database, BackstageDelivery, DeliveryInv,
       AcknowledgedIsStored, Batch
  <2>2. ScanInv'
    BY <1>2 DEF vars, database, redis, platform, trouble, IntakeInv, ScanInv, RowsOK,
       Stored, QueueOK, CompletedMeansDecided, RunsOK, LocksOK, Undisturbed
  <2> QED
    BY <2>1, <2>2 DEF IntakeInv
<1>3. IntakeInv /\ [Next]_vars => IntakeInv'
  BY <1>2, NextIntake
<1> QED
  BY <1>1, <1>3, PTL DEF Spec

\* Rows, queues and processes are well typed, and the BullMQ lock of a job
\* belongs to one scan.
THEOREM IntakeTypes == Spec => []TypeOK
<1>1. IntakeInv => TypeOK
  <2> SUFFICES ASSUME IntakeInv PROVE TypeOK
    OBVIOUS
  <2>1. /\ arriving \in Scenarios
        /\ tx \in [Delivery -> [Event -> Running \cup
                     {"none", "duplicate", "committed", "threw"}]]
        /\ answer \in [Delivery -> {"none", "open", "202", "500"}]
        /\ events \subseteq Event
    BY DEF IntakeInv, DeliveryInv, TxStates
  <2>2. /\ documents \in [Document -> {"NONE", "QUARANTINED"} \cup Verdicts]
        /\ outbox \subseteq events \cup {d \in Document : documents[d] # "NONE"}
        /\ tries \in [Document -> 0 .. Attempts]
        /\ faults \in 0 .. MaxFaults
        /\ lost \in BOOLEAN
    BY DEF IntakeInv, ScanInv, RowsOK, Stored
  <2>3. queue \in [Item ->
          {"absent", "waiting", "active", "delayed", "completed", "failed"}]
    BY DEF IntakeInv, ScanInv, QueueOK, QueueStates
  <2>4. pass \in [Passes ->
          [at : {"idle", "next", "added", "retry", "mark"},
           item : Item \cup {NoItem}, todo : SUBSET Item]]
    BY DEF IntakeInv, ScanInv, QueueOK, PassType, PassSteps
  <2>5. runs \in [Slot ->
          [at : {"idle", "loading", "scanning", "reading", "writing", "completed", "failed"},
           doc : Document \cup {NoItem}, verdict : Verdicts \cup {"none"},
           locked : BOOLEAN]]
    BY DEF IntakeInv, ScanInv, RunsOK, RunType, RunSteps
  <2>6. \A s \in Slot : runs[s].locked =>
          /\ queue[runs[s].doc] = "active"
          /\ \A r \in Slot \ {s} : ~(runs[r].locked /\ runs[r].doc = runs[s].doc)
    BY DEF IntakeInv, ScanInv, LocksOK
  <2> QED
    BY <2>1, <2>2, <2>3, <2>4, <2>5, <2>6 DEF TypeOK
<1> QED
  BY <1>1, IntakeInvariant, PTL

\* A delivery is answered 202 only when all events of its batch are stored,
\* whatever other deliveries, crashes and failures happen.
THEOREM AcknowledgedAreStored == Spec => []AcknowledgedIsStored
<1>1. IntakeInv => AcknowledgedIsStored
  BY DEF IntakeInv, DeliveryInv
<1> QED
  BY <1>1, IntakeInvariant, PTL

\* A completed BullMQ job, which blocks its id for ever, never stands for a
\* document that still waits for its verdict.
THEOREM CompletedAreDecided == Spec => []CompletedMeansDecided
<1>1. IntakeInv => CompletedMeansDecided
  BY DEF IntakeInv, ScanInv, QueueOK
<1> QED
  BY <1>1, IntakeInvariant, PTL

\* As long as no scan has lost its lock, no verdict is ever replaced.
THEOREM VerdictsFinal == Spec => VerdictsStand
<1>1. IntakeInv /\ [Next]_vars => [OverturnedByZombies]_vars
  BY NextIntake
<1> QED
  BY <1>1, IntakeInvariant, PTL DEF Spec, VerdictsStand

-------------------------------------------------------------------------------
(***************************************************************************)
(* From the outbox to the queue.                                           *)
(***************************************************************************)

\* What is stored is on its way, and a pass has queued the item it is about to
\* mark.
Forwarded ==
  lost \/ /\ \A i \in events \cup Stored : i \in outbox \/ queue[i] # "absent"
          /\ \A l \in Passes : pass[l].at \in {"added", "retry", "mark"} =>
               pass[l].item \in Item /\ queue[pass[l].item] # "absent"

\* What is in the queue stays there.
QueueKeeps == \A i \in Item : queue[i] # "absent" => queue'[i] # "absent"

\* A step that stores nothing new, publishes nothing and queues no item in a
\* pass.
LEMMA StaysForwarded ==
  ASSUME Forwarded, lost' = lost, QueueKeeps, Stored' \subseteq Stored, IntakeInv,
         UNCHANGED <<events, outbox>>,
         \A l \in Passes :
           \/ pass'[l].at \notin {"added", "retry", "mark"}
           \/ /\ pass'[l].item = pass[l].item
              /\ pass[l].at \in {"added", "retry", "mark"}
  PROVE  Forwarded'
<1>1. events \cup Stored \subseteq Item
  BY DEF IntakeInv, DeliveryInv, Stored, Item
<1> QED
  BY <1>1 DEF Forwarded, QueueKeeps

\* No step drops anything but a loss that history remembers.
LEMMA NextForwarded ==
  ASSUME IntakeInv, Forwarded, Next
  PROVE  Forwarded'
<1>0. /\ queue \in [Item -> QueueStates] /\ pass \in [Passes -> PassType]
      /\ events \subseteq Event /\ Stored \subseteq Document /\ lost \in BOOLEAN
      /\ documents \in [Document -> {"NONE", "QUARANTINED"} \cup Verdicts]
      /\ Event \subseteq Item /\ Document \subseteq Item
  BY DEF IntakeInv, DeliveryInv, ScanInv, RowsOK, QueueOK, Stored, Item
<1>1. CASE RedisLoss \/ \E s \in Slot : LoseLock(s)
  BY <1>1 DEF RedisLoss, LoseLock, LosesLock, Forwarded
<1>2. CASE Arrivals
  <2>1. lost' = lost /\ UNCHANGED <<queue, pass>>
    BY <1>2 DEF Arrivals, Deliver, Answer, Insert, Duplicate, CommitEvent, FailEvent,
       WebDies, Upload, Step, Fault, redis, platform, trouble
  <2>2. \/ UNCHANGED <<events, documents, outbox>>
        \/ \E e \in Event : /\ events' = events \cup {e} /\ outbox' = outbox \cup {e}
                            /\ UNCHANGED documents
        \/ \E d \in Document : /\ Stored' \subseteq Stored \cup {d}
                               /\ outbox' = outbox \cup {d}
                               /\ UNCHANGED events
    BY <1>0, <1>2 DEF Arrivals, Deliver, Answer, Insert, Duplicate, CommitEvent, FailEvent,
       WebDies, Upload, Step, database, Stored
  <2> QED
    BY <2>1, <2>2 DEF Forwarded, Stored
<1>3. ASSUME NEW l \in Passes, PassStep(l) \/ AddFails(l)
      PROVE  Forwarded'
  <2>1. lost' = lost /\ UNCHANGED <<events, documents>>
    BY <1>3 DEF PassStep, Start, Add, GetState, Retry, Mark, Finish, AddFails, Fault,
       database, trouble
  <2>2. QueueKeeps
    BY <1>0, <1>3 DEF PassStep, Start, Add, GetState, Retry, Mark, Finish, AddFails,
       QueueKeeps, redis
  <2>3. CASE Start(l) \/ Finish(l) \/ AddFails(l)
    <3>1. /\ UNCHANGED outbox
          /\ \A k \in Passes : pass'[k] = pass[k] \/ pass'[k].at \in {"idle", "next"}
      BY <1>0, <2>3 DEF Start, Finish, AddFails, IdlePass, database, PassType
    <3> QED
      BY <2>1, <2>2, <3>1, StaysForwarded DEF Stored
  <2>4. CASE GetState(l) \/ Retry(l)
    <3>1. /\ UNCHANGED outbox /\ pass[l].at \in {"added", "retry"}
          /\ pass'[l].at = "next" \/ pass'[l].item = pass[l].item
          /\ \A k \in Passes \ {l} : pass'[k] = pass[k]
      <4>1. /\ UNCHANGED outbox /\ pass[l].at \in {"added", "retry"}
            /\ \E at \in PassSteps : Goes(l, at)
        BY <2>4 DEF GetState, Retry, database, PassSteps
      <4>2. PICK at \in PassSteps :
              pass' = [pass EXCEPT ![l] =
                [at |-> at, item |-> IF at = "next" THEN NoItem ELSE pass[l].item,
                 todo |-> pass[l].todo]]
        BY <4>1 DEF Goes
      <4>3. \A k \in Passes \ {l} : pass'[k] = pass[k]
        BY <1>0, <4>2
      <4>4. /\ pass'[l].at = at
            /\ pass'[l].item = IF at = "next" THEN NoItem ELSE pass[l].item
        BY <1>0, <4>2
      <4>5. pass'[l].at = "next" \/ pass'[l].item = pass[l].item
        BY <4>4
      <4> QED
        BY <4>1, <4>3, <4>5
    <3> QED
      BY <2>1, <2>2, <3>1, StaysForwarded DEF Stored
  <2>5. CASE Add(l)
    <3>1. PICK i \in pass[l].todo :
            /\ pass' = [pass EXCEPT ![l] =
                 [at |-> IF i \in Document THEN "added" ELSE "mark",
                  item |-> i, todo |-> pass[l].todo \ {i}]]
            /\ queue' = [queue EXCEPT ![i] = IF @ = "absent" THEN "waiting" ELSE @]
      BY <2>5 DEF Add
    <3>2. i \in Item /\ queue'[i] # "absent" /\ UNCHANGED outbox
      BY <1>0, <2>5, <3>1 DEF Add, PassType, database
    <3>3. pass'[l].item = i /\ \A k \in Passes \ {l} : pass'[k] = pass[k]
      BY <1>0, <3>1
    <3>4. \A j \in events \cup Stored : j \in Item
      BY <1>0
    <3> QED
      BY <1>0, <2>1, <2>2, <3>2, <3>3, <3>4 DEF Forwarded, Stored, QueueKeeps
  <2>6. CASE Mark(l)
    <3>1. /\ pass[l].at = "mark" /\ outbox \ {pass[l].item} \subseteq outbox'
          /\ UNCHANGED queue
          /\ \A k \in Passes : pass'[k] = pass[k] \/ pass'[k].at = "next"
      BY <1>0, <2>6 DEF Mark, Goes, redis
    <3> QED
      BY <2>1, <3>1 DEF Forwarded, Stored
  <2> QED
    BY <1>3, <2>3, <2>4, <2>5, <2>6 DEF PassStep
<1>4. CASE \/ \E s \in Slot : RunStep(s) \/ ScanFails(s)
           \/ \E d \in Document : Due(d) \/ Stalled(d)
           \/ PlatformDies
  <2>1. lost' = lost /\ UNCHANGED <<events, outbox>>
    BY <1>4 DEF RunStep, Take, Load, Scan, Read, Write, HandBack, ScanFails, Due, Stalled,
       PlatformDies, Fault, database, trouble
  <2>2. \A l \in Passes : pass'[l] = pass[l] \/ pass'[l].at = "idle"
    <3>1. pass' = pass \/ pass' = [l \in Passes |-> IdlePass]
      BY <1>4 DEF RunStep, Take, Load, Scan, Read, Write, HandBack, ScanFails, Due,
         Stalled, PlatformDies, platform
    <3> QED
      BY <3>1 DEF IdlePass
  <2>3. QueueKeeps
    <3>1. \/ UNCHANGED queue
          \/ \E d \in Document, q \in QueueStates \ {"absent"} :
               queue' = [queue EXCEPT ![d] = q]
      <4>1. ASSUME NEW s \in Slot, NEW d \in Document, Take(s, d)
            PROVE  queue' = [queue EXCEPT ![d] = "active"]
        BY <4>1 DEF Take
      <4>2. ASSUME NEW s \in Slot, HandBack(s)
            PROVE  \/ UNCHANGED queue
                   \/ \E q \in {"completed", "delayed", "failed"} :
                        queue' = [queue EXCEPT ![runs[s].doc] = q]
        BY <4>2 DEF HandBack, redis
      <4>3. ASSUME NEW s \in Slot, HandBack(s)
            PROVE  runs[s].doc \in Document
        BY <4>3 DEF HandBack, IntakeInv, ScanInv, RunsOK
      <4>4. ASSUME \E d \in Document : Due(d) \/ Stalled(d)
            PROVE  \E d \in Document, q \in {"waiting", "failed"} :
                     queue' = [queue EXCEPT ![d] = q]
        BY <4>4 DEF Due, Stalled
      <4>5. ASSUME \/ \E s \in Slot : \/ Load(s) \/ Scan(s) \/ Read(s) \/ Write(s)
                                     \/ ScanFails(s)
                   \/ PlatformDies
            PROVE  UNCHANGED queue
        BY <4>5 DEF Load, Scan, Read, Write, ScanFails, PlatformDies, redis
      <4>6. {"active", "waiting", "completed", "delayed", "failed"}
              \subseteq QueueStates \ {"absent"}
        BY DEF QueueStates
      <4> QED
        BY <1>4, <4>1, <4>2, <4>3, <4>4, <4>5, <4>6 DEF RunStep
    <3> QED
      BY <1>0, <3>1 DEF QueueKeeps
  <2>4. Stored' \subseteq Stored
    <3>1. CASE \E s \in Slot : Write(s)
      <4>1. PICK s \in Slot : Write(s)
        BY <3>1
      <4>2. runs[s].doc \in Stored
        BY <4>1 DEF Write, IntakeInv, ScanInv, RunsOK, Stored
      <4> QED
        BY <1>0, <4>1, <4>2 DEF Write, Stored
    <3>2. CASE UNCHANGED documents
      BY <3>2 DEF Stored
    <3> QED
      BY <1>4, <3>1, <3>2 DEF RunStep, Take, Load, Scan, Read, HandBack, ScanFails, Due,
         Stalled, PlatformDies, database
  <2> QED
    BY <2>1, <2>2, <2>3, <2>4, StaysForwarded
<1> QED
  BY <1>1, <1>2, <1>3, <1>4 DEF Next

\* What is acknowledged is stored, and what is stored is in the outbox or in
\* its queue: the dispatcher marks an event only after it has queued it.
THEOREM NothingIsDropped == Spec => []NothingDropped
<1>1. Init => Forwarded
  BY DEF Init, Forwarded, Stored, IdlePass
<1>2. ASSUME Forwarded, UNCHANGED vars
      PROVE  Forwarded'
  BY <1>2 DEF Forwarded, Stored, vars, database, redis, platform, trouble
<1>3. IntakeInv /\ Forwarded /\ [Next]_vars => Forwarded'
  BY <1>2, NextForwarded
<1>4. IntakeInv /\ Forwarded => NothingDropped
  BY DEF IntakeInv, DeliveryInv, Forwarded, Stored, NothingDropped
<1> QED
  BY <1>1, <1>3, <1>4, IntakeInvariant, PTL DEF Spec

===============================================================================
