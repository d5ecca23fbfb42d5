-------------------------------- MODULE Intake --------------------------------
(***************************************************************************)
(* What comes in from outside: batches of provider notifications and       *)
(* uploaded documents.  Both are stored with an outbox event in one        *)
(* transaction, and the platform worker brings both from the outbox to     *)
(* their BullMQ queues; it also runs the document scans.  Nothing takes    *)
(* provider notifications out of their queue yet.                          *)
(*                                                                         *)
(*   packages/db/src/services/webhook-service.ts   a notification's tx     *)
(*   apps/web/src/app/api/v1/webhooks/             deliveries              *)
(*   packages/db/src/services/document-service.ts  uploads, scan results   *)
(*   apps/platform-worker/src/dispatcher.ts        the passes              *)
(*   apps/platform-worker/src/document-scan-processor.ts  the scans        *)
(*                                                                         *)
(* At most MaxFaults of these happen: a notification's transaction fails,  *)
(* the web process dies, Redis does not take a command or loses its data,  *)
(* a scan (storage, scanner, the write of the result) fails or loses the   *)
(* BullMQ lock of its job, the platform worker dies.                       *)
(***************************************************************************)
EXTENDS Integers, FiniteSets

CONSTANTS
  Event,      \* provider notifications, known by their providerEventId
  Document,   \* documents
  Scenarios,  \* the sets of events and documents that arrive together
  Delivery,   \* deliveries of the batch of events that may overlap
  Slot,       \* scans the platform worker runs at once
  Attempts,   \* how often BullMQ tries a scan by itself (8 in the code)
  MaxFaults,  \* bound: how many faults happen
  NoItem      \* a pass or a slot without a current item

Item == Event \cup Document
Passes == {"poll", "reconcile"}

ASSUME IntakeAssumption ==
  /\ Event \cap Document = {}
  /\ Scenarios \subseteq SUBSET Item
  /\ Attempts \in Nat \ {0}
  /\ MaxFaults \in Nat
  /\ NoItem \notin Item

VARIABLES
  arriving,  \* what arrives in this behaviour
  tx,        \* tx[x][e]: the transaction of event e in delivery x
  answer,    \* answer[x]: what the provider knows of delivery x
  events,    \* WebhookEvent rows, all QUEUED
  documents, \* documents[d]: Document.scanStatus, or "NONE"
  outbox,    \* the items with an unpublished OutboxEvent row
  queue,     \* queue[i]: state of the BullMQ job of item i
  tries,     \* tries[d]: attempts BullMQ has made of the scan of d
  runs,      \* runs[s]: the scan in slot s of the platform worker
  pass,      \* pass[l]: a pass of the dispatcher
  faults,    \* how many faults have happened
  lost       \* history: a scan has lost the BullMQ lock of its job

web == <<tx, answer>>
database == <<events, documents, outbox>>
redis == <<queue, tries>>
platform == <<runs, pass>>
trouble == <<faults, lost>>
vars == <<arriving, web, database, redis, platform, trouble>>

Batch == arriving \cap Event

Fault == faults < MaxFaults /\ faults' = faults + 1 /\ UNCHANGED lost

LosesLock == faults < MaxFaults /\ faults' = faults + 1 /\ lost' = TRUE

-------------------------------------------------------------------------------
(***************************************************************************)
(* Deliveries.  The provider sends the batch until it is answered 202; the *)
(* route runs one transaction per event (Promise.all).                     *)
(***************************************************************************)

Running == {"begun", "inserted"}

Deliver(x) ==
  /\ Batch # {}
  /\ answer[x] \in {"none", "500"}
  /\ \A e \in Event : tx[x][e] \notin Running
  /\ answer' = [answer EXCEPT ![x] = "open"]
  /\ tx' = [tx EXCEPT ![x] = [e \in Event |-> IF e \in Batch THEN "begun" ELSE "none"]]
  /\ UNCHANGED <<arriving, database, redis, platform, trouble>>

Step(x, e, from, to) ==
  /\ tx[x][e] = from
  /\ tx' = [tx EXCEPT ![x][e] = to]
  /\ UNCHANGED <<arriving, answer, redis, platform>>

\* The insert waits while another transaction has inserted the same
\* providerEventId and has not ended.
Insert(x, e) ==
  /\ Step(x, e, "begun", "inserted")
  /\ e \notin events
  /\ \A y \in Delivery : tx[y][e] # "inserted"
  /\ UNCHANGED <<database, trouble>>

\* The unique violation (P2002) is caught; what PostgreSQL has aborted rolls
\* back, and the event counts as a duplicate.
Duplicate(x, e) ==
  /\ Step(x, e, "begun", "duplicate")
  /\ e \in events
  /\ UNCHANGED <<database, trouble>>

CommitEvent(x, e) ==
  /\ Step(x, e, "inserted", "committed")
  /\ events' = events \cup {e}
  /\ outbox' = outbox \cup {e}
  /\ UNCHANGED <<documents, trouble>>

\* Mutant of FailEvent: every error counts as a duplicate.
FailEventAsDuplicate(x, e) ==
  /\ Fault
  /\ \E from \in Running : Step(x, e, from, "duplicate")
  /\ UNCHANGED database

FailEvent(x, e) ==
  /\ Fault
  /\ \E from \in Running : Step(x, e, from, "threw")
  /\ UNCHANGED database

\* 202 when all transactions have succeeded; 500 as soon as one has thrown,
\* while the others go on.
Answer(x) ==
  /\ answer[x] = "open"
  /\ \/ /\ \A e \in Batch : tx[x][e] \in {"committed", "duplicate"}
        /\ answer' = [answer EXCEPT ![x] = "202"]
     \/ /\ \E e \in Batch : tx[x][e] = "threw"
        /\ answer' = [answer EXCEPT ![x] = "500"]
  /\ UNCHANGED <<arriving, tx, database, redis, platform, trouble>>

WebDies ==
  /\ Fault
  /\ \E x \in Delivery : answer[x] = "open"
  /\ tx' = [x \in Delivery |-> [e \in Event |->
       IF tx[x][e] \in Running THEN "threw" ELSE tx[x][e]]]
  /\ answer' = [x \in Delivery |-> IF answer[x] = "open" THEN "500" ELSE answer[x]]
  /\ UNCHANGED <<arriving, database, redis, platform>>

\* The metadata of an upload is stored, quarantined, with its outbox event.
Upload(d) ==
  /\ d \in arriving
  /\ documents[d] = "NONE"
  /\ documents' = [documents EXCEPT ![d] = "QUARANTINED"]
  /\ outbox' = outbox \cup {d}
  /\ UNCHANGED <<arriving, web, events, redis, platform, trouble>>

-------------------------------------------------------------------------------
(***************************************************************************)
(* The dispatcher.  A pass lists its items and enqueues one after another. *)
(***************************************************************************)

IdlePass == [at |-> "idle", item |-> NoItem, todo |-> {}]

Quarantined == {d \in Document : documents[d] = "QUARANTINED"}

\* A poll finds unpublished outbox events; a reconciliation the quarantined
\* documents and the events that wait to be processed.
Listed(l) == IF l = "poll" THEN outbox ELSE Quarantined \cup events

Start(l) ==
  /\ pass[l].at = "idle" /\ Listed(l) # {}
  /\ pass' = [pass EXCEPT ![l] = [at |-> "next", item |-> NoItem, todo |-> Listed(l)]]
  /\ UNCHANGED <<arriving, web, database, redis, runs, trouble>>

Goes(l, at) ==
  pass' = [pass EXCEPT ![l] =
    [at |-> at, item |-> IF at = "next" THEN NoItem ELSE @.item, todo |-> @.todo]]

\* Queue.add keeps an existing job of the same id.  enqueueProviderWebhook
\* leaves it at that.
Add(l) ==
  /\ pass[l].at = "next"
  /\ \E i \in pass[l].todo :
       /\ pass' = [pass EXCEPT ![l] =
            [at |-> IF i \in Document THEN "added" ELSE "mark",
             item |-> i, todo |-> @.todo \ {i}]]
       /\ queue' = [queue EXCEPT ![i] = IF @ = "absent" THEN "waiting" ELSE @]
  /\ UNCHANGED <<arriving, web, database, tries, runs, trouble>>

\* A command fails: the outbox event stays unpublished (FAILED, to be tried
\* again later), a reconciliation goes on to its next item.
AddFails(l) ==
  /\ Fault
  /\ pass[l].at = "next"
  /\ \E i \in pass[l].todo : pass' = [pass EXCEPT ![l].todo = @ \ {i}]
  /\ UNCHANGED <<arriving, web, database, redis, runs>>


\* Mutant of MayRetry: every job that is not done is retried.
MayRetryActive(state) == state \in {"failed", "active"}

\* Which BullMQ jobs enqueueDocumentScan retries.
MayRetry(state) == state = "failed"

GetState(l) ==
  /\ pass[l].at = "added"
  /\ Goes(l, IF MayRetry(queue[pass[l].item]) THEN "retry" ELSE "mark")
  /\ UNCHANGED <<arriving, web, database, redis, runs, trouble>>

\* job.retry throws unless the job is in the state it is retried from; the
\* attempts made stay counted.
Retry(l) ==
  /\ pass[l].at = "retry"
  /\ LET d == pass[l].item IN
     IF MayRetry(queue[d])
     THEN Goes(l, "mark") /\ queue' = [queue EXCEPT ![d] = "waiting"]
     ELSE Goes(l, "next") /\ UNCHANGED queue
  /\ UNCHANGED <<arriving, web, database, tries, runs, trouble>>

Mark(l) ==
  /\ pass[l].at = "mark"
  /\ outbox' = IF l = "poll" THEN outbox \ {pass[l].item} ELSE outbox
  /\ Goes(l, "next")
  /\ UNCHANGED <<arriving, web, events, documents, redis, runs, trouble>>

Finish(l) ==
  /\ pass[l].at = "next" /\ pass[l].todo = {}
  /\ pass' = [pass EXCEPT ![l] = IdlePass]
  /\ UNCHANGED <<arriving, web, database, redis, runs, trouble>>

-------------------------------------------------------------------------------
(***************************************************************************)
(* The scans: DocumentScanProcessor.process in a BullMQ worker.            *)
(***************************************************************************)

IdleRun == [at |-> "idle", doc |-> NoItem, verdict |-> "none", locked |-> FALSE]

Verdicts == {"CLEAN", "INFECTED"}

RunGoes(s, at) == runs' = [runs EXCEPT ![s].at = at]

Take(s, d) ==
  /\ runs[s].at = "idle" /\ queue[d] = "waiting"
  /\ queue' = [queue EXCEPT ![d] = "active"]
  /\ runs' = [runs EXCEPT ![s] =
       [at |-> "loading", doc |-> d, verdict |-> "none", locked |-> TRUE]]
  /\ UNCHANGED <<arriving, web, database, tries, pass, trouble>>

\* A document that is not quarantined is skipped, and its job completed.
Load(s) ==
  /\ runs[s].at = "loading"
  /\ RunGoes(s, IF runs[s].doc \in Quarantined THEN "scanning" ELSE "completed")
  /\ UNCHANGED <<arriving, web, database, redis, pass, trouble>>

\* The scanner's verdict may differ from one scan to the next, as its
\* signatures do.
Scan(s) ==
  /\ runs[s].at = "scanning"
  /\ \E v \in Verdicts :
       runs' = [runs EXCEPT ![s].at = "reading", ![s].verdict = v]
  /\ UNCHANGED <<arriving, web, database, redis, pass, trouble>>

\* recordDocumentScanResult reads the document and throws if it has a verdict.
Read(s) ==
  /\ runs[s].at = "reading"
  /\ RunGoes(s, IF runs[s].doc \in Quarantined THEN "writing" ELSE "failed")
  /\ UNCHANGED <<arriving, web, database, redis, pass, trouble>>

\* It then writes the verdict without a condition.
Write(s) ==
  /\ runs[s].at = "writing"
  /\ documents' = [documents EXCEPT ![runs[s].doc] = runs[s].verdict]
  /\ RunGoes(s, "completed")
  /\ UNCHANGED <<arriving, web, events, outbox, redis, pass, trouble>>

\* Mutant of ScanFails: the error is logged and not thrown on.
ScanFailsQuietly(s) ==
  /\ Fault
  /\ runs[s].at \in {"loading", "scanning", "reading", "writing"}
  /\ RunGoes(s, "completed")
  /\ UNCHANGED <<arriving, web, database, redis, pass>>

ScanFails(s) ==
  /\ Fault
  /\ runs[s].at \in {"loading", "scanning", "reading", "writing"}
  /\ RunGoes(s, "failed")
  /\ UNCHANGED <<arriving, web, database, redis, pass>>

\* The job is completed, delayed for its next attempt or failed for good;
\* all of these need its lock.
HandBack(s) ==
  /\ runs[s].at \in {"completed", "failed"}
  /\ runs' = [runs EXCEPT ![s] = IdleRun]
  /\ LET d == runs[s].doc IN
     IF runs[s].locked
     THEN /\ tries' = [tries EXCEPT ![d] = IF @ < Attempts THEN @ + 1 ELSE @]
          /\ queue' = [queue EXCEPT ![d] =
               IF runs[s].at = "completed" THEN "completed"
               ELSE IF tries[d] + 1 < Attempts THEN "delayed" ELSE "failed"]
     ELSE UNCHANGED redis
  /\ UNCHANGED <<arriving, web, database, pass, trouble>>

LoseLock(s) ==
  /\ LosesLock
  /\ runs[s].locked
  /\ runs' = [runs EXCEPT ![s].locked = FALSE]
  /\ UNCHANGED <<arriving, web, database, redis, pass>>

PlatformDies ==
  /\ Fault
  /\ \/ \E s \in Slot : runs[s] # IdleRun
     \/ \E l \in Passes : pass[l] # IdlePass
  /\ runs' = [s \in Slot |-> IdleRun]
  /\ pass' = [l \in Passes |-> IdlePass]
  /\ UNCHANGED <<arriving, web, database, redis>>

-------------------------------------------------------------------------------
(***************************************************************************)
(* BullMQ and Redis.                                                       *)
(***************************************************************************)

Due(d) ==
  /\ queue[d] = "delayed"
  /\ queue' = [queue EXCEPT ![d] = "waiting"]
  /\ UNCHANGED <<arriving, web, database, tries, platform, trouble>>

\* An active job whose lock expired waits again, or fails when that happened
\* to it before.
Stalled(d) ==
  /\ queue[d] = "active"
  /\ \A s \in Slot : ~(runs[s].doc = d /\ runs[s].locked)
  /\ \E q \in {"waiting", "failed"} : queue' = [queue EXCEPT ![d] = q]
  /\ UNCHANGED <<arriving, web, database, tries, platform, trouble>>

RedisLoss ==
  /\ LosesLock
  /\ \E i \in Item : queue[i] # "absent"
  /\ queue' = [i \in Item |-> "absent"]
  /\ tries' = [d \in Document |-> 0]
  /\ runs' = [s \in Slot |-> [runs[s] EXCEPT !.locked = FALSE]]
  /\ UNCHANGED <<arriving, web, database, pass>>

-------------------------------------------------------------------------------

Init ==
  /\ arriving \in Scenarios
  /\ tx = [x \in Delivery |-> [e \in Event |-> "none"]]
  /\ answer = [x \in Delivery |-> "none"]
  /\ events = {}
  /\ documents = [d \in Document |-> "NONE"]
  /\ outbox = {}
  /\ queue = [i \in Item |-> "absent"]
  /\ tries = [d \in Document |-> 0]
  /\ runs = [s \in Slot |-> IdleRun]
  /\ pass = [l \in Passes |-> IdlePass]
  /\ faults = 0
  /\ lost = FALSE

Arrivals ==
  \/ \E x \in Delivery :
       \/ Deliver(x)
       \/ Answer(x)
       \/ \E e \in Event :
            \/ Insert(x, e)
            \/ Duplicate(x, e)
            \/ CommitEvent(x, e)
            \/ FailEvent(x, e)
  \/ WebDies
  \/ \E d \in Document : Upload(d)

PassStep(l) ==
  Start(l) \/ Add(l) \/ GetState(l) \/ Retry(l) \/ Mark(l) \/ Finish(l)

RunStep(s) ==
  \/ \E d \in Document : Take(s, d)
  \/ Load(s)
  \/ Scan(s)
  \/ Read(s)
  \/ Write(s)
  \/ HandBack(s)

Next ==
  \/ Arrivals
  \/ \E l \in Passes : PassStep(l) \/ AddFails(l)
  \/ \E s \in Slot : RunStep(s) \/ ScanFails(s) \/ LoseLock(s)
  \/ \E d \in Document : Due(d) \/ Stalled(d)
  \/ PlatformDies
  \/ RedisLoss

\* The timers start their passes and Node runs them on; a BullMQ worker takes
\* waiting jobs, its scans end (they have a timeout), and BullMQ moves
\* delayed and stalled jobs.  Nothing obliges users and providers.
Fairness ==
  /\ \A l \in Passes : WF_vars(PassStep(l))
  /\ \A s \in Slot : WF_vars(RunStep(s))
  /\ \A d \in Document : WF_vars(Due(d)) /\ WF_vars(Stalled(d))

Spec == Init /\ [][Next]_vars /\ Fairness

-------------------------------------------------------------------------------
(***************************************************************************)
(* Properties.                                                             *)
(***************************************************************************)

\* The rows, queues and processes are well typed; a locked job is active and
\* belongs to one scan.
TypeOK ==
  /\ arriving \in Scenarios
  /\ tx \in [Delivery -> [Event -> Running \cup
               {"none", "duplicate", "committed", "threw"}]]
  /\ answer \in [Delivery -> {"none", "open", "202", "500"}]
  /\ events \subseteq Event
  /\ documents \in [Document -> {"NONE", "QUARANTINED"} \cup Verdicts]
  /\ outbox \subseteq events \cup {d \in Document : documents[d] # "NONE"}
  /\ queue \in [Item ->
       {"absent", "waiting", "active", "delayed", "completed", "failed"}]
  /\ tries \in [Document -> 0 .. Attempts]
  /\ runs \in [Slot ->
       [at : {"idle", "loading", "scanning", "reading", "writing", "completed", "failed"},
        doc : Document \cup {NoItem}, verdict : Verdicts \cup {"none"},
        locked : BOOLEAN]]
  /\ \A s \in Slot : runs[s].locked =>
       /\ queue[runs[s].doc] = "active"
       /\ \A r \in Slot \ {s} : ~(runs[r].locked /\ runs[r].doc = runs[s].doc)
  /\ pass \in [Passes ->
       [at : {"idle", "next", "added", "retry", "mark"},
        item : Item \cup {NoItem}, todo : SUBSET Item]]
  /\ faults \in 0 .. MaxFaults
  /\ lost \in BOOLEAN

\* A provider that is answered 202 will not send the batch again, so every
\* event of it is stored: also when another delivery of it was ahead, failed
\* in part or was abandoned.
AcknowledgedIsStored ==
  \A x \in Delivery : answer[x] = "202" => Batch \subseteq events

\* Nothing acknowledged or uploaded is dropped on its way: until Redis loses
\* data or a scan its lock, what is stored has its outbox event unpublished or
\* its job in the queue, however passes fail, overlap and die in between.
NothingDropped ==
  /\ AcknowledgedIsStored
  /\ lost \/ \A i \in events \cup {d \in Document : documents[d] # "NONE"} :
               i \in outbox \/ queue[i] # "absent"

\* A completed BullMQ job is never added again under its id, so one must not
\* be left behind for a document that still waits for its verdict.
CompletedMeansDecided ==
  \A d \in Document : queue[d] = "completed" => documents[d] \in Verdicts

\* A verdict that stands is replaced only if a scan has lost its job to
\* another one: BullMQ's lock, not the database, keeps verdicts final.
OverturnedByZombies ==
  \A d \in Document :
    documents[d] \in Verdicts /\ documents'[d] # documents[d] => lost

VerdictsStand == [][OverturnedByZombies]_vars


===============================================================================
