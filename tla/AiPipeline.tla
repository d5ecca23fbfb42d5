------------------------------ MODULE AiPipeline ------------------------------
(***************************************************************************)
(* AI extraction of notes: from the note's transaction through the outbox, *)
(* the dispatcher and the BullMQ queue to the inference worker, and back   *)
(* through the internal API into the AiJob row.                            *)
(*                                                                         *)
(*   packages/db/src/services/note-service.ts  CreateNote                  *)
(*   apps/platform-worker/src/dispatcher.ts    the passes: poll, reconcile *)
(*   apps/inference-worker/src/worker.ts       the worker                  *)
(*   packages/db/src/services/ai-service.ts    the API calls               *)
(*                                                                         *)
(* PostgreSQL holds status, retries, attempts, stored and outbox; Redis    *)
(* holds queue.  An API call is a transaction at READ COMMITTED that reads *)
(* the job (Read), for a result then its attempts (Count, a SELECT of its  *)
(* own), and later writes (Accept) or throws (Reject); a call whose worker *)
(* has gone keeps running on the server.                                   *)
(*                                                                         *)
(* What may go wrong spends one of MaxFaults.  Faults names the kinds:     *)
(*   "lm"       LM Studio is unavailable                                   *)
(*   "drop"     the worker loses the connection of a call                  *)
(*   "worker"   the worker process dies                                    *)
(*   "stall"    the worker loses the BullMQ lock of the job it works on    *)
(*   "redis"    Redis loses its data                                       *)
(*   "platform" the platform worker dies in the middle of its passes       *)
(***************************************************************************)
EXTENDS Integers, FiniteSets

CONSTANTS
  Job,         \* AI jobs, numbered in the order of their creation
  Polls,       \* passes of dispatchOnce that may overlap
  Reconciles,  \* passes of reconcileOnce that may overlap
  Limit,       \* how many jobs one reconciliation lists
  Outputs,     \* invalid outputs that fail a job (3 in the code)
  Faults,      \* the kinds of fault that may happen
  MaxFaults,   \* bound: how many faults happen
  NoItem       \* a pass without a current item, a call that has not read

ASSUME PipelineAssumption ==
  /\ Job \subseteq Nat
  /\ Polls \cap Reconciles = {}
  /\ Limit \in Nat \ {0}
  /\ Outputs \in Nat \ {0}
  /\ MaxFaults \in Nat

VARIABLES
  status,    \* status[j]: AiJob.status, or "NONE" before the note exists
  retries,   \* retries[j]: AiJob.validationRetries
  attempts,  \* attempts[j]: the number of AiAttempt rows
  stored,    \* stored[j]: how often suggestions were stored for the job
  outbox,    \* unpublished OutboxEvent rows: <<job, attempts when created>>
  queue,     \* queue[j]: state of BullMQ job ai-extraction-<j>
  worker,    \* the inference worker (concurrency 1)
  calls,     \* API calls the server is executing
  pass,      \* pass[l]: a pass of the platform worker
  faults     \* faults so far

vars ==
  <<status, retries, attempts, stored, outbox, queue, worker, calls, pass, faults>>

database == <<status, retries, attempts, stored, outbox>>

States ==
  {"QUEUED", "WAITING_FOR_WORKER", "WAITING_FOR_INFERENCE", "PROCESSING",
   "COMPLETED", "FAILED_VALIDATION", "FAILED_TERMINAL"}

\* The table of packages/domain/src/index.ts.
Transitions(from) ==
  CASE from = "QUEUED" ->
         {"WAITING_FOR_WORKER", "WAITING_FOR_INFERENCE", "PROCESSING",
          "FAILED_TERMINAL"}
    [] from = "WAITING_FOR_WORKER" ->
         {"QUEUED", "WAITING_FOR_INFERENCE", "PROCESSING", "FAILED_TERMINAL"}
    [] from = "WAITING_FOR_INFERENCE" -> {"QUEUED", "PROCESSING", "FAILED_TERMINAL"}
    [] from = "PROCESSING" ->
         {"COMPLETED", "WAITING_FOR_INFERENCE", "FAILED_VALIDATION",
          "FAILED_TERMINAL"}
    [] from = "FAILED_VALIDATION" -> {"QUEUED", "FAILED_TERMINAL"}
    [] OTHER -> {}

\* What listNonterminalAiJobIds selects.
Nonterminal ==
  {"QUEUED", "WAITING_FOR_WORKER", "WAITING_FOR_INFERENCE", "PROCESSING",
   "FAILED_VALIDATION"}

Passes == Polls \cup Reconciles

JobOf(event) == event[1]

Fault(kind) ==
  kind \in Faults /\ faults < MaxFaults /\ faults' = faults + 1

-------------------------------------------------------------------------------
(***************************************************************************)
(* The note.                                                               *)
(***************************************************************************)

\* Note, AiJob and outbox event are created in one transaction.
CreateNote(j) ==
  /\ status[j] = "NONE"
  /\ \A i \in Job : i < j => status[i] # "NONE"
  /\ status' = [status EXCEPT ![j] = "QUEUED"]
  /\ outbox' = outbox \cup {<<j, 0>>}
  /\ UNCHANGED <<retries, attempts, stored, queue, worker, calls, pass, faults>>

-------------------------------------------------------------------------------
(***************************************************************************)
(* The platform worker.  A pass lists what it will enqueue and then goes   *)
(* through the list; every Redis command is a step of its own.             *)
(***************************************************************************)

\* The Limit oldest nonterminal jobs.
Oldest ==
  LET open == {j \in Job : status[j] \in Nonterminal}
  IN  {j \in open : Cardinality({i \in open : i < j}) < Limit}

IdlePass == [at |-> "idle", item |-> NoItem, todo |-> {}]

\* What pass l finds to do: unpublished events, or the oldest jobs.
Listed(l) == IF l \in Polls THEN outbox ELSE {<<j, 0>> : j \in Oldest}

\* A pass that finds nothing changes nothing.
Start(l) ==
  /\ pass[l].at = "idle" /\ Listed(l) # {}
  /\ pass' = [pass EXCEPT ![l] = [at |-> "next", item |-> NoItem, todo |-> Listed(l)]]
  /\ UNCHANGED <<database, queue, worker, calls, faults>>

\* Pass l goes on to step `at` of its item, or to its next item.
Goes(l, at) ==
  pass' = [pass EXCEPT ![l] =
    [at |-> at, item |-> IF at = "next" THEN NoItem ELSE @.item, todo |-> @.todo]]

\* Queue.add leaves an existing job of the same id as it is.
Added(q) == IF q = "absent" THEN "waiting" ELSE q

\* The first call of enqueue: queue.add.
Add(l) ==
  /\ pass[l].at = "next"
  /\ \E e \in pass[l].todo :
       /\ pass' = [pass EXCEPT ![l] =
            [at |-> "added", item |-> e, todo |-> @.todo \ {e}]]
       /\ queue' = [queue EXCEPT ![JobOf(e)] = Added(@)]
  /\ UNCHANGED <<database, worker, calls, faults>>

\* Mutant of GetState: a completed BullMQ job is left in place.
GetStateKeepingCompleted(l) ==
  /\ pass[l].at = "added"
  /\ Goes(l, IF queue[JobOf(pass[l].item)] = "failed" THEN "retry" ELSE "mark")
  /\ UNCHANGED <<database, queue, worker, calls, faults>>

\* job.getState decides how enqueue goes on.
GetState(l) ==
  /\ pass[l].at = "added"
  /\ LET q == queue[JobOf(pass[l].item)] IN
     Goes(l, IF q = "completed" THEN "remove"
             ELSE IF q = "failed" THEN "retry" ELSE "mark")
  /\ UNCHANGED <<database, queue, worker, calls, faults>>

\* job.remove, which throws if a worker holds the job's lock.  The pass then
\* goes on to its next item; a failed outbox event stays unpublished.
Remove(l) ==
  /\ pass[l].at = "remove"
  /\ LET j == JobOf(pass[l].item) IN
     IF queue[j] = "active"
     THEN Goes(l, "next") /\ UNCHANGED queue
     ELSE Goes(l, "add again") /\ queue' = [queue EXCEPT ![j] = "absent"]
  /\ UNCHANGED <<database, worker, calls, faults>>

AddAgain(l) ==
  /\ pass[l].at = "add again"
  /\ queue' = [queue EXCEPT ![JobOf(pass[l].item)] = Added(@)]
  /\ Goes(l, "mark")
  /\ UNCHANGED <<database, worker, calls, faults>>

\* job.retry, which throws unless the job is still failed.
Retry(l) ==
  /\ pass[l].at = "retry"
  /\ LET j == JobOf(pass[l].item) IN
     IF queue[j] = "failed"
     THEN Goes(l, "mark") /\ queue' = [queue EXCEPT ![j] = "waiting"]
     ELSE Goes(l, "next") /\ UNCHANGED queue
  /\ UNCHANGED <<database, worker, calls, faults>>

\* markOutboxPublished; a reconciliation has nothing to mark.
Mark(l) ==
  /\ pass[l].at = "mark"
  /\ outbox' = IF l \in Polls THEN outbox \ {pass[l].item} ELSE outbox
  /\ Goes(l, "next")
  /\ UNCHANGED <<status, retries, attempts, stored, queue, worker, calls, faults>>

Finish(l) ==
  /\ pass[l].at = "next" /\ pass[l].todo = {}
  /\ pass' = [pass EXCEPT ![l] = IdlePass]
  /\ UNCHANGED <<database, queue, worker, calls, faults>>

PlatformDies ==
  /\ Fault("platform")
  /\ pass' = [l \in Passes |-> IdlePass]
  /\ UNCHANGED <<database, queue, worker, calls>>

-------------------------------------------------------------------------------
(***************************************************************************)
(* The inference worker.  It reports PROCESSING, fetches the prompt, asks  *)
(* LM Studio and submits the answer, waiting for each API call.  A call    *)
(* that throws fails the BullMQ job (BullMQ retries nothing by itself).    *)
(***************************************************************************)

NoCall == NoItem

IdleWorker == [at |-> "idle", job |-> NoItem, locked |-> FALSE]

\* What a call submits, as submitAiResult finds it: invalid, valid, or valid
\* with a suggestion id that is taken, so that its rows cannot be stored.
Results == {"valid", "invalid", "unstorable"}

\* Mutant of Call: the worker does not await the call.
CallUnawaited(op, j) == [op |-> op, job |-> j, mine |-> FALSE, seen |-> NoCall]

Call(op, j) == [op |-> op, job |-> j, mine |-> TRUE, seen |-> NoCall]

\* The worker takes a waiting job and reports that it is processing it.
Take(j) ==
  /\ worker.at = "idle" /\ queue[j] = "waiting"
  /\ queue' = [queue EXCEPT ![j] = "active"]
  /\ worker' = [at |-> "calling", job |-> j, locked |-> TRUE]
  /\ calls' = calls \cup {Call("processing", j)}
  /\ UNCHANGED <<database, pass, faults>>

\* Mutant of Infer: the submission of the output is not awaited.
InferUnawaited(output) ==
  /\ worker.at = "prompted"
  /\ worker' = [worker EXCEPT !.at = "completed"]
  /\ calls' = calls \cup {[Call(output, worker.job) EXCEPT !.mine = FALSE]}
  /\ UNCHANGED <<database, queue, pass, faults>>

\* LM Studio answers: the output is submitted, whatever it is.
Infer(output) ==
  /\ worker.at = "prompted"
  /\ worker' = [worker EXCEPT !.at = "calling"]
  /\ calls' = calls \cup {Call(output, worker.job)}
  /\ UNCHANGED <<database, queue, pass, faults>>

\* LM Studio answers with nothing or with more than 250000 characters: the
\* route refuses the submission and the worker's job fails, uncounted.
Refused ==
  /\ worker.at = "prompted"
  /\ worker' = [worker EXCEPT !.at = "failed"]
  /\ UNCHANGED <<database, queue, calls, pass, faults>>

\* LM Studio does not: the worker reports that it waits.
Unavailable ==
  /\ Fault("lm")
  /\ worker.at = "prompted"
  /\ worker' = [worker EXCEPT !.at = "calling"]
  /\ calls' = calls \cup {Call("waiting", worker.job)}
  /\ UNCHANGED <<database, queue, pass>>

\* The worker hands its job back to BullMQ in the state it is to have; that
\* fails if the lock is lost.
HandBack ==
  /\ worker.at \in {"completed", "delayed", "failed"}
  /\ worker' = IdleWorker
  /\ queue' = IF worker.locked THEN [queue EXCEPT ![worker.job] = worker.at] ELSE queue
  /\ UNCHANGED <<database, calls, pass, faults>>

\* The worker goes on when its call c returned ...
Returned(c) ==
  worker' = IF ~c.mine THEN worker
            ELSE [worker EXCEPT !.at =
                   CASE c.op = "processing" -> "prompted"
                     [] c.op = "waiting" -> "delayed"
                     [] OTHER -> "completed"]

\* ... or failed.
Threw(c) == worker' = IF c.mine THEN [worker EXCEPT !.at = "failed"] ELSE worker

\* The calls, none of them waited for any more.
Orphans == {[c EXCEPT !.mine = FALSE] : c \in calls}

\* The connection of the worker's call breaks; or fetching the prompt fails.
Drop ==
  /\ Fault("drop")
  /\ worker.at \in {"calling", "prompted"}
  /\ worker' = [worker EXCEPT !.at = "failed"]
  /\ calls' = Orphans
  /\ UNCHANGED <<database, queue, pass>>

WorkerDies ==
  /\ Fault("worker")
  /\ worker.at # "down"
  /\ worker' = [IdleWorker EXCEPT !.at = "down"]
  /\ calls' = Orphans
  /\ UNCHANGED <<database, queue, pass>>

Restart ==
  /\ worker.at = "down"
  /\ worker' = IdleWorker
  /\ UNCHANGED <<database, queue, calls, pass, faults>>

\* The worker is too slow to renew the lock of its job.
LoseLock ==
  /\ Fault("stall")
  /\ worker.locked
  /\ worker' = [worker EXCEPT !.locked = FALSE]
  /\ UNCHANGED <<database, queue, calls, pass>>

-------------------------------------------------------------------------------
(***************************************************************************)
(* BullMQ and Redis.                                                       *)
(***************************************************************************)

\* An active job whose lock expired is queued again, or failed when that
\* happened to it before.
Stalled(j) ==
  /\ queue[j] = "active" /\ ~(worker.job = j /\ worker.locked)
  /\ \E q \in {"waiting", "failed"} : queue' = [queue EXCEPT ![j] = q]
  /\ UNCHANGED <<database, worker, calls, pass, faults>>

\* The delay of a job is over.
Due(j) ==
  /\ queue[j] = "delayed"
  /\ queue' = [queue EXCEPT ![j] = "waiting"]
  /\ UNCHANGED <<database, worker, calls, pass, faults>>

RedisLoss ==
  /\ Fault("redis")
  /\ queue' = [j \in Job |-> "absent"]
  /\ worker' = [worker EXCEPT !.locked = FALSE]
  /\ UNCHANGED <<database, calls, pass>>

-------------------------------------------------------------------------------
(***************************************************************************)
(* The internal API: markAiJobProcessing, markAiJobWaiting, submitAiResult *)
(* (with op in Results, what submitAiResult finds in the output).          *)
(***************************************************************************)

\* The transaction of call c reads the AiJob row ...
Read(c) ==
  /\ c.seen = NoCall
  /\ calls' = (calls \ {c}) \cup
       {[c EXCEPT !.seen = [status |-> status[c.job], retries |-> retries[c.job],
                            attempts |-> NoCall]]}
  /\ UNCHANGED <<database, queue, worker, pass, faults>>

\* ... and a result, in a later SELECT, the AiAttempt rows it includes.
Count(c) ==
  /\ c.op \in Results /\ c.seen # NoCall /\ c.seen.attempts = NoCall
  /\ calls' = (calls \ {c}) \cup {[c EXCEPT !.seen.attempts = attempts[c.job]]}
  /\ UNCHANGED <<database, queue, worker, pass, faults>>

\* Call c has read all it reads.
Loaded(c) == c.seen # NoCall /\ (c.op \in Results => c.seen.attempts # NoCall)

\* The job already has what the call asks for; nothing is written.
Already(c) ==
  \/ c.op = "processing" /\ c.seen.status = "PROCESSING"
  \/ c.op \in Results /\ c.seen.status = "COMPLETED"

\* Mutant of Target: one invalid output too few.
TargetEarly(c) ==
  CASE c.op = "processing" -> "PROCESSING"
    [] c.op = "waiting" -> "WAITING_FOR_INFERENCE"
    [] c.op \in {"valid", "unstorable"} -> "COMPLETED"
    [] c.op = "invalid" ->
         IF c.seen.retries + 2 >= Outputs THEN "FAILED_VALIDATION" ELSE "QUEUED"

\* The new status.  The last invalid output ends the job.
Target(c) ==
  CASE c.op = "processing" -> "PROCESSING"
    [] c.op = "waiting" -> "WAITING_FOR_INFERENCE"
    [] c.op \in {"valid", "unstorable"} -> "COMPLETED"
    [] c.op = "invalid" ->
         IF c.seen.retries + 1 >= Outputs THEN "FAILED_VALIDATION" ELSE "QUEUED"

\* Mutant of Permitted: status reports are not checked.
PermittedUnchecked(c) ==
  c.op \in Results => c.op # "unstorable" /\ attempts[c.job] = c.seen.attempts

\* Mutant of Permitted: attempt numbers need not be unique.
PermittedUnnumbered(c) ==
  IF c.op \in Results THEN c.op # "unstorable"
  ELSE Target(c) \in Transitions(c.seen.status)

\* Status reports are checked against the transition table.  A result is
\* not; but the number of its AiAttempt row and its suggestions' ids must
\* still be free, or the database rejects them and all of it is rolled back.
Permitted(c) ==
  IF c.op \in Results
  THEN c.op # "unstorable" /\ attempts[c.job] = c.seen.attempts
  ELSE Target(c) \in Transitions(c.seen.status)

\* The writes of call c.
Writes(c) ==
  LET j == c.job IN
  /\ status' = [status EXCEPT ![j] = Target(c)]
  /\ attempts' = IF c.op \in Results
                 THEN [attempts EXCEPT ![j] = c.seen.attempts + 1] ELSE attempts
  /\ retries' = IF c.op = "invalid"
                THEN [retries EXCEPT ![j] = c.seen.retries + 1] ELSE retries
  /\ stored' = IF c.op = "valid" THEN [stored EXCEPT ![j] = @ + 1] ELSE stored
  /\ outbox' = IF Target(c) = "QUEUED"
               THEN outbox \cup {<<j, c.seen.attempts + 1>>} ELSE outbox

\* Call c commits and returns.
Accept(c) ==
  /\ Loaded(c)
  /\ IF Already(c) THEN UNCHANGED database ELSE Permitted(c) /\ Writes(c)
  /\ calls' = calls \ {c}
  /\ Returned(c)
  /\ UNCHANGED <<queue, pass, faults>>

\* Call c throws: a forbidden transition, or a number or an id that is taken.
Reject(c) ==
  /\ Loaded(c) /\ ~Already(c) /\ ~Permitted(c)
  /\ calls' = calls \ {c}
  /\ Threw(c)
  /\ UNCHANGED <<database, queue, pass, faults>>

\* A call nobody waits for may never have reached the server.
Vanish(c) ==
  /\ ~c.mine
  /\ calls' = calls \ {c}
  /\ UNCHANGED <<database, queue, worker, pass, faults>>

-------------------------------------------------------------------------------

Init ==
  /\ status = [j \in Job |-> "NONE"]
  /\ retries = [j \in Job |-> 0]
  /\ attempts = [j \in Job |-> 0]
  /\ stored = [j \in Job |-> 0]
  /\ outbox = {}
  /\ queue = [j \in Job |-> "absent"]
  /\ worker = IdleWorker
  /\ calls = {}
  /\ pass = [l \in Passes |-> IdlePass]
  /\ faults = 0

Next ==
  \/ \E j \in Job : CreateNote(j) \/ Take(j) \/ Stalled(j) \/ Due(j)
  \/ \E l \in Passes :
       Start(l) \/ Add(l) \/ GetState(l) \/ Remove(l) \/ AddAgain(l) \/ Retry(l)
         \/ Mark(l) \/ Finish(l)
  \/ (\E output \in Results : Infer(output)) \/ Refused \/ Unavailable \/ HandBack
  \/ \E c \in calls : Read(c) \/ Count(c) \/ Accept(c) \/ Reject(c) \/ Vanish(c)
  \/ Drop \/ WorkerDies \/ Restart \/ LoseLock \/ RedisLoss \/ PlatformDies

Spec == Init /\ [][Next]_vars

\* Timers start the passes again and again and every command is answered.
PlatformFairness ==
  \A l \in Passes :
    /\ WF_vars(Start(l))
    /\ WF_vars(Add(l) \/ GetState(l) \/ Remove(l) \/ AddAgain(l) \/ Retry(l)
                 \/ Mark(l) \/ Finish(l))

\* BullMQ serves its jobs in turn and finds stalled and delayed ones; the
\* server executes the calls it got.
DeliveryFairness ==
  /\ \A j \in Job : SF_vars(Take(j)) /\ WF_vars(Stalled(j)) /\ WF_vars(Due(j))
  /\ WF_vars((\E output \in Results : Infer(output)) \/ Refused \/ HandBack)
  /\ WF_vars(\E c \in calls : Read(c) \/ Count(c) \/ Accept(c) \/ Reject(c))

\* A dead worker is restarted by its supervisor.
FairSpec ==
  Spec /\ PlatformFairness /\ DeliveryFairness /\ WF_vars(Restart)

-------------------------------------------------------------------------------

CallType ==
  [op : {"processing", "waiting"} \cup Results, job : Job, mine : BOOLEAN,
   seen : {NoCall} \cup
          [status : States, retries : Nat, attempts : {NoCall} \cup Nat]]

\* Values are in range; the worker waits for one call, of its own job, and
\* only while it is calling.
TypeOK ==
  /\ status \in [Job -> States \cup {"NONE"}]
  /\ retries \in [Job -> Nat] /\ attempts \in [Job -> Nat] /\ stored \in [Job -> Nat]
  /\ outbox \subseteq Job \X Nat
  /\ queue \in
       [Job -> {"absent", "waiting", "active", "delayed", "completed", "failed"}]
  /\ worker \in [at : {"idle", "calling", "prompted", "completed", "delayed", "failed",
                       "down"},
                 job : Job \cup {NoItem}, locked : BOOLEAN]
  /\ calls \subseteq CallType
  /\ \A c \in calls : c.mine => worker.at = "calling" /\ worker.job = c.job
  /\ worker.at = "calling" <=> \E c \in calls : c.mine
  /\ pass \in [Passes -> [at : {"idle", "next", "added", "remove", "add again",
                               "retry", "mark"},
                         item : (Job \X Nat) \cup {NoItem},
                         todo : SUBSET (Job \X Nat)]]
  /\ faults \in 0 .. MaxFaults

\* Every recorded attempt was counted, as a validation retry or as stored
\* suggestions, as long as the calls of one job follow each other.
EveryAttemptCounted ==
  \A j \in Job : attempts[j] = retries[j] + stored[j]

\* No attempt is counted twice, however calls overlap: submitAiResult computes
\* both counters from what it read, in two SELECTs, and the unique attempt
\* number keeps them from running ahead.  That an attempt is counted at all is
\* not so: a result that commits between the two SELECTs is lost from retries.
NothingCountedTwice ==
  \A j \in Job : retries[j] + stored[j] <= attempts[j]

\* Suggestions are stored at most once for a note ("All handlers are
\* idempotent"), and a job takes Outputs outputs at most, also when a finished
\* or failed job is queued and processed again.
OutputsLimited == \A j \in Job : stored[j] <= 1 /\ attempts[j] <= Outputs

\* A job that failed validation had all its invalid outputs, and one that
\* completed has its suggestions.
SettledForAReason ==
  \A j \in Job :
    /\ status[j] = "FAILED_VALIDATION" => retries[j] >= Outputs
    /\ status[j] = "COMPLETED" => stored[j] >= 1

Settled(j) == status[j] \in {"COMPLETED", "FAILED_VALIDATION"}

\* The status follows the transition table, although submitAiResult never asks
\* it and a status report is checked against what its call read: only an
\* invalid output that is not the last one takes PROCESSING back to QUEUED,
\* and no operation takes a job that has completed or failed up again.
StatusFollowsTable ==
  [][\A j \in Job : status'[j] # status[j] =>
       /\ ~Settled(j)
       /\ \/ status[j] = "NONE" /\ status'[j] = "QUEUED"
          \/ status'[j] \in Transitions(status[j])
          \/ /\ status[j] = "PROCESSING" /\ status'[j] = "QUEUED"
             /\ retries'[j] = retries[j] + 1 /\ retries'[j] < Outputs]_vars

\* The status of a completed job never changes again (COMPLETED: []).
CompletedIsFinal ==
  [][\A j \in Job : status[j] = "COMPLETED" => status'[j] = "COMPLETED"]_vars

\* Limit jobs older than j have failed validation: no reconciliation lists j.
Starved(j) ==
  Cardinality({i \in Job : i < j /\ status[i] = "FAILED_VALIDATION"}) >= Limit

\* LM Studio answers with what can be neither stored nor counted.
Useless == Infer("unstorable") \/ Refused

\* Every note's job ends in stored suggestions or in failed validation, if at
\* some time faults and useless answers stop ("Outbox reconciliation
\* re-enqueues every nonterminal job after Redis recovery").
AnsweredJobsSettle ==
  <>[][~Useless]_vars => \A j \in Job : (status[j] = "QUEUED" ~> Settled(j))
===============================================================================
