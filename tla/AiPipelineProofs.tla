--------------------------- MODULE AiPipelineProofs ---------------------------
(***************************************************************************)
(* Safety theorems about the AI pipeline, for any number of jobs, passes,  *)
(* faults and outputs.  Part 1 holds whatever goes wrong; part 2 holds as  *)
(* long as no call is abandoned by the worker that made it.                *)
(***************************************************************************)
EXTENDS AiPipeline, FiniteSetTheorems, TLAPS

-------------------------------------------------------------------------------
(***************************************************************************)
(* Part 1: whatever goes wrong.                                            *)
(***************************************************************************)

QueueStates == {"absent", "waiting", "active", "delayed", "completed", "failed"}
PassSteps == {"idle", "next", "added", "remove", "add again", "retry", "mark"}
PassType ==
  [at : PassSteps, item : (Job \X Nat) \cup {NoItem}, todo : SUBSET (Job \X Nat)]
WorkerType ==
  [at : {"idle", "calling", "prompted", "completed", "delayed", "failed", "down"},
   job : Job \cup {NoItem}, locked : BOOLEAN]

\* The rows of PostgreSQL are in range.
DatabaseOK ==
  /\ status \in [Job -> States \cup {"NONE"}]
  /\ retries \in [Job -> Nat] /\ attempts \in [Job -> Nat] /\ stored \in [Job -> Nat]
  /\ outbox \subseteq Job \X Nat

\* The worker waits for one call at most, of the job it works on.
WorkerOK ==
  /\ worker \in WorkerType
  /\ worker.at \notin {"idle", "down"} => worker.job \in Job
  /\ calls \subseteq CallType
  /\ \A c \in calls : c.mine => worker.at = "calling" /\ worker.job = c.job
  /\ worker.at = "calling" <=> \E c \in calls : c.mine
  /\ \A c, d \in calls : c.mine /\ d.mine => c = d

\* What the other parts keep is in range.
RestOK ==
  /\ queue \in [Job -> QueueStates]
  /\ pass \in [Passes -> PassType]
  /\ faults \in 0 .. MaxFaults

\* The retries a call has read leave one of the attempts for it to count: the
\* attempts are read after the retries, and no attempt is ever removed.
ReadsBehind ==
  \A c \in calls : c.seen # NoCall => c.seen.retries + stored[c.job] <= attempts[c.job]

Existing == {j \in Job : status[j] # "NONE"}

\* Events, queued jobs, passes, calls and the worker are about jobs of notes
\* that exist.
JobsExist ==
  /\ \A e \in outbox : JobOf(e) \in Existing
  /\ \A j \in Job : queue[j] # "absent" => j \in Existing
  /\ \A l \in Passes :
       /\ \A e \in pass[l].todo : JobOf(e) \in Existing
       /\ pass[l].at \notin {"idle", "next"} => JobOf(pass[l].item) \in Existing
  /\ \A c \in calls : c.job \in Existing
  /\ worker.at \notin {"idle", "down"} => worker.job \in Existing

PipelineInv ==
  /\ DatabaseOK /\ WorkerOK /\ RestOK /\ JobsExist
  /\ ReadsBehind /\ NothingCountedTwice /\ SettledForAReason

\* A pass that goes on stays well typed.
LEMMA GoesType ==
  ASSUME pass \in [Passes -> PassType], NEW l \in Passes, NEW at \in PassSteps,
         Goes(l, at)
  PROVE  pass' \in [Passes -> PassType]
<1>1. pass[l] \in PassType
  OBVIOUS
<1>2. [at |-> at, item |-> IF at = "next" THEN NoItem ELSE pass[l].item,
       todo |-> pass[l].todo] \in PassType
  BY <1>1 DEF PassType
<1> QED
  BY <1>2 DEF Goes

\* The passes only move jobs in the queue and publish events.
LEMMA PassStepInv ==
  ASSUME PipelineInv, NEW l \in Passes,
         \/ Start(l) \/ Add(l) \/ GetState(l) \/ Remove(l) \/ AddAgain(l)
         \/ Retry(l) \/ Mark(l) \/ Finish(l)
  PROVE  PipelineInv'
<1>1. UNCHANGED <<status, retries, attempts, stored, worker, calls, faults>>
  BY DEF Start, Add, GetState, Remove, AddAgain, Retry, Mark, Finish, database
<1>2. DatabaseOK'
  BY <1>1 DEF PipelineInv, DatabaseOK, Start, Add, GetState, Remove, AddAgain,
     Retry, Mark, Finish, database
<1>3. WorkerOK'
  BY <1>1 DEF PipelineInv, WorkerOK
<1>4. ReadsBehind' /\ NothingCountedTwice' /\ SettledForAReason'
  BY <1>1 DEF PipelineInv, ReadsBehind, NothingCountedTwice, SettledForAReason
<1>5. pass' \in [Passes -> PassType]
  <2>0. pass \in [Passes -> PassType]
    BY DEF PipelineInv, RestOK
  <2>1. CASE Start(l)
    <3>1. Listed(l) \in SUBSET (Job \X Nat)
      <4>1. Oldest \in SUBSET Job
        BY DEF Oldest
      <4> QED
        BY <4>1 DEF Listed, PipelineInv, DatabaseOK
    <3>2. [at |-> "next", item |-> NoItem, todo |-> Listed(l)] \in PassType
      BY <3>1 DEF PassType, PassSteps
    <3> QED
      BY <2>0, <2>1, <3>2 DEF Start
  <2>2. CASE Add(l)
    <3>1. pass[l].todo \in SUBSET (Job \X Nat)
      BY <2>0 DEF PassType
    <3>2. PICK e \in pass[l].todo :
            pass' = [pass EXCEPT ![l] =
              [at |-> "added", item |-> e, todo |-> pass[l].todo \ {e}]]
      BY <2>2 DEF Add
    <3>3. [at |-> "added", item |-> e, todo |-> pass[l].todo \ {e}] \in PassType
      BY <3>1 DEF PassType, PassSteps
    <3> QED
      BY <2>0, <3>2, <3>3
  <2>3. CASE GetState(l) \/ Remove(l) \/ AddAgain(l) \/ Retry(l) \/ Mark(l)
    <3>1. \E at \in PassSteps : Goes(l, at)
      BY <2>3 DEF GetState, Remove, AddAgain, Retry, Mark, PassSteps
    <3> QED
      BY <2>0, <3>1, GoesType
  <2>4. CASE Finish(l)
    <3>1. IdlePass \in PassType
      BY DEF IdlePass, PassType, PassSteps
    <3> QED
      BY <2>0, <2>4, <3>1 DEF Finish
  <2> QED
    BY <2>1, <2>2, <2>3, <2>4
<1>6. queue' \in [Job -> QueueStates]
  <2>1. \A q \in QueueStates : Added(q) \in QueueStates
    BY DEF Added, QueueStates
  <2>2. queue \in [Job -> QueueStates]
    BY DEF PipelineInv, RestOK
  <2>3. CASE queue' = queue
    BY <2>2, <2>3
  <2>4. CASE Add(l) \/ AddAgain(l)
    BY <2>1, <2>2, <2>4 DEF Add, AddAgain
  <2>5. CASE Remove(l) \/ Retry(l)
    BY <2>2, <2>5 DEF Remove, Retry, QueueStates
  <2> QED
    BY <2>3, <2>4, <2>5 DEF Start, GetState, Mark, Finish
<1>7. RestOK'
  BY <1>1, <1>5, <1>6 DEF PipelineInv, RestOK
<1>8. JobsExist'
  <2>0. JobsExist /\ Existing' = Existing
    BY <1>1 DEF PipelineInv, Existing
  <2>1. outbox' \subseteq outbox
    BY DEF Start, Add, GetState, Remove, AddAgain, Retry, Mark, Finish, database
  <2>2. \A j \in Job : queue'[j] # "absent" => j \in Existing
    <3>0. queue \in [Job -> QueueStates]
      BY DEF PipelineInv, RestOK
    <3>1. CASE UNCHANGED queue
      BY <2>0, <3>1 DEF JobsExist
    <3>2. CASE Add(l)
      <4>1. PICK e \in pass[l].todo : queue' = [queue EXCEPT ![JobOf(e)] = Added(@)]
        BY <3>2 DEF Add
      <4> QED
        BY <2>0, <3>0, <4>1 DEF JobsExist
    <3>3. CASE AddAgain(l) \/ Remove(l) \/ Retry(l)
      <4>1. JobOf(pass[l].item) \in Existing
        BY <2>0, <3>3 DEF AddAgain, Remove, Retry, JobsExist
      <4> QED
        BY <2>0, <3>0, <3>3, <4>1 DEF AddAgain, Remove, Retry, JobsExist
    <3> QED
      BY <3>1, <3>2, <3>3 DEF Start, GetState, Mark, Finish
  <2>3. ASSUME NEW k \in Passes
        PROVE  /\ \A e \in pass'[k].todo : JobOf(e) \in Existing
               /\ pass'[k].at \notin {"idle", "next"} =>
                    JobOf(pass'[k].item) \in Existing
    <3>0. pass \in [Passes -> PassType]
      BY DEF PipelineInv, RestOK
    <3>1. CASE Start(l)
      <4>1. \A e \in Listed(l) : JobOf(e) \in Existing
        <5>1. \A j \in Oldest : j \in Existing
          BY DEF Oldest, Existing, Nonterminal
        <5> QED
          BY <2>0, <5>1 DEF Listed, JobsExist, JobOf
      <4> QED
        BY <2>0, <3>0, <3>1, <4>1 DEF Start, JobsExist
    <3>2. CASE Add(l)
      BY <2>0, <3>0, <3>2 DEF Add, JobsExist
    <3>3. CASE GetState(l) \/ Remove(l) \/ AddAgain(l) \/ Retry(l) \/ Mark(l)
      <4>1. JobOf(pass[l].item) \in Existing /\ \E at \in PassSteps : Goes(l, at)
        BY <2>0, <3>3 DEF GetState, Remove, AddAgain, Retry, Mark, PassSteps, JobsExist
      <4> QED
        BY <2>0, <3>0, <4>1 DEF Goes, JobsExist
    <3>4. CASE Finish(l)
      BY <2>0, <3>0, <3>4 DEF Finish, IdlePass, JobsExist
    <3> QED
      BY <3>1, <3>2, <3>3, <3>4
  <2> QED
    BY <1>1, <2>0, <2>1, <2>2, <2>3 DEF JobsExist
<1> QED
  BY <1>2, <1>3, <1>4, <1>7, <1>8 DEF PipelineInv

\* So do BullMQ and the deaths of the platform worker and of Redis.
LEMMA QueueStepInv ==
  ASSUME PipelineInv,
         \/ \E j \in Job : Stalled(j) \/ Due(j)
         \/ RedisLoss \/ PlatformDies \/ LoseLock
  PROVE  PipelineInv'
<1>1. /\ UNCHANGED <<status, retries, attempts, stored, outbox, calls>>
      /\ worker' = worker \/ worker' = [worker EXCEPT !.locked = FALSE]
  BY DEF Stalled, Due, RedisLoss, PlatformDies, LoseLock, database
<1>2. DatabaseOK' /\ ReadsBehind' /\ NothingCountedTwice' /\ SettledForAReason'
  BY <1>1 DEF PipelineInv, DatabaseOK, ReadsBehind, NothingCountedTwice,
     SettledForAReason
<1>3. WorkerOK'
  <2>1. worker' \in WorkerType /\ worker'.at = worker.at /\ worker'.job = worker.job
    BY <1>1 DEF PipelineInv, WorkerOK, WorkerType
  <2> QED
    BY <1>1, <2>1 DEF PipelineInv, WorkerOK
<1>4. queue' \in [Job -> QueueStates] /\ faults' \in 0 .. MaxFaults
  BY PipelineAssumption DEF PipelineInv, RestOK, QueueStates, Stalled, Due, RedisLoss, PlatformDies,
     LoseLock, Fault
<1>5. pass' \in [Passes -> PassType]
  <2>1. IdlePass \in PassType
    BY DEF IdlePass, PassType, PassSteps
  <2> QED
    BY <2>1 DEF PipelineInv, RestOK, Stalled, Due, RedisLoss, PlatformDies, LoseLock
<1>6. JobsExist'
  <2>0. JobsExist /\ Existing' = Existing
    BY <1>1 DEF PipelineInv, Existing
  <2>1. \A j \in Job : queue'[j] # "absent" => queue[j] # "absent"
    BY DEF PipelineInv, RestOK, Stalled, Due, RedisLoss, PlatformDies, LoseLock
  <2>2. pass' = pass \/ pass' = [l \in Passes |-> IdlePass]
    BY DEF Stalled, Due, RedisLoss, PlatformDies, LoseLock
  <2>3. worker'.at = worker.at /\ worker'.job = worker.job
    BY <1>1 DEF PipelineInv, WorkerOK, WorkerType
  <2> QED
    BY <1>1, <2>0, <2>1, <2>2, <2>3 DEF JobsExist, IdlePass
<1> QED
  BY <1>2, <1>3, <1>4, <1>5, <1>6 DEF PipelineInv, RestOK

\* A call that has not read anything yet.
LEMMA CallType0 ==
  ASSUME NEW j \in Job, NEW op \in {"processing", "waiting"} \cup Results
  PROVE  /\ Call(op, j) \in CallType
         /\ Call(op, j).mine /\ Call(op, j).job = j /\ Call(op, j).seen = NoCall
BY DEF Call, CallType

WorkerSteps ==
  {"idle", "calling", "prompted", "completed", "delayed", "failed", "down"}

\* Going on to another step changes nothing else about the worker.
LEMMA WorkerGoes ==
  ASSUME NEW w \in WorkerType, NEW at \in WorkerSteps,
         NEW v, v = [w EXCEPT !.at = at]
  PROVE  v \in WorkerType /\ v.at = at /\ v.job = w.job /\ v.locked = w.locked
BY DEF WorkerType, WorkerSteps

\* The worker makes a call for its job, or takes a job and makes its first one.
LEMMA WorkerCallsInv ==
  ASSUME PipelineInv,
         \/ \E j \in Job : Take(j)
         \/ (\E output \in Results : Infer(output)) \/ Unavailable
  PROVE  PipelineInv'
<1>1. UNCHANGED <<status, retries, attempts, stored, outbox, pass>>
  BY DEF Take, Infer, Unavailable, database
<1>2. PICK j \in Job, op \in {"processing", "waiting"} \cup Results :
        /\ calls' = calls \cup {Call(op, j)}
        /\ worker.at # "calling"
        /\ worker' \in WorkerType /\ worker'.at = "calling" /\ worker'.job = j
        /\ j \in Existing
  <2>1. worker \in WorkerType /\ (worker.at \notin {"idle", "down"} => worker.job \in Job)
    BY DEF PipelineInv, WorkerOK
  <2>2. ASSUME NEW j \in Job, Take(j)
        PROVE  /\ calls' = calls \cup {Call("processing", j)}
               /\ worker.at # "calling"
               /\ worker' \in WorkerType /\ worker'.at = "calling" /\ worker'.job = j
               /\ j \in Existing
    BY <2>2 DEF Take, WorkerType, PipelineInv, JobsExist
  <2>3. ASSUME worker.at = "prompted", worker' = [worker EXCEPT !.at = "calling"]
        PROVE  /\ worker.job \in Job \cap Existing /\ worker.at # "calling"
               /\ worker' \in WorkerType /\ worker'.at = "calling"
               /\ worker'.job = worker.job
    <3>1. "calling" \in WorkerSteps
      BY DEF WorkerSteps
    <3>2. /\ worker' \in WorkerType /\ worker'.at = "calling"
          /\ worker'.job = worker.job
      BY <2>1, <2>3, <3>1, WorkerGoes
    <3> QED
      BY <2>1, <2>3, <3>2 DEF PipelineInv, JobsExist
  <2>4. CASE \E output \in Results : Infer(output)
    BY <2>3, <2>4 DEF Infer
  <2>5. CASE Unavailable
    BY <2>3, <2>5 DEF Unavailable
  <2> QED
    BY <2>2, <2>4, <2>5
<1>3. PICK new : new = Call(op, j)
  OBVIOUS
<1>4. new \in CallType /\ new.mine /\ new.job = j /\ new.seen = NoCall
  BY <1>3, CallType0
<1>5. WorkerOK'
  BY <1>2, <1>3, <1>4 DEF PipelineInv, WorkerOK
<1>6. ReadsBehind'
  BY <1>1, <1>2, <1>3, <1>4 DEF PipelineInv, ReadsBehind
<1>7. RestOK'
  BY <1>1, PipelineAssumption
     DEF PipelineInv, RestOK, QueueStates, Take, Infer, Unavailable, Fault
<1>8. DatabaseOK' /\ NothingCountedTwice' /\ SettledForAReason'
  BY <1>1 DEF PipelineInv, DatabaseOK, NothingCountedTwice, SettledForAReason
<1>9. JobsExist'
  <2>1. Existing' = Existing
    BY <1>1 DEF Existing
  <2>2. \A i \in Job : queue'[i] # "absent" => i \in Existing
    BY DEF Take, Infer, Unavailable, PipelineInv, RestOK, JobsExist
  <2> QED
    BY <1>1, <1>2, <1>3, <1>4, <2>1, <2>2 DEF PipelineInv, JobsExist
<1> QED
  BY <1>5, <1>6, <1>7, <1>8, <1>9 DEF PipelineInv

\* The calls nobody waits for any more are those there were.
LEMMA OrphansAre ==
  ASSUME calls \subseteq CallType, NEW d \in Orphans
  PROVE  /\ d \in CallType /\ ~d.mine
         /\ \E c \in calls : d.job = c.job /\ d.seen = c.seen
<1>1. PICK c \in calls : d = [c EXCEPT !.mine = FALSE]
  BY DEF Orphans
<1> QED
  BY <1>1 DEF CallType

\* The worker stops: it hands its job back, has its output refused, gives a call
\* up, dies or starts again.
LEMMA WorkerStopsInv ==
  ASSUME PipelineInv, HandBack \/ Refused \/ Drop \/ WorkerDies \/ Restart
  PROVE  PipelineInv'
<1>1. UNCHANGED <<status, retries, attempts, stored, outbox, pass>>
  BY DEF HandBack, Refused, Drop, WorkerDies, Restart, database
<1>2. /\ worker' \in WorkerType /\ worker'.at # "calling"
      /\ worker'.at \notin {"idle", "down"} =>
           worker'.job = worker.job /\ worker.at \notin {"idle", "down"}
  <2>1. worker \in WorkerType /\ (worker.at \notin {"idle", "down"} => worker.job \in Job)
    BY DEF PipelineInv, WorkerOK
  <2>2. CASE HandBack \/ Restart
    <3>1. worker' = [at |-> "idle", job |-> NoItem, locked |-> FALSE]
      BY <2>2 DEF HandBack, Restart, IdleWorker
    <3> QED
      BY <3>1 DEF WorkerType
  <2>3. CASE Refused \/ Drop
    <3>1. "failed" \in WorkerSteps
      BY DEF WorkerSteps
    <3>2. worker.job \in Job /\ worker' = [worker EXCEPT !.at = "failed"]
      BY <2>1, <2>3 DEF Refused, Drop
    <3>3. worker' \in WorkerType /\ worker'.at = "failed" /\ worker'.job = worker.job
      BY <2>1, <3>1, <3>2, WorkerGoes
    <3> QED
      BY <2>3, <3>3 DEF Refused, Drop
  <2>4. CASE WorkerDies
    <3>1. worker' = [at |-> "down", job |-> NoItem, locked |-> FALSE]
      BY <2>4 DEF WorkerDies, IdleWorker
    <3> QED
      BY <3>1 DEF WorkerType
  <2> QED
    BY <2>2, <2>3, <2>4
<1>3. \A d \in calls' : /\ d \in CallType /\ ~d.mine
                        /\ \E c \in calls : d.job = c.job /\ d.seen = c.seen
  <2>1. CASE HandBack \/ Refused \/ Restart
    BY <2>1 DEF HandBack, Refused, Restart, PipelineInv, WorkerOK
  <2>2. CASE Drop \/ WorkerDies
    BY <2>2, OrphansAre DEF Drop, WorkerDies, PipelineInv, WorkerOK
  <2> QED
    BY <2>1, <2>2
<1>4. WorkerOK'
  BY <1>2, <1>3 DEF PipelineInv, WorkerOK
<1>5. ReadsBehind'
  BY <1>1, <1>3 DEF PipelineInv, ReadsBehind
<1>6. RestOK'
  BY <1>1, PipelineAssumption
     DEF PipelineInv, RestOK, QueueStates, HandBack, Refused, Drop, WorkerDies,
     Restart, Fault
<1>7. DatabaseOK' /\ NothingCountedTwice' /\ SettledForAReason'
  BY <1>1 DEF PipelineInv, DatabaseOK, NothingCountedTwice, SettledForAReason
<1>8. JobsExist'
  <2>1. Existing' = Existing
    BY <1>1 DEF Existing
  <2>2. \A i \in Job : queue'[i] # "absent" => i \in Existing
    <3>1. CASE HandBack
      <4>1. worker.job \in Existing
        BY <3>1 DEF HandBack, PipelineInv, JobsExist
      <4> QED
        BY <3>1, <4>1 DEF HandBack, PipelineInv, RestOK, JobsExist
    <3>2. CASE ~HandBack
      BY <3>2 DEF Refused, Drop, WorkerDies, Restart, PipelineInv, JobsExist
    <3> QED
      BY <3>1, <3>2
  <2> QED
    BY <1>1, <1>2, <1>3, <2>1, <2>2 DEF PipelineInv, JobsExist
<1> QED
  BY <1>4, <1>5, <1>6, <1>7, <1>8 DEF PipelineInv

-------------------------------------------------------------------------------
\* The note, its job and its outbox event.
LEMMA CreateNoteInv ==
  ASSUME PipelineInv, NEW j \in Job, CreateNote(j)
  PROVE  PipelineInv'
<1>1. DatabaseOK' /\ NothingCountedTwice' /\ SettledForAReason'
  BY DEF PipelineInv, DatabaseOK, NothingCountedTwice, SettledForAReason,
     CreateNote, States
<1>2. WorkerOK' /\ RestOK' /\ ReadsBehind'
  BY DEF PipelineInv, WorkerOK, RestOK, ReadsBehind, CreateNote
<1>3. JobsExist'
  <2>1. Existing' = Existing \cup {j}
    BY DEF Existing, CreateNote, PipelineInv, DatabaseOK
  <2>2. JobOf(<<j, 0>>) = j
    BY DEF JobOf
  <2> QED
    BY <2>1, <2>2 DEF CreateNote, PipelineInv, JobsExist
<1> QED
  BY <1>1, <1>2, <1>3 DEF PipelineInv

\* What a call has read of its job.
SeenType == [status : States, retries : Nat, attempts : {NoCall} \cup Nat]

\* A call that reads becomes a call that knows more.
LEMMA ReadingCallInv ==
  ASSUME PipelineInv, NEW c \in calls, NEW seen \in SeenType, NEW d,
         d = [c EXCEPT !.seen = seen], calls' = (calls \ {c}) \cup {d},
         seen.retries + stored[c.job] <= attempts[c.job],
         UNCHANGED <<database, queue, worker, pass, faults>>
  PROVE  PipelineInv'
<1>1. c \in CallType
  BY DEF PipelineInv, WorkerOK
<1>2. /\ d \in CallType /\ d.op = c.op /\ d.job = c.job /\ d.mine = c.mine
      /\ d.seen = seen
  BY <1>1 DEF CallType, SeenType
<1>3. WorkerOK'
  BY <1>2 DEF PipelineInv, WorkerOK
<1>4. ReadsBehind'
  BY <1>2 DEF PipelineInv, ReadsBehind, database
<1>5. DatabaseOK' /\ RestOK' /\ NothingCountedTwice' /\ SettledForAReason'
  BY DEF PipelineInv, DatabaseOK, RestOK, NothingCountedTwice, SettledForAReason, database
<1>6. JobsExist'
  BY <1>2 DEF PipelineInv, JobsExist, Existing, database
<1> QED
  BY <1>3, <1>4, <1>5, <1>6 DEF PipelineInv

\* A call reads the row of its job.
LEMMA ReadInv ==
  ASSUME PipelineInv, NEW c \in calls, Read(c)
  PROVE  PipelineInv'
<1>1. c \in CallType /\ c.job \in Job
  BY DEF PipelineInv, WorkerOK, CallType
<1>2. PICK seen : seen = [status |-> status[c.job], retries |-> retries[c.job],
                          attempts |-> NoCall]
  OBVIOUS
<1>3. status[c.job] \in States
  BY <1>1 DEF PipelineInv, DatabaseOK, JobsExist, Existing
<1>4. seen \in SeenType /\ seen.retries + stored[c.job] <= attempts[c.job]
  BY <1>1, <1>2, <1>3 DEF PipelineInv, DatabaseOK, NothingCountedTwice, SeenType
<1>5. PICK d : d = [c EXCEPT !.seen = seen]
  OBVIOUS
<1>6. calls' = (calls \ {c}) \cup {d} /\ UNCHANGED <<database, queue, worker, pass, faults>>
  BY <1>2, <1>5 DEF Read
<1> QED
  BY <1>4, <1>5, <1>6, ReadingCallInv

\* A result then reads its attempts.
LEMMA CountInv ==
  ASSUME PipelineInv, NEW c \in calls, Count(c)
  PROVE  PipelineInv'
<1>1. c \in CallType /\ c.job \in Job /\ c.seen # NoCall /\ c.seen \in SeenType
  BY DEF PipelineInv, WorkerOK, CallType, SeenType, Count
<1>2. PICK seen : seen = [c.seen EXCEPT !.attempts = attempts[c.job]]
  OBVIOUS
<1>3. seen \in SeenType /\ seen.retries = c.seen.retries
  BY <1>1, <1>2 DEF PipelineInv, DatabaseOK, SeenType
<1>4. seen.retries + stored[c.job] <= attempts[c.job]
  BY <1>1, <1>3 DEF PipelineInv, ReadsBehind
<1>5. PICK d : d = [c EXCEPT !.seen = seen]
  OBVIOUS
<1>6. calls' = (calls \ {c}) \cup {d} /\ UNCHANGED <<database, queue, worker, pass, faults>>
  BY <1>1, <1>2, <1>5 DEF Count, CallType
<1> QED
  BY <1>3, <1>4, <1>5, <1>6, ReadingCallInv

\* The worker hears how call c ended, if it waits for it.
Ended(c) == Returned(c) \/ Threw(c) \/ (~c.mine /\ UNCHANGED worker)

\* When a call ends the worker goes on if it waited for it.
LEMMA CallEnds ==
  ASSUME PipelineInv, NEW c \in calls, calls' = calls \ {c},
         Ended(c)
  PROVE  /\ WorkerOK'
         /\ worker'.at \notin {"idle", "down"} =>
              worker'.job = worker.job /\ worker.at \notin {"idle", "down"}
<1>1. worker \in WorkerType /\ c \in CallType
  BY DEF PipelineInv, WorkerOK
<1>2. CASE ~c.mine
  <2>1. UNCHANGED worker
    BY <1>2 DEF Ended, Returned, Threw
  <2> QED
    BY <1>2, <2>1 DEF PipelineInv, WorkerOK
<1>3. CASE c.mine
  <2>1. \E at \in {"prompted", "delayed", "completed", "failed"} :
          worker' = [worker EXCEPT !.at = at]
    BY <1>3 DEF Ended, Returned, Threw
  <2>2. PICK at \in {"prompted", "delayed", "completed", "failed"} :
          worker' = [worker EXCEPT !.at = at]
    BY <2>1
  <2>3. at \in WorkerSteps
    BY DEF WorkerSteps
  <2>4. worker' \in WorkerType /\ worker'.at = at /\ worker'.job = worker.job
    BY <1>1, <2>2, <2>3, WorkerGoes
  <2>5. worker.at = "calling" /\ worker.job \in Job
    BY <1>3 DEF PipelineInv, WorkerOK
  <2>6. \A d \in calls' : ~d.mine
    BY <1>3 DEF PipelineInv, WorkerOK
  <2> QED
    BY <2>4, <2>5, <2>6 DEF PipelineInv, WorkerOK
<1> QED
  BY <1>2, <1>3

\* A call that throws, vanishes or finds nothing to do writes nothing.
LEMMA IdleCallInv ==
  ASSUME PipelineInv, NEW c \in calls, calls' = calls \ {c},
         UNCHANGED <<database, queue, pass, faults>>,
         Ended(c)
  PROVE  PipelineInv'
<1>1. /\ WorkerOK'
      /\ worker'.at \notin {"idle", "down"} =>
           worker'.job = worker.job /\ worker.at \notin {"idle", "down"}
  BY CallEnds
<1>2. DatabaseOK' /\ RestOK' /\ NothingCountedTwice' /\ SettledForAReason'
  BY DEF PipelineInv, DatabaseOK, RestOK, NothingCountedTwice,
     SettledForAReason, database
<1>3. ReadsBehind'
  BY DEF PipelineInv, ReadsBehind, database
<1>4. JobsExist'
  BY <1>1 DEF PipelineInv, JobsExist, Existing, database
<1> QED
  BY <1>1, <1>2, <1>3, <1>4 DEF PipelineInv

\* What a call writes: a status report its status, a result its attempt and
\* either a validation retry or the suggestions.
LEMMA WritesAre ==
  ASSUME PipelineInv, NEW c \in calls, Loaded(c), Permitted(c), Writes(c)
  PROVE  /\ c.job \in Job /\ Target(c) \in States
         /\ c.seen.retries \in Nat /\ (c.op \in Results => c.seen.attempts \in Nat)
         /\ status' = [status EXCEPT ![c.job] = Target(c)]
         /\ \A e \in outbox' : e \in outbox \/ e = <<c.job, attempts[c.job] + 1>>
         /\ \/ /\ c.op \in {"processing", "waiting"}
               /\ Target(c) \in {"PROCESSING", "WAITING_FOR_INFERENCE"}
               /\ UNCHANGED <<attempts, retries, stored>>
            \/ /\ c.op = "valid" /\ Target(c) = "COMPLETED"
               /\ c.seen.attempts = attempts[c.job]
               /\ attempts' = [attempts EXCEPT ![c.job] = c.seen.attempts + 1]
               /\ stored' = [stored EXCEPT ![c.job] = stored[c.job] + 1]
               /\ UNCHANGED retries
            \/ /\ c.op = "invalid" /\ Target(c) \in {"FAILED_VALIDATION", "QUEUED"}
               /\ Target(c) = "FAILED_VALIDATION" => c.seen.retries + 1 >= Outputs
               /\ c.seen.attempts = attempts[c.job]
               /\ attempts' = [attempts EXCEPT ![c.job] = c.seen.attempts + 1]
               /\ retries' = [retries EXCEPT ![c.job] = c.seen.retries + 1]
               /\ UNCHANGED stored
<1>1. c \in CallType
  BY DEF PipelineInv, WorkerOK
<1>2. /\ c.op \in {"processing", "waiting", "valid", "invalid"} /\ c.job \in Job
      /\ c.seen \in SeenType /\ (c.op \in Results => c.seen.attempts \in Nat)
  BY <1>1 DEF CallType, SeenType, Loaded, Permitted, Results
<1>3. CASE c.op \in {"processing", "waiting"}
  BY <1>2, <1>3 DEF Target, Writes, States, SeenType, Results
<1>4. CASE c.op = "valid"
  BY <1>2, <1>4 DEF Target, Writes, Permitted, States, SeenType, Results
<1>5. CASE c.op = "invalid"
  BY <1>2, <1>5 DEF Target, Writes, Permitted, States, SeenType, Results
<1> QED
  BY <1>2, <1>3, <1>4, <1>5

\* A call that writes counts its attempt once.
LEMMA WritingCallInv ==
  ASSUME PipelineInv, NEW c \in calls, Loaded(c), calls' = calls \ {c},
         Permitted(c), Writes(c), Ended(c), UNCHANGED <<queue, pass, faults>>
  PROVE  PipelineInv'
<1> DEFINE j == c.job
<1>1. /\ WorkerOK'
      /\ worker'.at \notin {"idle", "down"} =>
           worker'.job = worker.job /\ worker.at \notin {"idle", "down"}
  BY CallEnds
<1>2. PICK t \in States, r \in Nat :
        /\ t = Target(c) /\ r = c.seen.retries
        /\ j \in Job
        /\ status' = [status EXCEPT ![j] = t]
        /\ \A e \in outbox' : e \in outbox \/ e = <<j, attempts[j] + 1>>
        /\ \/ /\ t \in {"PROCESSING", "WAITING_FOR_INFERENCE"}
              /\ UNCHANGED <<attempts, retries, stored>>
           \/ /\ t = "COMPLETED"
              /\ attempts' = [attempts EXCEPT ![j] = attempts[j] + 1]
              /\ stored' = [stored EXCEPT ![j] = stored[j] + 1]
              /\ UNCHANGED retries
           \/ /\ t \in {"FAILED_VALIDATION", "QUEUED"}
              /\ t = "FAILED_VALIDATION" => r + 1 >= Outputs
              /\ attempts' = [attempts EXCEPT ![j] = attempts[j] + 1]
              /\ retries' = [retries EXCEPT ![j] = r + 1]
              /\ UNCHANGED stored
  BY WritesAre
<1>3. r + stored[j] <= attempts[j]
  BY <1>2 DEF PipelineInv, ReadsBehind, Loaded
<1>4. DatabaseOK
  BY DEF PipelineInv
<1>5. DatabaseOK'
  BY <1>2, <1>4 DEF DatabaseOK
<1>6. NothingCountedTwice'
  BY <1>2, <1>3, <1>4 DEF PipelineInv, DatabaseOK, NothingCountedTwice
<1>7. SettledForAReason'
  BY <1>2, <1>3, <1>4, PipelineAssumption
     DEF PipelineInv, DatabaseOK, SettledForAReason
<1>8. ReadsBehind'
  <2>1. \A i \in Job : stored'[i] - stored[i] <= attempts'[i] - attempts[i]
    BY <1>2, <1>4 DEF DatabaseOK
  <2> SUFFICES ASSUME NEW d \in calls, d.seen # NoCall
               PROVE  d.seen.retries + stored'[d.job] <= attempts'[d.job]
    BY DEF ReadsBehind
  <2>2. d.job \in Job /\ d.seen \in SeenType
    BY DEF PipelineInv, WorkerOK, CallType, SeenType
  <2>3. d.seen.retries \in Nat
    BY <2>2 DEF SeenType
  <2>4. d.seen.retries + stored[d.job] <= attempts[d.job]
    BY DEF PipelineInv, ReadsBehind
  <2>5. /\ attempts[d.job] \in Nat /\ attempts'[d.job] \in Nat
        /\ stored[d.job] \in Nat /\ stored'[d.job] \in Nat
    BY <1>4, <1>5, <2>2 DEF DatabaseOK
  <2> QED
    BY <2>1, <2>2, <2>3, <2>4, <2>5
<1>9. JobsExist'
  <2>1. Existing' = Existing /\ j \in Existing
    <3>1. "NONE" \notin States /\ j \in Existing
      BY DEF States, PipelineInv, JobsExist
    <3> QED
      BY <1>2, <1>4, <3>1 DEF Existing, DatabaseOK
  <2>2. JobOf(<<j, attempts[j] + 1>>) = j
    BY DEF JobOf
  <2> QED
    BY <1>1, <1>2, <2>1, <2>2 DEF PipelineInv, JobsExist
<1>10. RestOK'
  BY DEF PipelineInv, RestOK
<1> QED
  BY <1>1, <1>5, <1>6, <1>7, <1>8, <1>9, <1>10 DEF PipelineInv

\* However a call ends, the invariant holds.
LEMMA CallInv ==
  ASSUME PipelineInv, NEW c \in calls, Accept(c) \/ Reject(c) \/ Vanish(c)
  PROVE  PipelineInv'
<1>1. CASE Accept(c) /\ ~Already(c)
  <2>1. /\ Loaded(c) /\ calls' = calls \ {c} /\ Permitted(c) /\ Writes(c)
        /\ Ended(c) /\ UNCHANGED <<queue, pass, faults>>
    BY <1>1 DEF Accept, Ended
  <2> QED
    BY <2>1, WritingCallInv
<1>2. CASE Accept(c) /\ Already(c)
  <2>1. calls' = calls \ {c} /\ UNCHANGED <<database, queue, pass, faults>> /\ Ended(c)
    BY <1>2 DEF Accept, Ended
  <2> QED
    BY <2>1, IdleCallInv
<1>3. CASE Reject(c) \/ Vanish(c)
  <2>1. calls' = calls \ {c} /\ UNCHANGED <<database, queue, pass, faults>> /\ Ended(c)
    BY <1>3 DEF Reject, Vanish, Ended
  <2> QED
    BY <2>1, IdleCallInv
<1> QED
  BY <1>1, <1>2, <1>3

\* Nothing has happened yet.
LEMMA InitInv == ASSUME Init PROVE PipelineInv
<1>1. DatabaseOK /\ JobsExist
  BY DEF Init, DatabaseOK, JobsExist, IdleWorker, IdlePass
<1>2. WorkerOK
  BY DEF Init, WorkerOK, WorkerType, IdleWorker
<1>3. RestOK
  BY PipelineAssumption DEF Init, RestOK, QueueStates, IdlePass, PassType, PassSteps
<1>4. ReadsBehind /\ NothingCountedTwice /\ SettledForAReason
  BY DEF Init, ReadsBehind, NothingCountedTwice, SettledForAReason
<1> QED
  BY <1>1, <1>2, <1>3, <1>4 DEF PipelineInv

\* No step breaks the invariant.
LEMMA NextInv == ASSUME PipelineInv, Next PROVE PipelineInv'
BY CreateNoteInv, PassStepInv, QueueStepInv, WorkerCallsInv, WorkerStopsInv,
   ReadInv, CountInv, CallInv DEF Next

\* The inductive invariant of the pipeline: types, one awaited call at most,
\* jobs of notes that exist, and reads that leave an attempt to count.
THEOREM PipelineInvariant == Spec => []PipelineInv
<1>1. ASSUME PipelineInv, UNCHANGED vars
      PROVE  PipelineInv'
  BY <1>1 DEF vars, PipelineInv, DatabaseOK, WorkerOK, RestOK, JobsExist, Existing,
     ReadsBehind, NothingCountedTwice, SettledForAReason
<1>2. PipelineInv /\ [Next]_vars => PipelineInv'
  BY <1>1, NextInv
<1> QED
  BY <1>2, InitInv, PTL DEF Spec

\* Rows, queue, worker, calls and passes stay well typed, and the worker waits
\* for one call of its own job at most.
THEOREM PipelineTypes == Spec => []TypeOK
<1>1. PipelineInv => TypeOK
  BY DEF PipelineInv, DatabaseOK, WorkerOK, RestOK, WorkerType, PassType,
     PassSteps, QueueStates, TypeOK
<1> QED
  BY <1>1, PipelineInvariant, PTL

\* No attempt is counted twice, whatever calls overlap and fail.
THEOREM NoAttemptCountedTwice == Spec => []NothingCountedTwice
<1>1. PipelineInv => NothingCountedTwice
  BY DEF PipelineInv
<1> QED
  BY <1>1, PipelineInvariant, PTL

\* A job only ever ends for its reason.
THEOREM EndsForAReason == Spec => []SettledForAReason
<1>1. PipelineInv => SettledForAReason
  BY DEF PipelineInv
<1> QED
  BY <1>1, PipelineInvariant, PTL

-------------------------------------------------------------------------------
(***************************************************************************)
(* Part 2: no call is abandoned.  The worker neither dies nor loses the    *)
(* connection of a call; polls, reconciliations, outages of LM Studio,     *)
(* losses of Redis or of a job's lock and restarts of the platform worker  *)
(* may overlap in any way.                                                 *)
(***************************************************************************)

NothingAbandoned == Faults \cap {"drop", "worker"} = {}

\* What call c has read is what the rows of its job still say.
Current(c) ==
  /\ c.seen.status = status[c.job] /\ c.seen.retries = retries[c.job]
  /\ c.seen.attempts \in {NoCall, attempts[c.job]}

\* Every call is awaited and all it has read is current; the job the worker has a
\* prompt of, or reports on, is PROCESSING; every attempt is counted; suggestions
\* are stored by what completes the job, and the last invalid output fails it.
AwaitedInv ==
  /\ PipelineInv
  /\ \A c \in calls : c.mine
  /\ \A c \in calls : c.seen # NoCall => Current(c)
  /\ EveryAttemptCounted
  /\ worker.at = "prompted" => status[worker.job] = "PROCESSING"
  /\ \A c \in calls : c.op # "processing" => status[c.job] = "PROCESSING"
  /\ \A j \in Job : /\ stored[j] = 0 \/ (stored[j] = 1 /\ status[j] = "COMPLETED")
                    /\ retries[j] <= Outputs
                    /\ retries[j] = Outputs => status[j] = "FAILED_VALIDATION"

\* How the status of a job may change in a step.
StatusSteps ==
  \A j \in Job : status'[j] # status[j] =>
    /\ ~Settled(j)
    /\ \/ status[j] = "NONE" /\ status'[j] = "QUEUED"
       \/ status'[j] \in Transitions(status[j])
       \/ /\ status[j] = "PROCESSING" /\ status'[j] = "QUEUED"
          /\ retries'[j] = retries[j] + 1 /\ retries'[j] < Outputs

\* A step that is not a write of a call.
LEMMA OtherStepsAwaited ==
  ASSUME AwaitedInv, UNCHANGED <<status, retries, attempts, stored>>, PipelineInv',
         \A d \in calls' : \/ d \in calls
                           \/ /\ d.mine
                              /\ d.seen = NoCall \/ Current(d)
                              /\ d.op = "processing" \/ status[d.job] = "PROCESSING",
         worker'.at = "prompted" => status[worker'.job] = "PROCESSING"
  PROVE  AwaitedInv' /\ StatusSteps
BY DEF AwaitedInv, StatusSteps, Current, EveryAttemptCounted

\* A call ends with the worker going on: with a prompt only if the job is now
\* PROCESSING.
LEMMA AcceptedPrompts ==
  ASSUME AwaitedInv, NEW c \in calls, Accept(c)
  PROVE  /\ worker'.at = "prompted" => worker'.job = c.job /\ c.op = "processing"
         /\ worker'.at # "calling"
<1>1. worker \in WorkerType /\ c.mine /\ worker.job = c.job
  BY DEF AwaitedInv, PipelineInv, WorkerOK
<1>2. PICK at \in WorkerSteps :
        /\ worker' = [worker EXCEPT !.at = at]
        /\ at = "prompted" => c.op = "processing"
        /\ at # "calling"
  BY <1>1 DEF Accept, Returned, WorkerSteps
<1>3. worker'.at = at /\ worker'.job = worker.job
  BY <1>1, <1>2, WorkerGoes
<1> QED
  BY <1>1, <1>2, <1>3

\* A call writes what the table allows, or counts an output of a job that is
\* PROCESSING.
LEMMA CallAwaited ==
  ASSUME AwaitedInv, NEW c \in calls, Accept(c)
  PROVE  AwaitedInv' /\ StatusSteps
<1> DEFINE j == c.job
<1>1. PipelineInv'
  BY CallInv DEF AwaitedInv
<1>2. \A d \in calls : d = c
  BY DEF AwaitedInv, PipelineInv, WorkerOK
<1>3. calls' = {}
  BY <1>2 DEF Accept
<1>4. worker'.at = "prompted" => worker'.job = j /\ c.op = "processing"
  BY AcceptedPrompts
<1>5. c.seen # NoCall /\ c.seen.status = status[j] /\ c.seen.retries = retries[j]
  BY DEF Accept, Loaded, AwaitedInv, Current
<1>6. c.op # "processing" => status[j] = "PROCESSING"
  BY DEF AwaitedInv
<1>7. CASE Already(c)
  <2>1. UNCHANGED database
    BY <1>7 DEF Accept
  <2>2. c.op = "processing" /\ status[j] = "PROCESSING"
    BY <1>5, <1>6, <1>7 DEF Already, Results
  <2> QED
    BY <1>1, <1>3, <1>4, <2>1, <2>2, OtherStepsAwaited DEF database
<1>8. CASE ~Already(c)
  <2>1. Permitted(c) /\ Writes(c)
    BY <1>8 DEF Accept
  <2>2. PICK t \in States, r \in Nat :
          /\ t = Target(c) /\ r = c.seen.retries
          /\ j \in Job
          /\ status' = [status EXCEPT ![j] = t]
          /\ \/ /\ c.op \in {"processing", "waiting"}
                /\ UNCHANGED <<attempts, retries, stored>>
             \/ /\ c.op = "valid" /\ t = "COMPLETED"
                /\ attempts' = [attempts EXCEPT ![j] = attempts[j] + 1]
                /\ stored' = [stored EXCEPT ![j] = stored[j] + 1]
                /\ UNCHANGED retries
             \/ /\ c.op = "invalid" /\ t \in {"FAILED_VALIDATION", "QUEUED"}
                /\ attempts' = [attempts EXCEPT ![j] = attempts[j] + 1]
                /\ retries' = [retries EXCEPT ![j] = r + 1]
                /\ UNCHANGED stored
    <3>1. Loaded(c)
      BY DEF Accept
    <3> QED
      BY <2>1, <3>1, WritesAre DEF AwaitedInv
  <2>3. /\ stored \in [Job -> Nat] /\ retries \in [Job -> Nat]
        /\ attempts \in [Job -> Nat]
        /\ status \in [Job -> States \cup {"NONE"}]
    BY DEF AwaitedInv, PipelineInv, DatabaseOK
  <2>4. /\ stored[j] = 0 \/ (stored[j] = 1 /\ status[j] = "COMPLETED")
        /\ retries[j] <= Outputs
        /\ retries[j] = Outputs => status[j] = "FAILED_VALIDATION"
    BY <2>2 DEF AwaitedInv
  <2>4a. r = retries[j]
    BY <1>5, <2>2
  <2>4b. EveryAttemptCounted'
    BY <2>2, <2>3, <2>4a DEF AwaitedInv, EveryAttemptCounted
  <2>5. CASE c.op \in {"processing", "waiting"}
    <3>1. UNCHANGED <<retries, stored>>
      BY <2>2, <2>5
    <3>2. t \in Transitions(status[j])
      BY <1>5, <2>1, <2>2, <2>5 DEF Permitted, Results
    <3>3. status[j] \notin {"COMPLETED", "FAILED_VALIDATION"}
      <4>1. Transitions("COMPLETED") = {}
        BY DEF Transitions
      <4>2. t \in {"PROCESSING", "WAITING_FOR_INFERENCE"}
        BY <2>2, <2>5 DEF Target
      <4>3. Transitions("FAILED_VALIDATION") = {"QUEUED", "FAILED_TERMINAL"}
        BY DEF Transitions
      <4> QED
        BY <3>2, <4>1, <4>2, <4>3
    <3>4. c.op = "processing" => t = "PROCESSING"
      BY <2>2 DEF Target
    <3>5. \A i \in Job : /\ stored'[i] = 0 \/ (stored'[i] = 1 /\ status'[i] = "COMPLETED")
                         /\ retries'[i] <= Outputs
                         /\ retries'[i] = Outputs => status'[i] = "FAILED_VALIDATION"
      BY <2>2, <2>3, <2>4, <3>1, <3>3 DEF AwaitedInv
    <3>6. worker'.at = "prompted" => status'[worker'.job] = "PROCESSING"
      BY <1>4, <2>2, <2>3, <3>4
    <3>7. StatusSteps
      BY <2>2, <2>3, <3>2, <3>3 DEF StatusSteps, Settled
    <3> QED
      BY <1>1, <1>3, <2>4b, <3>5, <3>6, <3>7 DEF AwaitedInv
  <2>6. CASE c.op \notin {"processing", "waiting"}
    <3>1. status[j] = "PROCESSING"
      BY <1>6, <2>6
    <3>2. /\ stored[j] = 0 /\ retries[j] < Outputs
          /\ retries[j] \in Nat /\ Outputs \in Nat
      <4>1. retries[j] \in Nat /\ Outputs \in Nat
        BY <2>2, <2>3, PipelineAssumption
      <4>2. stored[j] = 0 /\ retries[j] # Outputs /\ retries[j] <= Outputs
        BY <2>4, <3>1
      <4> QED
        BY <4>1, <4>2
    <3>3. c.op = "invalid" => /\ r = retries[j]
                              /\ t = IF r + 1 >= Outputs THEN "FAILED_VALIDATION" ELSE "QUEUED"
      BY <2>2, <2>4a DEF Target
    <3>4. \A i \in Job : /\ stored'[i] = 0 \/ (stored'[i] = 1 /\ status'[i] = "COMPLETED")
                         /\ retries'[i] <= Outputs
                         /\ retries'[i] = Outputs => status'[i] = "FAILED_VALIDATION"
      <4>1. CASE c.op = "valid"
        BY <2>2, <2>3, <3>1, <3>2, <4>1 DEF AwaitedInv
      <4>2. CASE c.op = "invalid"
        <5>1. retries' = [retries EXCEPT ![j] = retries[j] + 1] /\ UNCHANGED stored
          BY <2>2, <3>3, <4>2
        <5>2. \A i \in Job \ {j} : status'[i] = status[i] /\ retries'[i] = retries[i]
          BY <2>2, <2>3, <5>1
        <5>3. /\ status'[j] = t /\ retries'[j] = retries[j] + 1 /\ stored'[j] = 0
              /\ retries[j] + 1 <= Outputs
          BY <2>2, <2>3, <3>2, <5>1
        <5>4. retries[j] + 1 = Outputs => t = "FAILED_VALIDATION"
          BY <2>2, <2>3, <3>3, <4>2, PipelineAssumption
        <5> QED
          BY <5>1, <5>2, <5>3, <5>4 DEF AwaitedInv
      <4> QED
        BY <2>2, <2>6, <4>1, <4>2
    <3>5. t \in Transitions(status[j])
            \/ (t = "QUEUED" /\ retries'[j] = retries[j] + 1 /\ retries'[j] < Outputs)
      <4>1. {"COMPLETED", "FAILED_VALIDATION"} \subseteq Transitions("PROCESSING")
        BY DEF Transitions
      <4>2. CASE c.op = "valid"
        BY <2>2, <3>1, <4>1, <4>2
      <4>3. CASE c.op = "invalid"
        <5>1. retries'[j] = retries[j] + 1
          BY <2>2, <2>3, <3>3, <4>3
        <5>2. t = "QUEUED" => retries[j] + 1 < Outputs
          BY <2>2, <2>3, <3>3, <4>3, PipelineAssumption
        <5> QED
          BY <2>2, <3>1, <4>1, <4>3, <5>1, <5>2
      <4> QED
        BY <2>2, <2>6, <4>2, <4>3
    <3>6. StatusSteps
      BY <2>2, <2>3, <3>1, <3>5 DEF StatusSteps, Settled
    <3>7. worker'.at # "prompted"
      BY <1>4, <2>6
    <3> QED
      BY <1>1, <1>3, <2>4b, <3>4, <3>6, <3>7 DEF AwaitedInv
  <2> QED
    BY <2>5, <2>6
<1> QED
  BY <1>7, <1>8

\* Every step keeps the invariant and follows the table.
LEMMA NextAwaited ==
  ASSUME NothingAbandoned, AwaitedInv, Next
  PROVE  AwaitedInv' /\ StatusSteps
<1>0. PipelineInv' /\ PipelineInv
  BY NextInv DEF AwaitedInv
<1>1. /\ status \in [Job -> States \cup {"NONE"}]
      /\ worker \in WorkerType /\ calls \subseteq CallType
      /\ worker.at = "prompted" => worker.job \in Job /\ status[worker.job] = "PROCESSING"
  BY DEF AwaitedInv, PipelineInv, DatabaseOK, WorkerOK
<1>2. ASSUME NEW j \in Job, CreateNote(j)
      PROVE  AwaitedInv' /\ StatusSteps
  <2>1. UNCHANGED <<retries, attempts, stored, worker, calls>>
    BY <1>2 DEF CreateNote
  <2>2. \A i \in Job \ {j} : status'[i] = status[i]
    BY <1>1, <1>2 DEF CreateNote
  <2>3. status[j] = "NONE" /\ status'[j] = "QUEUED"
    BY <1>1, <1>2 DEF CreateNote
  <2>4. \A c \in calls : c.job \in Job \ {j}
    BY <2>3 DEF AwaitedInv, PipelineInv, JobsExist, Existing
  <2>5. worker.at = "prompted" => worker.job \in Job \ {j}
    BY <1>1, <2>3
  <2>6. StatusSteps
    BY <2>2, <2>3 DEF StatusSteps, Settled
  <2>7. /\ \A c \in calls : c.seen # NoCall => Current(c)'
        /\ EveryAttemptCounted'
        /\ \A c \in calls : c.op # "processing" => status'[c.job] = "PROCESSING"
        /\ worker.at = "prompted" => status'[worker.job] = "PROCESSING"
    BY <1>1, <2>1, <2>2, <2>4, <2>5 DEF AwaitedInv, Current, EveryAttemptCounted
  <2>8. \A i \in Job : /\ stored[i] = 0 \/ (stored[i] = 1 /\ status'[i] = "COMPLETED")
                       /\ retries[i] <= Outputs
                       /\ retries[i] = Outputs => status'[i] = "FAILED_VALIDATION"
    BY <2>2, <2>3 DEF AwaitedInv
  <2> QED
    BY <1>0, <2>1, <2>6, <2>7, <2>8 DEF AwaitedInv
<1>3. ASSUME NEW c \in calls, Read(c) \/ Count(c)
      PROVE  AwaitedInv' /\ StatusSteps
  <2>1. c \in CallType /\ c.mine /\ (c.op = "processing" \/ status[c.job] = "PROCESSING")
    BY <1>1 DEF AwaitedInv
  <2>2. PICK seen \in SeenType :
          /\ calls' = (calls \ {c}) \cup {[c EXCEPT !.seen = seen]}
          /\ seen.status = status[c.job] /\ seen.retries = retries[c.job]
          /\ seen.attempts \in {NoCall, attempts[c.job]}
    <3>1. CASE Read(c)
      <4>1. [status |-> status[c.job], retries |-> retries[c.job], attempts |-> NoCall]
              \in SeenType
        BY <1>1, <2>1 DEF AwaitedInv, PipelineInv, DatabaseOK, JobsExist, Existing,
           CallType, SeenType
      <4> QED
        BY <3>1, <4>1 DEF Read
    <3>2. CASE Count(c)
      <4>1. c.seen # NoCall /\ c.seen \in SeenType /\ c.job \in Job /\ Current(c)
        BY <2>1, <3>2 DEF Count, CallType, SeenType, AwaitedInv
      <4>2. PICK seen : seen = [c.seen EXCEPT !.attempts = attempts[c.job]]
        OBVIOUS
      <4>3. /\ seen \in SeenType /\ seen.attempts = attempts[c.job]
            /\ seen.status = c.seen.status /\ seen.retries = c.seen.retries
        BY <4>1, <4>2 DEF SeenType, AwaitedInv, PipelineInv, DatabaseOK
      <4>4. [c EXCEPT !.seen.attempts = attempts[c.job]] = [c EXCEPT !.seen = seen]
        BY <2>1, <4>2 DEF CallType
      <4> QED
        BY <3>2, <4>1, <4>3, <4>4 DEF Count, Current
    <3> QED
      BY <1>3, <3>1, <3>2
  <2>3. PICK d : d = [c EXCEPT !.seen = seen]
    OBVIOUS
  <2>4. d.mine /\ d.seen = seen /\ d.job = c.job /\ d.op = c.op
    BY <2>1, <2>3 DEF CallType
  <2>5. /\ calls' = (calls \ {c}) \cup {d}
        /\ UNCHANGED <<status, retries, attempts, stored, worker>>
    BY <1>3, <2>2, <2>3 DEF Read, Count, database
  <2>6. Current(d)
    BY <2>2, <2>4 DEF Current
  <2> QED
    BY <1>0, <1>1, <2>1, <2>4, <2>5, <2>6, OtherStepsAwaited
<1>4. ASSUME \/ \E j \in Job : Take(j)
             \/ (\E output \in Results : Infer(output)) \/ Unavailable
      PROVE  AwaitedInv' /\ StatusSteps
  <2>1. UNCHANGED <<status, retries, attempts, stored>> /\ worker'.at = "calling"
    BY <1>1, <1>4 DEF Take, Infer, Unavailable, database, WorkerType
  <2>2. \E j, op : /\ calls' = calls \cup {Call(op, j)}
                   /\ op = "processing" \/ status[j] = "PROCESSING"
    BY <1>1, <1>4 DEF Take, Infer, Unavailable
  <2>3. \A j, op : /\ Call(op, j).mine /\ Call(op, j).seen = NoCall
                   /\ Call(op, j).op = op /\ Call(op, j).job = j
    BY DEF Call
  <2> QED
    BY <1>0, <2>1, <2>2, <2>3, OtherStepsAwaited
<1>5. ASSUME \/ \E j \in Job : Stalled(j) \/ Due(j)
             \/ \E l \in Passes :
                  \/ Start(l) \/ Add(l) \/ GetState(l) \/ Remove(l)
                  \/ AddAgain(l) \/ Retry(l) \/ Mark(l) \/ Finish(l)
             \/ LoseLock \/ RedisLoss \/ PlatformDies
      PROVE  AwaitedInv' /\ StatusSteps
  <2>1. /\ UNCHANGED <<status, retries, attempts, stored, calls>>
        /\ worker' = worker \/ worker' = [worker EXCEPT !.locked = FALSE]
    BY <1>5 DEF Stalled, Due, Start, Add, GetState, Remove, AddAgain, Retry, Mark,
       Finish, LoseLock, RedisLoss, PlatformDies, database
  <2>2. worker'.at = worker.at /\ worker'.job = worker.job
    BY <1>1, <2>1 DEF WorkerType
  <2> QED
    BY <1>0, <1>1, <2>1, <2>2, OtherStepsAwaited
<1>6. ASSUME \/ HandBack \/ Refused \/ Restart
             \/ \E c \in calls : Reject(c) \/ Vanish(c)
      PROVE  AwaitedInv' /\ StatusSteps
  <2>1. UNCHANGED <<status, retries, attempts, stored>> /\ calls' \subseteq calls
    BY <1>6 DEF HandBack, Refused, Restart, Reject, Vanish, database
  <2>2. worker'.at = "prompted" => worker' = worker
    BY <1>1, <1>6 DEF HandBack, Refused, Restart, Reject, Vanish, IdleWorker, Threw, WorkerType
  <2> QED
    BY <1>0, <1>1, <2>1, <2>2, OtherStepsAwaited
<1>7. ~Drop /\ ~WorkerDies
  BY DEF NothingAbandoned, Drop, WorkerDies, Fault
<1> QED
  BY <1>2, <1>3, <1>4, <1>5, <1>6, <1>7, CallAwaited DEF Next

\* Unless the worker abandons a call, every call is alone and up to date, and
\* the worker only works on a job that is PROCESSING.
THEOREM AwaitedInvariant == ASSUME NothingAbandoned PROVE Spec => []AwaitedInv
<1>1. Init => AwaitedInv
  BY InitInv, PipelineAssumption DEF Init, AwaitedInv, IdleWorker, EveryAttemptCounted
<1>2. ASSUME AwaitedInv, UNCHANGED vars
      PROVE  AwaitedInv'
  <2>1. PipelineInv'
    BY <1>2 DEF AwaitedInv, vars, PipelineInv, DatabaseOK, WorkerOK, RestOK, JobsExist,
       Existing, ReadsBehind, NothingCountedTwice, SettledForAReason
  <2> QED
    BY <1>2, <2>1 DEF AwaitedInv, vars, Current, EveryAttemptCounted
<1>3. AwaitedInv /\ [Next]_vars => AwaitedInv'
  BY <1>2, NextAwaited
<1> QED
  BY <1>1, <1>3, PTL DEF Spec

\* Every recorded attempt is counted, unless the worker abandons a call: what
\* submitAiResult computes from two SELECTs is then never stale.
THEOREM AttemptsAddUp == ASSUME NothingAbandoned PROVE Spec => []EveryAttemptCounted
<1>1. AwaitedInv => EveryAttemptCounted
  BY DEF AwaitedInv
<1> QED
  BY <1>1, AwaitedInvariant, PTL

\* Suggestions are stored at most once for a note, and a job takes no more
\* outputs than allowed, however often it is queued again, unless the worker
\* abandons a call.
THEOREM LimitedUnlessAbandoned ==
  ASSUME NothingAbandoned PROVE Spec => []OutputsLimited
<1>1. AwaitedInv => OutputsLimited
  <2> SUFFICES ASSUME AwaitedInv, NEW j \in Job
               PROVE  stored[j] <= 1 /\ attempts[j] <= Outputs
    BY DEF OutputsLimited
  <2>1. /\ retries[j] \in Nat /\ stored[j] \in Nat /\ Outputs \in Nat
        /\ attempts[j] = retries[j] + stored[j]
    BY PipelineAssumption
       DEF AwaitedInv, PipelineInv, DatabaseOK, EveryAttemptCounted
  <2>2. stored[j] = 0 \/ (stored[j] = 1 /\ retries[j] # Outputs)
    BY DEF AwaitedInv
  <2>3. retries[j] <= Outputs
    BY DEF AwaitedInv
  <2> QED
    BY <2>1, <2>2, <2>3
<1> QED
  BY <1>1, AwaitedInvariant, PTL

\* The status follows the transition table unless the worker abandons a call,
\* although results are never checked against it.
THEOREM FollowsTableUnlessAbandoned ==
  ASSUME NothingAbandoned PROVE Spec => StatusFollowsTable
<1>1. AwaitedInv /\ [Next]_vars => [StatusSteps]_vars
  BY NextAwaited
<1> QED
  BY <1>1, AwaitedInvariant, PTL DEF Spec, StatusFollowsTable, StatusSteps

\* A completed job stays completed, unless the worker abandons a call: what
\* makes a late status report overwrite it is its broken connection alone.
THEOREM FinalUnlessAbandoned == ASSUME NothingAbandoned PROVE Spec => CompletedIsFinal
<1> DEFINE Stays == \A j \in Job : status[j] = "COMPLETED" => status'[j] = "COMPLETED"
<1>1. ASSUME StatusSteps PROVE Stays
  BY <1>1 DEF StatusSteps, Settled
<1>2. AwaitedInv /\ [Next]_vars => [Stays]_vars
  BY <1>1, NextAwaited
<1> QED
  BY <1>2, AwaitedInvariant, PTL DEF Spec, CompletedIsFinal

\* What reconciliation cannot reach, it never reaches: once Limit older jobs
\* have failed validation they stay at the head of the list for good, and no
\* reconciliation lists job j again (the finding of run ai_starvation).
THEOREM FailedJobsStarve ==
  ASSUME NothingAbandoned, NEW j \in Job
  PROVE  Spec => [](Starved(j) => [](j \notin Oldest))
<1> DEFINE Failed == {i \in Job : i < j /\ status[i] = "FAILED_VALIDATION"}
           Ahead == {i \in Job : i < j /\ status[i] \in Nonterminal}
           Older == {i \in Job : i < j}
<1>1. IsFiniteSet(Older)
  <2>1. Older \subseteq 0 .. j /\ j \in Int
    <3>1. j \in Nat /\ \A i \in Older : i \in Nat /\ i < j
      BY PipelineAssumption
    <3> HIDE DEF Older
    <3>2. \A i \in Older : i \in 0 .. j
      BY <3>1
    <3> QED
      BY <3>1, <3>2
  <2>2. IsFiniteSet(0 .. j)
    BY <2>1, FS_Interval
  <2> QED
    BY <2>1, <2>2, FS_Subset
<1>2. \A S \in SUBSET Older, T \in SUBSET Older : S \subseteq T =>
        /\ Cardinality(S) \in Nat /\ Cardinality(T) \in Nat
        /\ Cardinality(S) <= Cardinality(T)
  <2> HIDE DEF Older
  <2> QED
    BY <1>1, FS_Subset, FS_CardinalityType
<1>3. Starved(j) => j \notin Oldest
  <2>1. Failed \subseteq Ahead /\ Failed \in SUBSET Older /\ Ahead \in SUBSET Older
    BY DEF Nonterminal
  <2>2. Starved(j) <=> Cardinality(Failed) >= Limit
    BY DEF Starved
  <2>3. j \in Oldest => Cardinality(Ahead) < Limit
    <3>1. {i \in {i \in Job : status[i] \in Nonterminal} : i < j} = Ahead
      OBVIOUS
    <3> QED
      BY <3>1 DEF Oldest
  <2> HIDE DEF Failed, Ahead, Older
  <2>4. /\ Cardinality(Failed) \in Nat /\ Cardinality(Ahead) \in Nat
        /\ Cardinality(Failed) <= Cardinality(Ahead)
    BY <1>2, <2>1
  <2>5. Limit \in Nat
    BY PipelineAssumption
  <2> QED
    BY <2>2, <2>3, <2>4, <2>5
<1>4. ASSUME Starved(j), StatusSteps \/ UNCHANGED vars
      PROVE  Starved(j)'
  <2>1. Failed \subseteq Failed' /\ Failed \in SUBSET Older /\ Failed' \in SUBSET Older
    BY <1>4 DEF StatusSteps, Settled, vars
  <2>2. Cardinality(Failed) >= Limit
    BY <1>4 DEF Starved
  <2>3. Starved(j)' <=> Cardinality(Failed') >= Limit
    BY DEF Starved
  <2> HIDE DEF Failed, Older
  <2>4. /\ Cardinality(Failed) \in Nat /\ Cardinality(Failed') \in Nat
        /\ Cardinality(Failed) <= Cardinality(Failed')
    BY <1>2, <2>1
  <2>5. Limit \in Nat
    BY PipelineAssumption
  <2> QED
    BY <2>2, <2>3, <2>4, <2>5
<1>5. AwaitedInv /\ [Next]_vars /\ Starved(j) => Starved(j)'
  BY <1>4, NextAwaited
<1> QED
  BY <1>3, <1>5, AwaitedInvariant, PTL DEF Spec

===============================================================================
