----------------------------- MODULE TrustLedger ------------------------------
(***************************************************************************)
(* The ledger operations as they run: each inside a PostgreSQL transaction *)
(* at READ COMMITTED (withTenant), several at a time.  A transaction reads *)
(* the committed tables when it checks and writes them when it commits, so *)
(* what it read may be stale by then unless a lock prevents it.  The code  *)
(* takes transaction-scoped advisory locks for that purpose:               *)
(*   "ledger"   pg_advisory_xact_lock(hash(tenant), 2)                     *)
(*   "periods"  pg_advisory_xact_lock(hash(tenant), 1)                     *)
(* A lock is released when its transaction ends.                           *)
(*                                                                         *)
(* A transaction may fail at any step: a check that does not hold throws,  *)
(* the connection or the process dies, the interactive transaction times   *)
(* out.  All of these roll back, which is the one action Fail.             *)
(***************************************************************************)
EXTENDS LedgerBook

CONSTANTS
  Proc,       \* transactions in flight
  NoProc,     \* an advisory lock nobody holds
  NoRequest,  \* the request of an idle connection
  NoAnswer    \* nothing answered yet

ASSUME LedgerAssumption ==
  /\ NoProc \notin Proc
  /\ NoRequest \notin Request
  /\ NoAnswer \notin [req : Request, ref : Nat]

VARIABLES
  pc,      \* pc[p]: how far transaction p has come
  req,     \* req[p]: the request p serves
  holder,  \* holder[l]: the transaction that holds advisory lock l
  answer   \* answer[p]: the last response p returned to its client

txVars == <<pc, req, holder, answer>>
vars == <<entries, status, locks, recs, idem, pc, req, holder, answer>>

LockNames == {"ledger", "periods"}

\* Mutant of LockOf: closing a period takes the lock of period creation.
LockOfClosing(r) == IF r.op \in {"create", "close"} THEN "periods" ELSE "ledger"

\* Mutant of LockOf: a reversal takes the lock of period creation.
LockOfReversing(r) == IF r.op \in {"create", "reverse"} THEN "periods" ELSE "ledger"

LockOf(r) == IF r.op = "create" THEN "periods" ELSE "ledger"

-------------------------------------------------------------------------------

Moves(p, from, to) == pc[p] = from /\ pc' = [pc EXCEPT ![p] = to]

\* Mutant of Ends: the finished request is kept.
EndsKeepingRequest(p) ==
  /\ pc' = [pc EXCEPT ![p] = "idle"]
  /\ holder' = [l \in LockNames |-> IF holder[l] = p THEN NoProc ELSE holder[l]]
  /\ UNCHANGED req

\* The transaction of p ends: its locks are released.
Ends(p) ==
  /\ pc' = [pc EXCEPT ![p] = "idle"]
  /\ req' = [req EXCEPT ![p] = NoRequest]
  /\ holder' = [l \in LockNames |-> IF holder[l] = p THEN NoProc ELSE holder[l]]

\* p answers its request with the entry that idempotency row points at.
Responds(p, row) ==
  answer' = [answer EXCEPT ![p] = [req |-> req[p], ref |-> row.ref]]

\* Every operation but "create" locks before its idempotency lookup.
Begin(p) ==
  \E r \in Request :
    /\ Moves(p, "idle", IF r.op = "create" THEN "begun" ELSE "waiting")
    /\ req' = [req EXCEPT ![p] = r]
    /\ UNCHANGED <<bookVars, holder, answer>>

\* createAccountingPeriod looks its key up first and then waits for the lock.
LookUp(p) ==
  /\ Moves(p, "begun", "waiting")
  /\ ~Recorded(req[p])
  /\ UNCHANGED <<bookVars, req, holder, answer>>

\* Mutant of TakeLock: the advisory lock is not waited for.
TakeLockUnchecked(p) ==
  /\ Moves(p, "waiting", "locked")
  /\ holder' = [holder EXCEPT ![LockOf(req[p])] = p]
  /\ UNCHANGED <<bookVars, req, answer>>

TakeLock(p) ==
  /\ Moves(p, "waiting", "locked")
  /\ holder[LockOf(req[p])] = NoProc
  /\ holder' = [holder EXCEPT ![LockOf(req[p])] = p]
  /\ UNCHANGED <<bookVars, req, answer>>

\* The point at which an operation looks its idempotency key up.
LookupPoint(r) == IF r.op = "create" THEN "begun" ELSE "locked"

\* Mutant of Replay: the request hashes are not compared.
ReplayAnyRequest(p) ==
  /\ req[p] # NoRequest
  /\ pc[p] = LookupPoint(req[p])
  /\ \E row \in idem :
       /\ row.req.op = req[p].op /\ row.req.key = req[p].key
       /\ Responds(p, row)
  /\ Ends(p)
  /\ UNCHANGED bookVars

\* A recorded key answers with the stored result, if the request is the same
\* (findIdempotentRecord compares the request hashes and throws otherwise).
Replay(p) ==
  /\ req[p] # NoRequest
  /\ pc[p] = LookupPoint(req[p])
  /\ \E row \in idem : row.req = req[p] /\ Responds(p, row)
  /\ Ends(p)
  /\ UNCHANGED bookVars

\* The reads and assertions of the operation, on the committed tables.  They
\* are one step: all tables they read are written under the same lock, but
\* for the row of a period that is being created, which no operation reads
\* more than once.
Check(p) ==
  /\ Moves(p, "locked", "checked")
  /\ req[p].op = "create" \/ ~Recorded(req[p])
  /\ Checks(req[p])
  /\ UNCHANGED <<bookVars, req, holder, answer>>

\* The inserts and updates become visible, together, when p commits.
Commit(p) ==
  /\ pc[p] = "checked"
  /\ Constraints(req[p])
  /\ Effect(req[p])
  /\ \E row \in idem' \ idem : Responds(p, row)
  /\ Ends(p)

Fail(p) ==
  /\ pc[p] # "idle"
  /\ Ends(p)
  /\ UNCHANGED <<bookVars, answer>>

-------------------------------------------------------------------------------

Init ==
  /\ BookInit
  /\ pc = [p \in Proc |-> "idle"]
  /\ req = [p \in Proc |-> NoRequest]
  /\ holder = [l \in LockNames |-> NoProc]
  /\ answer = [p \in Proc |-> NoAnswer]

Next ==
  \E p \in Proc :
    \/ Begin(p)
    \/ LookUp(p)
    \/ TakeLock(p)
    \/ Replay(p)
    \/ Check(p)
    \/ Commit(p)
    \/ Fail(p)

Spec == Init /\ [][Next]_vars

-------------------------------------------------------------------------------

\* The tables and the transactions are well typed; exactly the idle
\* connections serve no request.
TypeOK ==
  /\ BookTypeOK
  /\ pc \in [Proc -> {"idle", "begun", "waiting", "locked", "checked"}]
  /\ req \in [Proc -> Request \cup {NoRequest}]
  /\ \A p \in Proc : pc[p] = "idle" <=> req[p] = NoRequest
  /\ holder \in [LockNames -> Proc \cup {NoProc}]
  /\ answer \in [Proc -> [req : Request, ref : Nat] \cup {NoAnswer}]

\* The effect of a request is in the book, the one its answer points at.
Fulfilled(ans) ==
  LET r == ans.req IN
  \/ /\ r.op = "post"
     /\ ans.ref \in DOMAIN entries
     /\ entries[ans.ref] =
          [key |-> r.key, at |-> r.at, lines |-> r.lines, reverses |-> 0]
  \/ /\ r.op = "reverse"
     /\ ans.ref \in DOMAIN entries
     /\ entries[ans.ref].at = r.at
     /\ entries[ans.ref].reverses = r.source
  \/ r.op = "create" /\ status[r.period] # "ABSENT"
  \/ r.op = "close" /\ status[r.period] = "CLOSED"
  \/ r.op = "lockAccount" /\ <<r.period, r.account>> \in locks
  \/ /\ r.op = "reconcile"
     /\ [account |-> r.account, end |-> r.end, bank |-> r.bank] \in recs

\* A client that got an answer got the answer to its own request, also when
\* the key was used before or the same request is retried concurrently.
AnswersFulfilled ==
  \A p \in Proc : answer[p] # NoAnswer => Fulfilled(answer[p])

===============================================================================
