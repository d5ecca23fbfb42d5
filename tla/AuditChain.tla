------------------------------ MODULE AuditChain ------------------------------
(***************************************************************************)
(* The tenant's hash-chained audit log (packages/db/src/audit.ts) and the  *)
(* locks of the transactions that append to it.                            *)
(*                                                                         *)
(* Every service transaction first takes the locks of its own business     *)
(* (an advisory lock of finance-service.ts, the rows it updates), then     *)
(* appends one or more audit events, then commits.  appendAuditEvent takes *)
(* the advisory lock (tenant, 0), here ChainLock, before it reads the last *)
(* event it can see, and the lock stays held until the transaction ends.   *)
(*                                                                         *)
(* The hash of an event is collision free, so it is modelled by the event  *)
(* itself: `prev` is the previous event, which the code stores as its      *)
(* hash.  Sequence numbers are those the code computes.                    *)
(***************************************************************************)
EXTENDS Integers, Sequences, FiniteSets

CONSTANTS
  Tx,         \* database connections, each running one transaction at a time
  Lock,       \* business locks: advisory locks and row locks
  ChainLock,  \* the advisory lock of the audit chain
  Flow,       \* the kinds of transaction: locks in order, number of appends
  NoTx,       \* the holder of a free lock
  NoFlow,     \* the flow of an idle connection
  NoEvent,    \* previousHash = NULL
  MaxEvents   \* bound: no transaction begins that could exceed it

ASSUME AuditAssumption ==
  /\ IsFiniteSet(Lock)
  /\ ChainLock \notin Lock
  /\ NoTx \notin Tx
  /\ NoFlow \notin Flow
  /\ Flow \subseteq [locks : Seq(Lock), appends : Nat \ {0}]
  /\ MaxEvents \in Nat

VARIABLES
  chain,    \* committed AuditEvent rows in sequence order
  flow,     \* flow[t]: what connection t is running
  taken,    \* taken[t]: how many of its business locks t has
  pending,  \* pending[t]: events t has inserted and not committed
  holder    \* holder[l]: the transaction that holds lock l

vars == <<chain, flow, taken, pending, holder>>

AllLocks == Lock \cup {ChainLock}

-------------------------------------------------------------------------------

Active(t) == flow[t] # NoFlow

HasBusinessLocks(t) == Active(t) /\ taken[t] = Len(flow[t].locks)

AllAppended(t) == HasBusinessLocks(t) /\ Len(pending[t]) = flow[t].appends

\* The lock t needs for its next step, if it does not have it yet.
Wants(t, l) ==
  /\ Active(t)
  /\ holder[l] # t
  /\ IF HasBusinessLocks(t)
     THEN ~AllAppended(t) /\ l = ChainLock
     ELSE l = flow[t].locks[taken[t] + 1]

\* t waits for a lock that u holds.
WaitsFor(t, u) ==
  u \in Tx /\ \E l \in AllLocks : Wants(t, l) /\ holder[l] = u

\* Transactions that wait for each other in a cycle.
Deadlocked(D) == D # {} /\ \A t \in D : \E u \in D : WaitsFor(t, u)

\* Mutant of Visible: the previous event is read outside the transaction.
VisibleOutside(t) == IF chain = <<>> THEN pending[t] ELSE chain

\* What t reads as the last event: it sees its own inserts.
Visible(t) == chain \o pending[t]

LastOf(s) == s[Len(s)]

NextEvent(t, s) ==
  [seq |-> IF s = <<>> THEN 1 ELSE LastOf(s).seq + 1,
   prev |-> IF s = <<>> THEN NoEvent ELSE LastOf(s),
   by |-> t]

-------------------------------------------------------------------------------

Init ==
  /\ chain = <<>>
  /\ flow = [t \in Tx |-> NoFlow]
  /\ taken = [t \in Tx |-> 0]
  /\ pending = [t \in Tx |-> <<>>]
  /\ holder = [l \in AllLocks |-> NoTx]

Begin(t, f) ==
  /\ ~Active(t)
  /\ Len(chain) + f.appends <= MaxEvents
  /\ flow' = [flow EXCEPT ![t] = f]
  /\ UNCHANGED <<chain, taken, pending, holder>>

\* The next business lock, in the order in which the operation takes them.
\* A transaction that has the lock already passes (the locks are reentrant).
TakeLock(t) ==
  /\ Active(t) /\ ~HasBusinessLocks(t)
  /\ LET l == flow[t].locks[taken[t] + 1] IN
       /\ holder[l] \in {NoTx, t}
       /\ holder' = [holder EXCEPT ![l] = t]
  /\ taken' = [taken EXCEPT ![t] = @ + 1]
  /\ UNCHANGED <<chain, flow, pending>>

\* Mutant of TakeChain: the audit lock is taken before the business locks.
TakeChainFirst(t) ==
  /\ Active(t)
  /\ holder[ChainLock] = NoTx
  /\ holder' = [holder EXCEPT ![ChainLock] = t]
  /\ UNCHANGED <<chain, flow, taken, pending>>

\* The first statement of appendAuditEvent.
TakeChain(t) ==
  /\ Wants(t, ChainLock)
  /\ holder[ChainLock] = NoTx
  /\ holder' = [holder EXCEPT ![ChainLock] = t]
  /\ UNCHANGED <<chain, flow, taken, pending>>

MayAppend(t) ==
  HasBusinessLocks(t) /\ ~AllAppended(t) /\ holder[ChainLock] = t

\* The rest of appendAuditEvent: read the last event, insert the next.
AppendEvent(t) ==
  /\ MayAppend(t)
  /\ pending' = [pending EXCEPT ![t] = Append(@, NextEvent(t, Visible(t)))]
  /\ UNCHANGED <<chain, flow, taken, holder>>

\* Mutant of Ends: an audit lock of the session, which outlives its transaction.
EndsHoldingChain(t) ==
  /\ flow' = [flow EXCEPT ![t] = NoFlow]
  /\ taken' = [taken EXCEPT ![t] = 0]
  /\ pending' = [pending EXCEPT ![t] = <<>>]
  /\ holder' = [l \in AllLocks |->
       IF holder[l] = t /\ l # ChainLock THEN NoTx ELSE holder[l]]

\* The transaction ends and releases its locks.
Ends(t) ==
  /\ flow' = [flow EXCEPT ![t] = NoFlow]
  /\ taken' = [taken EXCEPT ![t] = 0]
  /\ pending' = [pending EXCEPT ![t] = <<>>]
  /\ holder' = [l \in AllLocks |-> IF holder[l] = t THEN NoTx ELSE holder[l]]

\* No committed event has the tenant and sequence of a pending one (the
\* unique index; a transaction that violates it cannot commit).
SequencesFree(t) ==
  \A i \in DOMAIN chain : \A j \in DOMAIN pending[t] :
    chain[i].seq # pending[t][j].seq

Commit(t) ==
  /\ AllAppended(t)
  /\ SequencesFree(t)
  /\ chain' = chain \o pending[t]
  /\ Ends(t)

\* An error, a crash or a timeout: the transaction rolls back.
Rollback(t) ==
  /\ Active(t)
  /\ Ends(t)
  /\ UNCHANGED chain

\* PostgreSQL's deadlock detector rolls back a member of the cycle.
BreakDeadlock(t) ==
  /\ \E D \in SUBSET Tx : t \in D /\ Deadlocked(D)
  /\ Ends(t)
  /\ UNCHANGED chain

Next ==
  \E t \in Tx :
    \/ \E f \in Flow : Begin(t, f)
    \/ TakeLock(t)
    \/ TakeChain(t)
    \/ AppendEvent(t)
    \/ Commit(t)
    \/ Rollback(t)
    \/ BreakDeadlock(t)

\* The database serves lock queues in order, runs every statement it is sent
\* and looks for deadlocks after a timeout.  Nothing is assumed of clients
\* (Begin) and no transaction need fail (Rollback).
Fairness ==
  \A t \in Tx :
    /\ SF_vars(TakeLock(t))
    /\ SF_vars(TakeChain(t))
    /\ WF_vars(AppendEvent(t))
    /\ WF_vars(Commit(t))
    /\ WF_vars(BreakDeadlock(t))

Spec == Init /\ [][Next]_vars

FairSpec == Spec /\ Fairness

-------------------------------------------------------------------------------

IsSequence(s) == s \in Seq({s[i] : i \in 1 .. Len(s)})

\* The log is a sequence, counters and holders are in range, and only an
\* active transaction has events, counts locks or holds any.
TypeOK ==
  /\ IsSequence(chain)
  /\ flow \in [Tx -> Flow \cup {NoFlow}]
  /\ taken \in [Tx -> Nat]
  /\ DOMAIN pending = Tx
  /\ holder \in [AllLocks -> Tx \cup {NoTx}]
  /\ \A t \in Tx :
       /\ IsSequence(pending[t])
       /\ Active(t) => taken[t] <= Len(flow[t].locks)
       /\ ~Active(t) => taken[t] = 0 /\ pending[t] = <<>>
  /\ \A l \in AllLocks : holder[l] \in Tx => Active(holder[l])

\* Sequence numbers count from 1 without gaps and every event carries the
\* hash of the one before it.
Linked(s) ==
  \A i \in DOMAIN s :
    /\ s[i].seq = i
    /\ s[i].prev = IF i = 1 THEN NoEvent ELSE s[i - 1]

\* The committed log is one unbroken chain: concurrent transactions and
\* rollbacks leave no fork and no gap in it.
ChainLinked == Linked(chain)

\* The events a transaction is about to commit continue the committed chain,
\* so the unique index never rejects an audited change ("Serialize the hash
\* chain per tenant so concurrent mutations cannot fork it").
PendingExtendsChain ==
  \A t \in Tx : pending[t] # <<>> => Linked(chain \o pending[t])

\* rank is an order of the locks in which a transaction takes them, but for
\* those it has already.
InOrder(locks, rank) ==
  \A i, j \in DOMAIN locks : i < j /\ rank[locks[j]] <= rank[locks[i]] =>
    \E k \in 1 .. i : locks[k] = locks[j]

Ranks == [Lock -> 1 .. Cardinality(Lock)]

\* Appending audit events adds no deadlock: where transactions wait for each
\* other in a cycle, each of them took several business locks, and there is
\* no order in which all of them did.  Operations on the ledger, periods,
\* reconciliations and payments take one lock at most, and the audit lock
\* last, so nobody ever waits in a cycle for one of them; imports lock
\* organizations in the order of their file.
OnlyCrossedLocksDeadlock ==
  \A D \in SUBSET Tx : Deadlocked(D) =>
    /\ \A t, u \in D : WaitsFor(t, u) => Len(flow[u].locks) > 1
    /\ \A rank \in Ranks : \E t \in D : ~InOrder(flow[t].locks, rank)

\* The next statement of t need not wait, and is not refused.
CanGoOn(t) ==
  \/ /\ Active(t) /\ ~HasBusinessLocks(t)
     /\ holder[flow[t].locks[taken[t] + 1]] \in {NoTx, t}
  \/ Wants(t, ChainLock) /\ holder[ChainLock] = NoTx
  \/ MayAppend(t)
  \/ AllAppended(t) /\ SequencesFree(t)

\* Unless transactions wait for each other in a cycle, one that is in progress
\* can go on: no lock is left behind by a transaction that ended, and the
\* unique index of the log refuses nobody.
NeverStuck ==
  (\E t \in Tx : Active(t)) =>
    (\E t \in Tx : CanGoOn(t)) \/ (\E D \in SUBSET Tx : Deadlocked(D))

\* A transaction that began ends: nobody waits for an audit lock forever.
EveryTransactionEnds == \A t \in Tx : Active(t) ~> ~Active(t)
===============================================================================
