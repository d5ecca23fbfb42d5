-------------------------- MODULE TrustLedgerProofs ---------------------------
(***************************************************************************)
(* Theorems about the trust ledger, for any set of accounts, periods,      *)
(* requests and concurrent transactions.                                   *)
(*                                                                         *)
(* Part 1 proves properties of the abstract book, whose operations are     *)
(* atomic.  Part 2 proves that the interleaved transactions implement the  *)
(* book, because the checks a transaction made still hold when it commits. *)
(* The properties of part 1 then hold of the transactions as well.         *)
(* Part 3 is about the money in the book, sums over accounts and over all  *)
(* the entries ever posted, and about answers; it goes the same way.       *)
(***************************************************************************)
EXTENDS TrustLedger, FiniteSums, TLAPS

-------------------------------------------------------------------------------
(***************************************************************************)
(* Part 1: the book.                                                       *)
(***************************************************************************)

\* The parts of the assumption that the proofs use.
LEMMA Amounts == Cents \subseteq Int /\ \A c \in Cents : -c \in Cents
BY BookAssumption

\* Every request of the instance is one the operations of the book accept.
LEMMA Requests == Request \subseteq RequestType
BY BookAssumption

\* Negating the lines of an entry gives lines again.
LEMMA MirrorType ==
  ASSUME NEW lines \in Lines
  PROVE  Mirror(lines) \in Lines
<1>1. PICK S \in SUBSET Account : lines \in [S -> Cents]
  BY DEF Lines
<1>2. Mirror(lines) \in [S -> Cents]
  BY <1>1, Amounts DEF Mirror
<1> QED
  BY <1>1, <1>2 DEF Lines

\* The net posting to any account is an integer.
LEMMA NetType ==
  ASSUME NEW lines \in Lines, NEW a \in Account
  PROVE  Net(lines, a) \in Int
<1>1. PICK S \in SUBSET Account : lines \in [S -> Cents]
  BY DEF Lines
<1>2. a \in S => lines[a] \in Int
  BY <1>1, Amounts
<1>3. DOMAIN lines = S
  BY <1>1
<1> QED
  BY <1>2, <1>3 DEF Net

\* An inserted entry keeps the tables well typed.
LEMMA InsertTypeOK ==
  ASSUME BookTypeOK,
         NEW r \in Request, r.key \in Key, r.at \in Day,
         NEW lines \in Lines, NEW reverses \in Nat,
         Insert(r, lines, reverses)
  PROVE  BookTypeOK'
<1>1. entries' \in Seq(EntryType)
  BY DEF BookTypeOK, Insert, EntryType
<1>2. idem' \subseteq [req : Request, ref : Nat]
  BY DEF BookTypeOK, Insert, Record
<1> QED
  BY <1>1, <1>2 DEF BookTypeOK, Insert

\* Every operation keeps the tables well typed.
LEMMA OperateTypeOK ==
  ASSUME BookTypeOK, NEW r \in Request, Operate(r)
  PROVE  BookTypeOK'
<1>1. r \in RequestType
  BY Requests
<1>2. CASE Post(r)
  <2>1. r \in PostRequest
    BY <1>1, <1>2 DEF Post, RequestType, PostRequest, ReverseRequest,
       PeriodRequest, AccountLockRequest, ReconcileRequest
  <2> QED
    BY <1>2, <2>1, InsertTypeOK DEF Post, PostRequest
<1>3. CASE Reverse(r)
  <2>1. r \in ReverseRequest
    BY <1>1, <1>3 DEF Reverse, RequestType, PostRequest, ReverseRequest,
       PeriodRequest, AccountLockRequest, ReconcileRequest
  <2>2. r.source \in DOMAIN entries
    BY <1>3 DEF Operate, Checks, MayReverse, Reverse
  <2>3. entries[r.source].lines \in Lines
    <3>1. entries[r.source] \in EntryType
      BY <2>2 DEF BookTypeOK
    <3> QED
      BY <3>1 DEF EntryType
  <2> QED
    BY <1>3, <2>1, <2>3, MirrorType, InsertTypeOK DEF Reverse, ReverseRequest
<1>4. CASE Create(r) \/ Close(r)
  <2>1. r \in PeriodRequest
    BY <1>1, <1>4 DEF Create, Close, RequestType, PostRequest, ReverseRequest,
       PeriodRequest, AccountLockRequest, ReconcileRequest
  <2> QED
    BY <1>4, <2>1 DEF Create, Close, Record, BookTypeOK, PeriodRequest
<1>5. CASE LockAccount(r)
  <2>1. r \in AccountLockRequest
    BY <1>1, <1>5 DEF LockAccount, RequestType, PostRequest, ReverseRequest,
       PeriodRequest, AccountLockRequest, ReconcileRequest
  <2> QED
    BY <1>5, <2>1 DEF LockAccount, Record, BookTypeOK, AccountLockRequest
<1>6. CASE Reconcile(r)
  <2>1. r \in ReconcileRequest
    BY <1>1, <1>6 DEF Reconcile, RequestType, PostRequest, ReverseRequest,
       PeriodRequest, AccountLockRequest, ReconcileRequest
  <2> QED
    BY <1>6, <2>1 DEF Reconcile, Record, BookTypeOK, ReconcileRequest
<1> QED
  BY <1>2, <1>3, <1>4, <1>5, <1>6 DEF Operate, Effect

\* A step that leaves the tables alone keeps them well typed.
LEMMA StutterTypeOK ==
  ASSUME BookTypeOK, UNCHANGED bookVars
  PROVE  BookTypeOK'
BY DEF BookTypeOK, bookVars

\* The empty book is well typed.
LEMMA InitTypeOK ==
  ASSUME BookInit
  PROVE  BookTypeOK
BY DEF BookInit, BookTypeOK

\* The tables of the book are always well typed.
THEOREM BookTypeCorrect == BookSpec => []BookTypeOK
<1>1. BookTypeOK /\ [BookNext]_bookVars => BookTypeOK'
  BY OperateTypeOK, StutterTypeOK DEF BookNext
<1> QED
  BY <1>1, InitTypeOK, PTL DEF BookSpec

\* No operation makes two periods overlap: only Create adds one, after looking
\* for an overlap.
LEMMA OperateDisjoint ==
  ASSUME BookTypeOK, PeriodsDisjoint, NEW r \in Request, Operate(r)
  PROVE  PeriodsDisjoint'
<1>1. r \in RequestType
  BY Requests
<1>2. CASE Create(r)
  <2>1. r.period \in Interval
    BY <1>1, <1>2 DEF Create, RequestType, PostRequest, ReverseRequest,
       PeriodRequest, AccountLockRequest, ReconcileRequest
  <2>2. MayCreate(r)
    BY <1>2 DEF Create, Operate, Checks
  <2>3. \A i \in Interval : i[1] \in Int /\ i[2] \in Int
    BY BookAssumption
  <2>4. \A i \in Interval : i # r.period => status'[i] = status[i]
    BY <1>2, <2>1 DEF Create, BookTypeOK
  <2> QED
    BY <2>1, <2>2, <2>3, <2>4 DEF MayCreate, PeriodsDisjoint
<1>3. CASE Close(r)
  <2>1. status[r.period] = "OPEN"
    BY <1>3 DEF Close, Operate, Checks, MayClose
  <2>2. \A i \in Interval : status'[i] # "ABSENT" => status[i] # "ABSENT"
    BY <1>3, <2>1 DEF Close, BookTypeOK
  <2> QED
    BY <2>2 DEF PeriodsDisjoint
<1>4. CASE Post(r) \/ Reverse(r) \/ LockAccount(r) \/ Reconcile(r)
  BY <1>4 DEF Post, Reverse, Insert, LockAccount, Reconcile, PeriodsDisjoint
<1> QED
  BY <1>2, <1>3, <1>4 DEF Operate, Effect

\* Accounting periods never overlap.
THEOREM BookDisjoint == BookSpec => []PeriodsDisjoint
<1> DEFINE Inv == BookTypeOK /\ PeriodsDisjoint
<1>1. BookInit => Inv
  BY InitTypeOK DEF BookInit, PeriodsDisjoint
<1>2. Inv /\ [BookNext]_bookVars => Inv'
  <2>1. ASSUME Inv, UNCHANGED bookVars
        PROVE  Inv'
    BY <2>1, StutterTypeOK DEF PeriodsDisjoint, bookVars
  <2> QED
    BY <2>1, OperateTypeOK, OperateDisjoint DEF BookNext
<1> QED
  BY <1>1, <1>2, PTL DEF BookSpec

\* An insertion that passed the period check adds nothing to a frozen period.
LEMMA InsertFrozen ==
  ASSUME BookTypeOK, NEW r, NEW lines \in Lines, NEW reverses,
         ~PeriodBlocks(DOMAIN lines, r.at), Insert(r, lines, reverses)
  PROVE  FrozenStaysFrozen
<1> SUFFICES ASSUME NEW lock \in locks,
                    NEW A, A = IF lock[2] = Everything THEN Account ELSE {lock[2]}
             PROVE  EntriesIn(entries', lock[1], A) = EntriesIn(entries, lock[1], A)
  BY DEF FrozenStaysFrozen
<1> DEFINE new == [key |-> r.key, at |-> r.at, lines |-> lines, reverses |-> reverses]
<1>1. entries' = Append(entries, new)
  BY DEF Insert
<1>2. entries \in Seq(EntryType)
  BY DEF BookTypeOK
<1>3. /\ DOMAIN entries' = DOMAIN entries \cup {Len(entries) + 1}
      /\ \A k \in DOMAIN entries : entries'[k] = entries[k]
      /\ entries'[Len(entries) + 1] = new
      /\ Len(entries) + 1 \notin DOMAIN entries
  <2> HIDE DEF new
  <2> QED
    BY <1>1, <1>2
<1>4. ~(Covers(lock[1], r.at) /\ DOMAIN lines \cap A # {})
  BY DEF PeriodBlocks
<1>5. new.at = r.at /\ new.lines = lines
  OBVIOUS
<1> HIDE DEF new
<1> QED
  BY <1>3, <1>4, <1>5 DEF EntriesIn

\* No operation adds an entry to a locked account of a period: an entry is added
\* only at a date and on accounts that no lock covers.
LEMMA OperateFrozen ==
  ASSUME BookTypeOK, NEW r \in Request, Operate(r)
  PROVE  FrozenStaysFrozen
<1>1. r \in RequestType
  BY Requests
<1>2. CASE Post(r)
  <2>1. r \in PostRequest
    BY <1>1, <1>2 DEF Post, RequestType, PostRequest, ReverseRequest,
       PeriodRequest, AccountLockRequest, ReconcileRequest
  <2>2. ~PeriodBlocks(DOMAIN r.lines, r.at)
    BY <1>2 DEF Post, Operate, Checks, MayPost, MayInsert
  <2> QED
    BY <1>2, <2>1, <2>2, InsertFrozen DEF Post, PostRequest
<1>3. CASE Reverse(r)
  <2>1. MayReverse(r)
    BY <1>3 DEF Reverse, Operate, Checks
  <2>2. entries[r.source] \in EntryType
    BY <2>1 DEF MayReverse, BookTypeOK
  <2>3. Mirror(entries[r.source].lines) \in Lines
    BY <2>2, MirrorType DEF EntryType
  <2>4. ~PeriodBlocks(DOMAIN Mirror(entries[r.source].lines), r.at)
    BY <2>1 DEF MayReverse, MayInsert
  <2> QED
    BY <1>3, <2>3, <2>4, InsertFrozen DEF Reverse
<1>4. CASE Create(r) \/ Close(r) \/ LockAccount(r) \/ Reconcile(r)
  BY <1>4 DEF Create, Close, LockAccount, Reconcile, FrozenStaysFrozen
<1> QED
  BY <1>2, <1>3, <1>4 DEF Operate, Effect

\* Nothing is ever added to a closed period or, for an account, to a period
\* it is locked in.
THEOREM BookFrozen == BookSpec => PeriodsStayFrozen
<1>1. BookTypeOK /\ [BookNext]_bookVars => [FrozenStaysFrozen]_bookVars
  BY OperateFrozen DEF BookNext
<1> QED
  BY <1>1, BookTypeCorrect, PTL DEF BookSpec, PeriodsStayFrozen

-------------------------------------------------------------------------------
(***************************************************************************)
(* Part 2: the transactions implement the book.                            *)
(***************************************************************************)

\* Whoever checks or has checked holds the lock of its operation.
LockHeld ==
  \A p \in Proc : pc[p] \in {"locked", "checked"} => holder[LockOf(req[p])] = p

\* What a transaction checked is still true.
ChecksHold == \A p \in Proc : pc[p] = "checked" => Checks(req[p])

LedgerInv == TypeOK /\ LockHeld /\ ChecksHold

\* An operation under one lock does not invalidate the checks of an operation
\* under the other: creating a period neither closes nor locks one, and no
\* ledger operation creates a period.
LEMMA ChecksStable ==
  ASSUME BookTypeOK, NEW r \in Request, NEW s \in Request,
         LockOf(r) # LockOf(s), Checks(r), Operate(s)
  PROVE  Checks(r)'
<1>0. r \in RequestType /\ s \in RequestType
  BY Requests
<1>1. CASE r.op = "create"
  <2>1. s.op # "create"
    BY <1>1 DEF LockOf
  <2>2. \A i \in Interval : status'[i] # "ABSENT" => status[i] # "ABSENT"
    <3>1. CASE Close(s)
      BY <3>1 DEF Close, Operate, Checks, MayClose, BookTypeOK
    <3>2. CASE ~Close(s)
      BY <2>1, <3>2 DEF Operate, Effect, Post, Reverse, Insert, Create,
         LockAccount, Reconcile
    <3> QED
      BY <3>1, <3>2
  <2> QED
    BY <1>1, <2>2 DEF Checks, MayCreate
<1>2. CASE r.op # "create"
  <2>1. s.op = "create" /\ Create(s)
    BY <1>2 DEF LockOf, Operate, Effect, Post, Reverse, Create, Close,
       LockAccount, Reconcile
  <2>2. status[s.period] = "ABSENT"
    BY <2>1 DEF Operate, Constraints
  <2>3. \A i \in Interval :
          /\ status[i] = "CLOSED" <=> status'[i] = "CLOSED"
          /\ status[i] = "OPEN" => status'[i] = "OPEN"
    BY <2>1, <2>2 DEF Create, BookTypeOK
  <2>4. UNCHANGED <<entries, locks, recs>>
    BY <2>1 DEF Create
  <2>5. CASE r.op = "post"
    BY <2>3, <2>4, <2>5 DEF Checks, MayPost, MayInsert, EntryKeyUnused,
       ReconciliationBlocks, PeriodBlocks, StaysNonnegative, Balance
  <2>6. CASE r.op = "reverse"
    BY <2>3, <2>4, <2>6 DEF Checks, MayReverse, MayInsert, EntryKeyUnused,
       ReconciliationBlocks, PeriodBlocks, StaysNonnegative, Balance
  <2>7. CASE r.op \in {"close", "lockAccount"}
    <3>1. r.period \in Interval
      BY <1>0, <2>7 DEF RequestType, PostRequest, ReverseRequest,
         PeriodRequest, AccountLockRequest, ReconcileRequest
    <3> QED
      BY <2>3, <2>7, <3>1 DEF Checks, MayClose, MayLockAccount
  <2>8. CASE r.op = "reconcile"
    BY <2>4, <2>8 DEF Checks, MayReconcile, BookBalance, ClientTotal
  <2> QED
    BY <1>2, <2>5, <2>6, <2>7, <2>8 DEF Checks
<1> QED
  BY <1>1, <1>2

\* Nor does a step that leaves the tables alone.
LEMMA ChecksUnchanged ==
  ASSUME UNCHANGED bookVars, NEW r, Checks(r)
  PROVE  Checks(r)'
BY DEF bookVars, Checks, MayPost, MayReverse, MayInsert, MayCreate, MayClose,
   MayLockAccount, MayReconcile, EntryKeyUnused, ReconciliationBlocks,
   PeriodBlocks, StaysNonnegative, Balance, BookBalance, ClientTotal

\* An active transaction serves one of the offered requests.
LEMMA ActiveRequest ==
  ASSUME TypeOK, NEW p \in Proc, pc[p] # "idle"
  PROVE  req[p] \in Request
BY DEF TypeOK

\* A commit performs an atomic operation of the book.
LEMMA CommitOperates ==
  ASSUME LedgerInv, NEW p \in Proc, Commit(p)
  PROVE  req[p] \in Request /\ Operate(req[p])
BY ActiveRequest DEF LedgerInv, ChecksHold, Commit, Operate

\* Every step of a call keeps the variables of the ledger well typed.
LEMMA StepTypeOK ==
  ASSUME LedgerInv, NEW p \in Proc,
         \/ Begin(p) \/ LookUp(p) \/ TakeLock(p) \/ Replay(p)
         \/ Check(p) \/ Commit(p) \/ Fail(p)
  PROVE  TypeOK'
<1>1. BookTypeOK'
  <2>1. CASE Commit(p)
    BY <2>1, CommitOperates, OperateTypeOK DEF LedgerInv, TypeOK
  <2>2. CASE UNCHANGED bookVars
    BY <2>2, StutterTypeOK DEF LedgerInv, TypeOK
  <2> QED
    BY <2>1, <2>2 DEF Begin, LookUp, TakeLock, Replay, Check, Fail
<1>2. CASE Begin(p)
  BY <1>1, <1>2, LedgerAssumption DEF LedgerInv, TypeOK, Begin, Moves
<1>3. CASE LookUp(p) \/ Check(p)
  BY <1>1, <1>3 DEF LedgerInv, TypeOK, LookUp, Check, Moves
<1>4. CASE TakeLock(p)
  BY <1>1, <1>4 DEF LedgerInv, TypeOK, TakeLock, Moves
<1>5. CASE Replay(p) \/ Commit(p)
  <2>1. idem' \subseteq [req : Request, ref : Nat] /\ idem \subseteq [req : Request, ref : Nat]
    BY <1>1 DEF LedgerInv, TypeOK, BookTypeOK
  <2>2. PICK row \in idem \cup idem' : Responds(p, row)
    BY <1>5 DEF Replay, Commit
  <2>3. req[p] \in Request
    BY <1>5, ActiveRequest DEF LedgerInv, Replay, Commit, LookupPoint
  <2>4. answer' \in [Proc -> [req : Request, ref : Nat] \cup {NoAnswer}]
    BY <2>1, <2>2, <2>3 DEF Responds, LedgerInv, TypeOK
  <2>5. Ends(p)
    BY <1>5 DEF Replay, Commit
  <2> QED
    BY <1>1, <2>4, <2>5 DEF LedgerInv, TypeOK, Ends
<1>6. CASE Fail(p)
  BY <1>1, <1>6 DEF LedgerInv, TypeOK, Fail, Ends
<1> QED
  BY <1>2, <1>3, <1>4, <1>5, <1>6

\* After every step of a call, a call past TakeLock is the holder of its lock.
LEMMA StepLockHeld ==
  ASSUME LedgerInv, NEW p \in Proc,
         \/ Begin(p) \/ LookUp(p) \/ TakeLock(p) \/ Replay(p)
         \/ Check(p) \/ Commit(p) \/ Fail(p)
  PROVE  LockHeld'
<1>0. NoProc \notin Proc
  BY LedgerAssumption
<1>1. CASE Begin(p) \/ LookUp(p) \/ Check(p)
  BY <1>1 DEF LedgerInv, TypeOK, LockHeld, Begin, LookUp, Check, Moves
<1>2. CASE TakeLock(p)
  <2>1. LockOf(req[p]) \in LockNames
    BY DEF LockOf, LockNames
  <2> QED
    BY <1>0, <1>2, <2>1 DEF LedgerInv, TypeOK, LockHeld, TakeLock, Moves
<1>3. CASE Replay(p) \/ Commit(p) \/ Fail(p)
  <2>1. Ends(p)
    BY <1>3 DEF Replay, Commit, Fail
  <2>2. \A q \in Proc : LockOf(req[q]) \in LockNames
    BY DEF LockOf, LockNames
  <2> QED
    BY <2>1, <2>2 DEF LedgerInv, TypeOK, LockHeld, Ends
<1> QED
  BY <1>1, <1>2, <1>3

\* What a call has checked still holds after any step of any call: only an
\* operation under the other lock can commit meanwhile.
LEMMA StepChecksHold ==
  ASSUME LedgerInv, NEW p \in Proc,
         \/ Begin(p) \/ LookUp(p) \/ TakeLock(p) \/ Replay(p)
         \/ Check(p) \/ Commit(p) \/ Fail(p)
  PROVE  ChecksHold'
<1> SUFFICES ASSUME NEW q \in Proc, pc'[q] = "checked"
             PROVE  Checks(req[q])'
  BY DEF ChecksHold
<1>1. CASE Commit(p)
  <2>1. q # p /\ pc[q] = "checked" /\ req'[q] = req[q]
    BY <1>1 DEF Commit, Ends, LedgerInv, TypeOK
  <2>2. LockOf(req[q]) # LockOf(req[p])
    BY <1>1, <2>1 DEF LedgerInv, LockHeld, Commit
  <2>3. Checks(req[q])
    BY <2>1 DEF LedgerInv, ChecksHold
  <2>4. req[p] \in Request /\ req[q] \in Request /\ Operate(req[p])
    BY <1>1, <2>1, CommitOperates, ActiveRequest DEF LedgerInv
  <2>5. ASSUME NEW r, r = req[q]
        PROVE  Checks(r)'
    BY <2>2, <2>3, <2>4, <2>5, ChecksStable DEF LedgerInv, TypeOK
  <2> QED
    BY <2>1, <2>5
<1>2. CASE ~Commit(p)
  <2>1. UNCHANGED bookVars
    BY <1>2 DEF Begin, LookUp, TakeLock, Replay, Check, Fail
  <2>2. req'[q] = req[q]
    BY <1>2 DEF LedgerInv, TypeOK, Begin, LookUp, TakeLock, Replay, Check,
       Fail, Moves, Ends
  <2>3. Checks(req[q])
    BY <1>2 DEF LedgerInv, ChecksHold, TypeOK, Begin, LookUp, TakeLock, Replay,
       Check, Fail, Moves, Ends
  <2>4. ASSUME NEW r, r = req[q]
        PROVE  Checks(r)'
    BY <2>1, <2>3, <2>4, ChecksUnchanged
  <2> QED
    BY <2>2, <2>4
<1> QED
  BY <1>1, <1>2

\* The inductive invariant of the ledger: the types, the lock held by every call
\* past TakeLock, and the checks of such a call still true of the book.
THEOREM LedgerInvariant == Spec => []LedgerInv
<1>1. Init => LedgerInv
  BY InitTypeOK DEF Init, LedgerInv, TypeOK, LockHeld, ChecksHold
<1>2. LedgerInv /\ [Next]_vars => LedgerInv'
  <2>1. ASSUME LedgerInv, UNCHANGED vars
        PROVE  LedgerInv'
    <3>1. UNCHANGED bookVars /\ UNCHANGED txVars
      BY <2>1 DEF vars, bookVars, txVars
    <3>2. TypeOK' /\ LockHeld'
      BY <2>1, <3>1, StutterTypeOK DEF LedgerInv, TypeOK, LockHeld, txVars
    <3>3. ChecksHold'
      BY <2>1, <3>1, ChecksUnchanged DEF LedgerInv, ChecksHold, txVars
    <3> QED
      BY <3>2, <3>3 DEF LedgerInv
  <2> QED
    BY <2>1, StepTypeOK, StepLockHeld, StepChecksHold DEF Next, LedgerInv
<1> QED
  BY <1>1, <1>2, PTL DEF Spec

\* The interleaved transactions implement the book: whatever the order of
\* their steps, the committed tables change as if each operation had run
\* alone ("must observe one serial order per tenant").
THEOREM SerialOrder == Spec => BookSpec
<1>1. Init => BookInit
  BY DEF Init
<1>2. LedgerInv /\ [Next]_vars => [BookNext]_bookVars
  <2>1. ASSUME LedgerInv, NEW p \in Proc, Commit(p)
        PROVE  BookNext
    BY <2>1, CommitOperates DEF BookNext
  <2>2. ASSUME NEW p \in Proc,
               \/ Begin(p) \/ LookUp(p) \/ TakeLock(p) \/ Replay(p)
               \/ Check(p) \/ Fail(p)
        PROVE  UNCHANGED bookVars
    BY <2>2 DEF Begin, LookUp, TakeLock, Replay, Check, Fail
  <2> QED
    BY <2>1, <2>2 DEF Next, vars, bookVars
<1> QED
  BY <1>1, <1>2, LedgerInvariant, PTL DEF Spec, BookSpec

\* The type invariant of the transactions.
THEOREM TypeCorrect == Spec => []TypeOK
<1>1. LedgerInv => TypeOK
  BY DEF LedgerInv
<1> QED
  BY <1>1, LedgerInvariant, PTL

\* Concurrent period creations never overlap.
THEOREM PeriodsNeverOverlap == Spec => []PeriodsDisjoint
BY SerialOrder, BookDisjoint, PTL

\* No concurrent posting slips into a closed or locked period.
THEOREM ClosedStaysClosed == Spec => PeriodsStayFrozen
BY SerialOrder, BookFrozen, PTL

-------------------------------------------------------------------------------
(***************************************************************************)
(* Part 3: the money in the book, and answers.  Sums of the book first.    *)
(***************************************************************************)

\* The sums the book takes are the sums of FiniteSums.
LEMMA SumOfIsSum ==
  ASSUME NEW f, NEW S, IsFiniteSet(S)
  PROVE  SumOf(f, S) = Sum(f, S)
<1> DEFINE Fold(g, s) ==
      IF s = {} THEN 0
      ELSE f[CHOOSE y \in s : TRUE] + g[s \ {CHOOSE y \in s : TRUE}]
<1>1. PICK h : IsSum(h, f, S)
  BY SumExists
<1>2. \A g : \A s \in SUBSET S : Fold(g, s) = Recur(g, f, s)
  BY ChosenIn DEF Recur, Chosen
<1>3. \A g : g = [s \in SUBSET S |-> Fold(g, s)] <=> IsSum(g, f, S)
  BY <1>2 DEF IsSum
<1> HIDE DEF Fold
<1>4. \E g : g = [s \in SUBSET S |-> Fold(g, s)]
  <2>1. h = [s \in SUBSET S |-> Fold(h, s)]
    BY <1>1, <1>3
  <2> QED BY <2>1
<1>5. IsSum(CHOOSE g : g = [s \in SUBSET S |-> Fold(g, s)], f, S)
  BY <1>3, <1>4
<1>6. SumOf(f, S) = (CHOOSE g : g = [s \in SUBSET S |-> Fold(g, s)])[S]
  BY DEF SumOf, MapThenSumSet, MapThenFoldSet, Fold
<1> QED
  BY <1>5, <1>6, SumIs

\* The sum over one account is what is posted to it.
LEMMA SumSingle ==
  ASSUME NEW a, NEW w, w[a] \in Int
  PROVE  Sum(w, {a}) = w[a]
<1>1. Sum(w, {} \cup {a}) = Sum(w, {}) + w[a]
  BY SumInsert, FS_EmptySet
<1>2. {} \cup {a} = {a}
  OBVIOUS
<1> QED
  BY <1>1, <1>2, SumEmpty

\* The net credit of some lines to the accounts in A is an integer.
LEMMA NetSumType ==
  ASSUME NEW lines \in Lines, NEW A \in SUBSET Account
  PROVE  SumOf([a \in A |-> Net(lines, a)], A) \in Int
<1> DEFINE w == [a \in A |-> Net(lines, a)]
<1>1. IsFiniteSet(A)
  BY BookAssumption, FS_Subset
<1>2. \A a \in A : w[a] \in Int
  BY NetType
<1> HIDE DEF w
<1>3. SumOf(w, A) = Sum(w, A) /\ Sum(w, A) \in Int
  BY <1>1, <1>2, SumOfIsSum, SumType
<1> QED
  BY <1>3 DEF w

\* A new entry adds its lines to what is posted by the entries it joins.
LEMMA PostedByGrows ==
  ASSUME NEW es \in Seq(EntryType), NEW new \in EntryType,
         NEW A \in SUBSET Account, NEW S \in SUBSET (DOMAIN es)
  PROVE  LET more == Append(es, new) IN
         /\ PostedBy(es, A, S) \in Int
         /\ PostedBy(more, A, S) = PostedBy(es, A, S)
         /\ PostedBy(more, A, S \cup {Len(es) + 1}) =
              PostedBy(es, A, S) + SumOf([a \in A |-> Net(new.lines, a)], A)
<1> DEFINE n == Len(es) + 1
           more == Append(es, new)
           In(e) == SumOf([a \in A |-> Net(e.lines, a)], A)
           v == [i \in S |-> In(es[i])]
           u == [i \in S |-> In(more[i])]
           w == [i \in S \cup {n} |-> In(more[i])]
<1>1. /\ n \notin DOMAIN es
      /\ \A i \in DOMAIN es : more[i] = es[i]
      /\ more[n] = new
  OBVIOUS
<1>2. \A e \in EntryType : In(e) \in Int
  BY NetSumType DEF EntryType
<1>3. IsFiniteSet(S)
  <2>1. IsFiniteSet(1 .. Len(es)) /\ DOMAIN es = 1 .. Len(es)
    BY FS_Interval
  <2> QED
    BY <2>1, FS_Subset
<1> HIDE DEF In, n, more
<1>4. IsFiniteSet(S \cup {n}) /\ n \notin S
  BY <1>1, <1>3, FS_AddElement
<1>5. /\ \A i \in S : v[i] = w[i] /\ u[i] = v[i] /\ w[i] \in Int
      /\ w[n] = In(new) /\ w[n] \in Int
  BY <1>1, <1>2
<1>6. /\ PostedBy(es, A, S) = Sum(v, S) /\ PostedBy(more, A, S) = Sum(u, S)
      /\ PostedBy(more, A, S \cup {n}) = Sum(w, S \cup {n})
  <2>1. /\ PostedBy(es, A, S) = SumOf(v, S) /\ PostedBy(more, A, S) = SumOf(u, S)
        /\ PostedBy(more, A, S \cup {n}) = SumOf(w, S \cup {n})
    BY DEF PostedBy, In
  <2> HIDE DEF v, u, w
  <2> QED
    BY <1>3, <1>4, <2>1, SumOfIsSum
<1> HIDE DEF v, u, w
<1>7. Sum(v, S) = Sum(w, S) /\ Sum(u, S) = Sum(v, S) /\ Sum(w, S) \in Int
  BY <1>3, <1>5, SumExt, SumType
<1>8. Sum(w, S \cup {n}) = Sum(w, S) + w[n]
  BY <1>3, <1>4, <1>5, SumInsert
<1> QED
  BY <1>5, <1>6, <1>7, <1>8 DEF In, more, n

\* An entry adds its lines to what is posted up to a day, if it is dated by then.
LEMMA PostedGrows ==
  ASSUME NEW es \in Seq(EntryType), NEW new \in EntryType,
         NEW A \in SUBSET Account, NEW end
  PROVE  LET net == SumOf([a \in A |-> Net(new.lines, a)], A) IN
         /\ Posted(es, A, end) \in Int
         /\ Posted(Append(es, new), A, end) =
              Posted(es, A, end) + IF new.at <= end THEN net ELSE 0
<1> DEFINE n == Len(es) + 1
           more == Append(es, new)
           old == {i \in DOMAIN es : es[i].at <= end}
           now == {i \in DOMAIN more : more[i].at <= end}
           net == SumOf([a \in A |-> Net(new.lines, a)], A)
<1>1. /\ DOMAIN more = DOMAIN es \cup {n} /\ n \notin DOMAIN es
      /\ \A i \in DOMAIN es : more[i] = es[i]
      /\ more[n] = new
  OBVIOUS
<1>2. Posted(es, A, end) = PostedBy(es, A, old) /\ Posted(more, A, end) = PostedBy(more, A, now)
  BY DEF Posted
<1>3. old \in SUBSET (DOMAIN es) /\ now = IF new.at <= end THEN old \cup {n} ELSE old
  BY <1>1
<1> HIDE DEF old, now, net
<1>4. /\ PostedBy(es, A, old) \in Int
      /\ PostedBy(more, A, old) = PostedBy(es, A, old)
      /\ PostedBy(more, A, old \cup {n}) = PostedBy(es, A, old) + net
  BY <1>3, PostedByGrows DEF net
<1> QED
  BY <1>2, <1>3, <1>4 DEF net

\* Nothing is posted by no entries.
LEMMA EmptyPosted == ASSUME NEW A, NEW end PROVE Posted(<<>>, A, end) = 0
<1> DEFINE In(i) == SumOf([a \in A |-> Net(<<>>[i].lines, a)], A)
           w == [i \in {} |-> In(i)]
<1>1. {i \in DOMAIN <<>> : <<>>[i].at <= end} = {}
  OBVIOUS
<1>2. Posted(<<>>, A, end) = SumOf(w, {})
  BY <1>1 DEF Posted, PostedBy
<1> HIDE DEF w
<1> QED
  BY <1>2, SumOfIsSum, SumEmpty, FS_EmptySet

\* An account nothing is posted to is empty.
LEMMA EmptyBalance == ASSUME NEW a PROVE PostedBy(<<>>, {a}, DOMAIN <<>>) = 0
<1> DEFINE w == [i \in {} |-> SumOf([b \in {a} |-> Net(<<>>[i].lines, b)], {a})]
<1>1. PostedBy(<<>>, {a}, DOMAIN <<>>) = SumOf(w, {})
  BY DEF PostedBy
<1> HIDE DEF w
<1> QED
  BY <1>1, SumOfIsSum, SumEmpty, FS_EmptySet

\* What is posted to one account is its net posting.
LEMMA NetSingle ==
  ASSUME NEW lines \in Lines, NEW a \in Account
  PROVE  SumOf([b \in {a} |-> Net(lines, b)], {a}) = Net(lines, a)
<1>0. PICK w : w = [b \in {a} |-> Net(lines, b)]
  OBVIOUS
<1>1. w[a] = Net(lines, a) /\ w[a] \in Int
  BY <1>0, NetType
<1>2. SumOf(w, {a}) = w[a]
  <2>1. IsFiniteSet({a})
    BY FS_Singleton
  <2>2. SumOf(w, {a}) = Sum(w, {a})
    BY <2>1, SumOfIsSum
  <2> QED
    BY <1>1, <2>2, SumSingle
<1>3. SumOf(w, {a}) = Net(lines, a)
  BY <1>1, <1>2
<1> QED
  BY <1>0, <1>3

\* What is posted is an integer.
LEMMA PostedType ==
  ASSUME NEW es \in Seq(EntryType), NEW A \in SUBSET Account, NEW end
  PROVE  Posted(es, A, end) \in Int
<1>1. CASE EntryType = {}
  <2>1. es = <<>>
    BY <1>1
  <2> QED
    BY <2>1, EmptyPosted
<1>2. CASE EntryType # {}
  BY <1>2, PostedGrows
<1> QED
  BY <1>1, <1>2

\* What is posted to two sets of accounts without a common one is what is
\* posted to each.
LEMMA PostedSplit ==
  ASSUME NEW es \in Seq(EntryType), NEW A \in SUBSET Account,
         NEW B \in SUBSET Account, A \cap B = {}, NEW end
  PROVE  Posted(es, A \cup B, end) = Posted(es, A, end) + Posted(es, B, end)
<1> DEFINE dated == {i \in DOMAIN es : es[i].at <= end}
           In(C, e) == SumOf([a \in C |-> Net(e.lines, a)], C)
           Of(C) == [i \in dated |-> In(C, es[i])]
<1>1. \A i \in dated : es[i].lines \in Lines
  <2>1. \A i \in dated : es[i] \in EntryType
    OBVIOUS
  <2> QED
    BY <2>1 DEF EntryType
<1>2. IsFiniteSet(dated)
  <2>1. IsFiniteSet(1 .. Len(es)) /\ DOMAIN es = 1 .. Len(es)
    BY FS_Interval
  <2> QED
    BY <2>1, FS_Subset
<1>3. /\ A \cup B \in SUBSET Account
      /\ IsFiniteSet(A) /\ IsFiniteSet(B) /\ IsFiniteSet(A \cup B)
  BY BookAssumption, FS_Subset
<1>4. ASSUME NEW i \in dated
      PROVE  /\ In(A, es[i]) \in Int /\ In(B, es[i]) \in Int
             /\ In(A \cup B, es[i]) = In(A, es[i]) + In(B, es[i])
  <2>1. PICK lines \in Lines : lines = es[i].lines
    BY <1>1
  <2> DEFINE net(C) == [a \in C |-> Net(lines, a)]
  <2>2. \A C \in SUBSET Account : SumOf(net(C), C) \in Int
    BY NetSumType
  <2>3. \A a \in A \cup B : net(A \cup B)[a] \in Int
    BY <1>3, NetType
  <2>4. /\ \A a \in A : net(A)[a] = net(A \cup B)[a]
        /\ \A a \in B : net(B)[a] = net(A \cup B)[a]
    OBVIOUS
  <2>7. In(A, es[i]) = SumOf(net(A), A) /\ In(B, es[i]) = SumOf(net(B), B)
    BY <2>1
  <2>8. In(A \cup B, es[i]) = SumOf(net(A \cup B), A \cup B)
    BY <2>1
  <2> HIDE DEF net, In
  <2>5. Sum(net(A \cup B), A \cup B) = Sum(net(A \cup B), A) + Sum(net(A \cup B), B)
    BY <1>3, <2>3, SumUnion
  <2>6. /\ Sum(net(A \cup B), A) = Sum(net(A), A)
        /\ Sum(net(A \cup B), B) = Sum(net(B), B)
    BY <1>3, <2>4, SumExt
  <2>9. \A C \in {A, B, A \cup B} : SumOf(net(C), C) = Sum(net(C), C)
    BY <1>3, SumOfIsSum
  <2> QED
    BY <1>3, <2>2, <2>5, <2>6, <2>7, <2>8, <2>9
<1>5. \A i \in dated : /\ Of(A)[i] \in Int /\ Of(B)[i] \in Int
                        /\ Of(A \cup B)[i] = Of(A)[i] + Of(B)[i]
  <2> HIDE DEF dated, In
  <2> QED
    BY <1>4
<1>6. \A C \in {A, B, A \cup B} : Posted(es, C, end) = SumOf(Of(C), dated)
  BY DEF Posted, PostedBy
<1> HIDE DEF Of, In, dated
<1>7. \A C \in {A, B, A \cup B} : SumOf(Of(C), dated) = Sum(Of(C), dated)
  BY <1>2, SumOfIsSum
<1>8. Sum(Of(A \cup B), dated) = Sum(Of(A), dated) + Sum(Of(B), dated)
  BY <1>2, <1>5, SumPlus
<1> QED
  BY <1>6, <1>7, <1>8

-------------------------------------------------------------------------------
(***************************************************************************)
(* What every insertion of an entry does to them.                          *)
(***************************************************************************)

\* A posting and a reversal insert an entry that passed the checks; no other
\* operation changes the entries.
LEMMA OperateInserts ==
  ASSUME BookTypeOK, NEW r \in Request, Operate(r)
  PROVE  \/ \E lines \in Lines, reverses \in Nat :
              /\ MayInsert(r.key, r.at, lines)
              /\ Insert(r, lines, reverses)
              /\ r.key \in Key /\ r.at \in Day
              /\ \/ r.op = "post" /\ reverses = 0 /\ lines = r.lines
                 \/ /\ r.op = "reverse" /\ reverses = r.source
                    /\ MayReverse(r)
                    /\ lines = Mirror(entries[r.source].lines)
         \/ UNCHANGED entries /\ r.op \notin {"post", "reverse"}
<1>1. r \in RequestType
  BY Requests
<1>2. CASE Post(r)
  <2>1. r \in PostRequest
    BY <1>1, <1>2 DEF Post, RequestType, PostRequest, ReverseRequest,
       PeriodRequest, AccountLockRequest, ReconcileRequest
  <2>2. MayInsert(r.key, r.at, r.lines)
    BY <1>2 DEF Post, Operate, Checks, MayPost
  <2> QED
    BY <1>2, <2>1, <2>2 DEF Post, PostRequest
<1>3. CASE Reverse(r)
  <2>1. r \in ReverseRequest
    BY <1>1, <1>3 DEF Reverse, RequestType, PostRequest, ReverseRequest,
       PeriodRequest, AccountLockRequest, ReconcileRequest
  <2>2. MayReverse(r)
    BY <1>3 DEF Reverse, Operate, Checks
  <2>3. entries[r.source] \in EntryType
    BY <2>2 DEF MayReverse, BookTypeOK
  <2>4. Mirror(entries[r.source].lines) \in Lines
    BY <2>3, MirrorType DEF EntryType
  <2> QED
    BY <1>3, <2>1, <2>2, <2>4 DEF Reverse, MayReverse, ReverseRequest
<1>4. CASE Create(r) \/ Close(r) \/ LockAccount(r) \/ Reconcile(r)
  BY <1>4 DEF Create, Close, LockAccount, Reconcile
<1> QED
  BY <1>2, <1>3, <1>4 DEF Operate, Effect

-------------------------------------------------------------------------------
\* An entry adds its net posting to the balance of every account.
LEMMA BalanceGrows ==
  ASSUME BookTypeOK, NEW new \in EntryType, entries' = Append(entries, new),
         NEW a \in Account
  PROVE  Balance(a) \in Int /\ Balance(a)' = Balance(a) + Net(new.lines, a)
<1>1. entries \in Seq(EntryType) /\ {a} \in SUBSET Account /\ new.lines \in Lines
  BY DEF BookTypeOK, EntryType
<1>2. DOMAIN Append(entries, new) = DOMAIN entries \cup {Len(entries) + 1}
  BY <1>1
<1>3. SumOf([b \in {a} |-> Net(new.lines, b)], {a}) = Net(new.lines, a)
  BY <1>1, NetSingle
<1>4. Balance(a)' = PostedBy(Append(entries, new), {a}, DOMAIN Append(entries, new))
  BY DEF Balance
<1>5. /\ PostedBy(entries, {a}, DOMAIN entries) \in Int
      /\ PostedBy(Append(entries, new), {a}, DOMAIN entries \cup {Len(entries) + 1}) =
           PostedBy(entries, {a}, DOMAIN entries)
             + SumOf([b \in {a} |-> Net(new.lines, b)], {a})
  BY <1>1, PostedByGrows
<1> QED
  BY <1>2, <1>3, <1>4, <1>5 DEF Balance

\* No operation overdraws a client: only a posting and a reversal add lines, and
\* both evaluate the balance of every account they touch first.
LEMMA OperateNonnegative ==
  ASSUME BookTypeOK, NonnegativeClientTrust, NEW r \in Request, Operate(r)
  PROVE  NonnegativeClientTrust'
<1>1. CASE UNCHANGED entries
  BY <1>1 DEF NonnegativeClientTrust, Balance
<1>2. ASSUME NEW lines \in Lines, NEW reverses \in Nat, Insert(r, lines, reverses),
             r.key \in Key, r.at \in Day, StaysNonnegative(lines)
      PROVE  NonnegativeClientTrust'
  <2>1. PICK new :
          new = [key |-> r.key, at |-> r.at, lines |-> lines, reverses |-> reverses]
    OBVIOUS
  <2>2. new \in EntryType /\ entries' = Append(entries, new) /\ new.lines = lines
    BY <1>2, <2>1 DEF EntryType, Insert
  <2> SUFFICES ASSUME NEW a \in Clients
               PROVE  Balance(a)' >= 0
    BY DEF NonnegativeClientTrust, Clients
  <2>3. a \in Account /\ Balance(a) >= 0
    BY DEF Clients, NonnegativeClientTrust
  <2>4. Balance(a) \in Int /\ Balance(a)' = Balance(a) + Net(lines, a)
    BY <2>2, <2>3, BalanceGrows
  <2>5. a \in DOMAIN lines => Balance(a) + lines[a] >= 0
    BY <1>2 DEF StaysNonnegative
  <2> QED
    BY <2>3, <2>4, <2>5 DEF Net
<1> QED
  BY <1>1, <1>2, OperateInserts DEF MayInsert

\* No sequence of operations overdraws a client's trust account.
THEOREM BookNonnegative == BookSpec => []NonnegativeClientTrust
<1> DEFINE Inv == BookTypeOK /\ NonnegativeClientTrust
<1>1. BookInit => Inv
  <2> SUFFICES ASSUME BookInit, NEW a \in Clients PROVE Balance(a) >= 0
    BY InitTypeOK DEF NonnegativeClientTrust
  <2>1. Balance(a) = PostedBy(<<>>, {a}, DOMAIN <<>>)
    BY DEF BookInit, Balance
  <2>2. PostedBy(<<>>, {a}, DOMAIN <<>>) = 0
    BY EmptyBalance
  <2> QED
    BY <2>1, <2>2
<1>2. Inv /\ [BookNext]_bookVars => Inv'
  <2>1. ASSUME Inv, UNCHANGED bookVars
        PROVE  Inv'
    BY <2>1, StutterTypeOK DEF NonnegativeClientTrust, Balance, bookVars
  <2> QED
    BY <2>1, OperateTypeOK, OperateNonnegative DEF BookNext
<1> QED
  BY <1>1, <1>2, PTL DEF BookSpec

-------------------------------------------------------------------------------
(***************************************************************************)
(* The trust banks and the clients.                                        *)
(***************************************************************************)

\* A balanced and separated entry adds nothing to the trust accounts together.
LEMMA TrustLinesCancel ==
  ASSUME NEW lines \in Lines, Balanced(lines), Separated(DOMAIN lines),
         NEW net, \A a \in Banks \cup Clients : net[a] = Net(lines, a)
  PROVE  Sum(net, Banks \cup Clients) = 0
<1> DEFINE S == Banks \cup Clients
<1>1. IsFiniteSet(S)
  <2>1. S \in SUBSET Account
    BY DEF Banks, Clients
  <2> QED
    BY <2>1, BookAssumption, FS_Subset
<1>2. DOMAIN lines \in SUBSET Account /\ \A a \in DOMAIN lines : lines[a] \in Int
  BY Amounts DEF Lines
<1>3. \A a \in S : net[a] = IF a \in DOMAIN lines THEN lines[a] ELSE 0
  BY DEF Net
<1>4. DOMAIN lines \subseteq S \/ DOMAIN lines \cap S = {}
  BY DEF Separated
<1> HIDE DEF S
<1>5. CASE DOMAIN lines \cap S = {}
  <2>1. Sum(net, S) = Sum(net, {})
    BY <1>1, <1>3, <1>5, SumSupport
  <2> QED
    BY <2>1, SumEmpty DEF S
<1>6. CASE DOMAIN lines \subseteq S
  <2>1. IsFiniteSet(DOMAIN lines)
    BY <1>1, <1>6, FS_Subset
  <2>2. Sum(net, S) = Sum(net, DOMAIN lines)
    BY <1>1, <1>2, <1>3, <1>6, SumSupport
  <2>3. Sum(net, DOMAIN lines) = Sum(lines, DOMAIN lines)
    BY <1>3, <1>6, <2>1, SumExt
  <2>4. Sum(lines, DOMAIN lines) = 0
    BY <2>1, SumOfIsSum DEF Balanced
  <2> QED
    BY <2>2, <2>3, <2>4 DEF S
<1> QED
  BY <1>4, <1>5, <1>6

\* Every operation keeps the banks and the clients together at zero.
LEMMA OperateCovers ==
  ASSUME BookTypeOK, TrustBanksCoverClients, NEW r \in Request, Operate(r)
  PROVE  TrustBanksCoverClients'
<1>1. CASE UNCHANGED entries
  BY <1>1 DEF TrustBanksCoverClients
<1>2. ASSUME NEW lines \in Lines, NEW reverses \in Nat, Insert(r, lines, reverses),
             r.key \in Key, r.at \in Day, MayInsert(r.key, r.at, lines)
      PROVE  TrustBanksCoverClients'
  <2> DEFINE S == Banks \cup Clients
             net == [a \in S |-> Net(lines, a)]
  <2>1. S \in SUBSET Account /\ IsFiniteSet(S)
    <3>1. S \in SUBSET Account
      BY DEF Banks, Clients
    <3> QED
      BY <3>1, BookAssumption, FS_Subset
  <2>2. Sum(net, S) = 0
    <3>1. \A a \in S : net[a] = Net(lines, a)
      OBVIOUS
    <3> HIDE DEF net
    <3> QED
      BY <1>2, <3>1, TrustLinesCancel DEF MayInsert
  <2>8. SumOf(net, S) = 0
    <3> HIDE DEF net, S
    <3> QED
      BY <2>1, <2>2, SumOfIsSum
  <2>9. PICK new :
          new = [key |-> r.key, at |-> r.at, lines |-> lines, reverses |-> reverses]
    OBVIOUS
  <2>10. /\ new \in EntryType /\ entries \in Seq(EntryType)
         /\ entries' = Append(entries, new) /\ new.lines = lines
    BY <1>2, <2>9 DEF EntryType, Insert, BookTypeOK
  <2>11. ASSUME NEW day \in Day
         PROVE  Posted(entries', S, day) = 0
    <3>1. Posted(entries, S, day) = 0
      BY DEF TrustBanksCoverClients
    <3>2. SumOf([a \in S |-> Net(new.lines, a)], S) = 0
      BY <2>8, <2>10
    <3> HIDE DEF S
    <3>3. Posted(entries', S, day) = Posted(entries, S, day)
            + IF new.at <= day THEN SumOf([a \in S |-> Net(new.lines, a)], S) ELSE 0
      BY <2>1, <2>10, PostedGrows
    <3> QED
      BY <3>1, <3>2, <3>3
  <2> QED
    BY <2>11 DEF TrustBanksCoverClients, Banks, Clients
<1> QED
  BY <1>1, <1>2, OperateInserts

\* The trust banks hold exactly what the clients are owed, after any postings,
\* reversals and reconciliations.
THEOREM BookCovers == BookSpec => []TrustBanksCoverClients
<1> DEFINE Inv == BookTypeOK /\ TrustBanksCoverClients
<1>1. BookInit => Inv
  <2> SUFFICES ASSUME BookInit PROVE TrustBanksCoverClients
    BY InitTypeOK
  <2> DEFINE S == Banks \cup Clients
  <2>1. ASSUME NEW day \in Day
        PROVE  Posted(entries, S, day) = 0
    <3> HIDE DEF S
    <3> QED
      BY EmptyPosted DEF BookInit
  <2> QED
    BY <2>1 DEF TrustBanksCoverClients
<1>2. Inv /\ [BookNext]_bookVars => Inv'
  <2>1. ASSUME Inv, UNCHANGED bookVars
        PROVE  Inv'
    BY <2>1, StutterTypeOK DEF TrustBanksCoverClients, bookVars
  <2> QED
    BY <2>1, OperateTypeOK, OperateCovers DEF BookNext
<1> QED
  BY <1>1, <1>2, PTL DEF BookSpec

-------------------------------------------------------------------------------
(***************************************************************************)
(* Reconciliations.                                                        *)
(***************************************************************************)

\* An insertion leaves every reconciled balance alone: it is dated later, or
\* its account is not among the entry's.
LEMMA OperateStands ==
  ASSUME BookTypeOK, ReconciledBookStands, NEW r \in Request, Operate(r)
  PROVE  ReconciledBookStands'
<1>1. ASSUME NEW lines \in Lines, NEW reverses \in Nat, Insert(r, lines, reverses),
             r.key \in Key, r.at \in Day, MayInsert(r.key, r.at, lines)
      PROVE  ReconciledBookStands'
  <2>1. PICK new :
          new = [key |-> r.key, at |-> r.at, lines |-> lines, reverses |-> reverses]
    OBVIOUS
  <2>2. /\ new \in EntryType /\ entries \in Seq(EntryType)
        /\ entries' = Append(entries, new) /\ recs' = recs
        /\ new.at = r.at /\ new.lines = lines
    BY <1>1, <2>1 DEF EntryType, Insert, BookTypeOK
  <2> SUFFICES ASSUME NEW rec \in recs
               PROVE  rec.bank = BookBalance(rec.account, rec.end)'
    BY <2>2 DEF ReconciledBookStands
  <2>3. rec.account \in Account /\ rec.bank = - Posted(entries, {rec.account}, rec.end)
    BY DEF BookTypeOK, ReconciledBookStands, BookBalance
  <2>4. {rec.account} \in SUBSET Account
    BY <2>3
  <2>5. /\ Posted(entries, {rec.account}, rec.end) \in Int
        /\ Posted(entries', {rec.account}, rec.end)
             = Posted(entries, {rec.account}, rec.end)
                 + IF new.at <= rec.end
                     THEN SumOf([b \in {rec.account} |-> Net(new.lines, b)],
                                {rec.account})
                     ELSE 0
    BY <2>2, <2>4, PostedGrows
  <2>6. SumOf([b \in {rec.account} |-> Net(new.lines, b)], {rec.account})
          = Net(lines, rec.account)
    BY <2>2, <2>3, NetSingle
  <2>7. r.at <= rec.end => rec.account \notin DOMAIN lines
    BY <1>1 DEF MayInsert, ReconciliationBlocks
  <2>8. r.at <= rec.end => Net(lines, rec.account) = 0
    BY <2>7 DEF Net
  <2>9. Posted(entries', {rec.account}, rec.end)
          = Posted(entries, {rec.account}, rec.end)
    BY <2>2, <2>5, <2>6, <2>8
  <2> QED
    BY <2>3, <2>9 DEF BookBalance
<1>2. CASE Post(r) \/ Reverse(r)
  <2>1. r.op \in {"post", "reverse"}
    BY <1>2 DEF Post, Reverse
  <2> QED
    BY <1>1, <2>1, OperateInserts
<1>3. CASE Create(r) \/ Close(r) \/ LockAccount(r)
  BY <1>3 DEF Create, Close, LockAccount, ReconciledBookStands, BookBalance
<1>4. CASE Reconcile(r)
  <2>1. r.bank = BookBalance(r.account, r.end)
    BY <1>4 DEF Reconcile, Operate, Checks, MayReconcile
  <2>2. PICK new : new = [account |-> r.account, end |-> r.end, bank |-> r.bank]
    OBVIOUS
  <2>3. entries' = entries /\ recs' = recs \cup {new}
    BY <1>4, <2>2 DEF Reconcile
  <2> SUFFICES ASSUME NEW rec \in recs'
               PROVE  rec.bank = BookBalance(rec.account, rec.end)'
    BY DEF ReconciledBookStands
  <2>4. rec.bank = BookBalance(rec.account, rec.end)
    BY <2>1, <2>2, <2>3 DEF ReconciledBookStands
  <2> QED
    BY <2>3, <2>4 DEF BookBalance
<1> QED
  BY <1>2, <1>3, <1>4 DEF Operate, Effect

\* The bank balance a reconciliation approved is the balance of the book up to
\* its date, for good.
THEOREM BookReconciled == BookSpec => []ReconciledBookStands
<1> DEFINE Inv == BookTypeOK /\ ReconciledBookStands
<1>1. BookInit => Inv
  BY InitTypeOK DEF BookInit, ReconciledBookStands
<1>2. Inv /\ [BookNext]_bookVars => Inv'
  <2>1. ASSUME Inv, UNCHANGED bookVars
        PROVE  Inv'
    BY <2>1, StutterTypeOK DEF ReconciledBookStands, BookBalance, bookVars
  <2> QED
    BY <2>1, OperateTypeOK, OperateStands DEF BookNext
<1> QED
  BY <1>1, <1>2, PTL DEF BookSpec

\* Reconciliations are approved for trust banks only.
BanksReconciled == \A rec \in recs : rec.account \in Banks

\* As of any day, the book balances of the trust banks together are the total
\* of the client accounts: the second comparison of reconcileTrustAccount
\* cannot fail when the first holds and the account is the only trust bank.
THEOREM BookDaysAgree ==
  BookSpec => [](\A day \in Day : Posted(entries, Banks, day) = - ClientTotal(day))
<1>1. ASSUME BookTypeOK, TrustBanksCoverClients, NEW day \in Day
      PROVE  Posted(entries, Banks, day) = - ClientTotal(day)
  <2>1. /\ entries \in Seq(EntryType) /\ Banks \cap Clients = {}
        /\ Banks \in SUBSET Account /\ Clients \in SUBSET Account
    <3>1. Banks \in SUBSET Account /\ Clients \in SUBSET Account
      BY DEF Banks, Clients
    <3>2. Banks \cap Clients = {}
      BY DEF Banks, Clients
    <3> QED
      BY <1>1, <3>1, <3>2 DEF BookTypeOK
  <2>2. Posted(entries, Banks \cup Clients, day)
          = Posted(entries, Banks, day) + Posted(entries, Clients, day)
    BY <2>1, PostedSplit
  <2>3. Posted(entries, Banks, day) \in Int /\ Posted(entries, Clients, day) \in Int
    BY <2>1, PostedType
  <2>4. Posted(entries, Banks \cup Clients, day) = 0
    BY <1>1 DEF TrustBanksCoverClients
  <2> QED
    BY <2>2, <2>3, <2>4 DEF ClientTotal
<1>2. BookTypeOK /\ TrustBanksCoverClients =>
        \A day \in Day : Posted(entries, Banks, day) = - ClientTotal(day)
  BY <1>1
<1> QED
  BY <1>2, BookTypeCorrect, BookCovers, PTL

\* With one trust bank account, no later posting moves the client total that a
\* reconciliation approved: the finding needs a second bank, through which
\* client money moves while the first is reconciled.
THEOREM BookOneBank ==
  ASSUME \A a, b \in Banks : a = b
  PROVE  BookSpec => []ReconciledClientsStand
<1> DEFINE Agree == \A day \in Day : Posted(entries, Banks, day) = - ClientTotal(day)
           Inv == BookTypeOK /\ BanksReconciled
<1>1. BookInit => Inv
  BY InitTypeOK DEF BookInit, BanksReconciled
<1>2. Inv /\ [BookNext]_bookVars => Inv'
  <2>1. ASSUME Inv, UNCHANGED bookVars
        PROVE  Inv'
    BY <2>1, StutterTypeOK DEF BanksReconciled, bookVars
  <2>2. ASSUME Inv, NEW r \in Request, Operate(r)
        PROVE  BanksReconciled'
    <3>1. CASE Reconcile(r)
      <4>1. r.account \in Banks
        BY <2>2, <3>1 DEF Reconcile, Operate, Checks, MayReconcile
      <4> QED
        BY <2>2, <3>1, <4>1 DEF Reconcile, BanksReconciled
    <3>2. CASE ~Reconcile(r)
      BY <2>2, <3>2 DEF Operate, Effect, Post, Reverse, Insert, Create, Close,
         LockAccount, BanksReconciled
    <3> QED
      BY <3>1, <3>2
  <2> QED
    BY <2>1, <2>2, OperateTypeOK DEF BookNext
<1>3. Inv /\ Agree /\ ReconciledBookStands => ReconciledClientsStand
  <2> SUFFICES ASSUME Inv, Agree, ReconciledBookStands, NEW rec \in recs
               PROVE  rec.bank = ClientTotal(rec.end)
    BY DEF ReconciledClientsStand
  <2>1. rec.account \in Banks /\ rec.end \in Day
    BY DEF BanksReconciled, BookTypeOK
  <2>2. Banks = {rec.account}
    BY <2>1
  <2>3. rec.bank = - Posted(entries, Banks, rec.end)
    BY <2>2 DEF ReconciledBookStands, BookBalance
  <2>4. Posted(entries, Banks, rec.end) = - ClientTotal(rec.end)
    BY <2>1
  <2>5. ClientTotal(rec.end) \in Int
    <3>1. entries \in Seq(EntryType) /\ Clients \in SUBSET Account
      BY DEF BookTypeOK, Clients
    <3> QED
      BY <3>1, PostedType DEF ClientTotal
  <2> QED
    BY <2>3, <2>4, <2>5
<1> QED
  BY <1>1, <1>2, <1>3, BookDaysAgree, BookReconciled, PTL DEF BookSpec

-------------------------------------------------------------------------------
(***************************************************************************)
(* Corrections.                                                            *)
(***************************************************************************)

\* A reversal names an earlier entry.
ReversesEarlier == \A i \in DOMAIN entries : entries[i].reverses < i

\* An entry and its mirror cancel on every account.
LEMMA MirrorCancels ==
  ASSUME NEW lines \in Lines, NEW a \in Account
  PROVE  Net(Mirror(lines), a) + Net(lines, a) = 0
<1>1. DOMAIN Mirror(lines) = DOMAIN lines
  BY DEF Mirror
<1>2. a \in DOMAIN lines => lines[a] \in Int /\ Mirror(lines)[a] = - lines[a]
  BY Amounts DEF Lines, Mirror
<1> QED
  BY <1>1, <1>2 DEF Net

\* An inserted entry reverses an earlier one that nothing has reversed yet, or
\* none.
LEMMA OperateCorrects ==
  ASSUME BookTypeOK, ReversesEarlier, CorrectionsCancel,
         NEW r \in Request, Operate(r)
  PROVE  ReversesEarlier' /\ CorrectionsCancel'
<1>1. CASE UNCHANGED entries
  BY <1>1 DEF ReversesEarlier, CorrectionsCancel
<1>2. ASSUME NEW lines \in Lines, NEW reverses \in Nat, Insert(r, lines, reverses),
             r.key \in Key, r.at \in Day,
             \/ reverses = 0
             \/ /\ reverses \in DOMAIN entries
                /\ \A i \in DOMAIN entries : entries[i].reverses # reverses
                /\ lines = Mirror(entries[reverses].lines)
      PROVE  ReversesEarlier' /\ CorrectionsCancel'
  <2>1. PICK new :
          new = [key |-> r.key, at |-> r.at, lines |-> lines, reverses |-> reverses]
    OBVIOUS
  <2>2. /\ new \in EntryType /\ entries \in Seq(EntryType)
        /\ entries' = Append(entries, new)
        /\ new.reverses = reverses /\ new.lines = lines
    BY <1>2, <2>1 DEF EntryType, Insert, BookTypeOK
  <2>3. PICK n : n = Len(entries) + 1
    OBVIOUS
  <2>4. /\ DOMAIN entries' = DOMAIN entries \cup {n} /\ n \notin DOMAIN entries
        /\ n \in Nat /\ DOMAIN entries \subseteq Nat \ {0}
        /\ \A i \in DOMAIN entries : i < n /\ entries'[i] = entries[i]
        /\ entries'[n] = new
    BY <2>2, <2>3
  <2>5. \A i \in DOMAIN entries : entries[i].reverses \in Nat /\ entries[i].lines \in Lines
    <3>1. \A i \in DOMAIN entries : entries[i] \in EntryType
      BY <2>2
    <3> QED
      BY <3>1 DEF EntryType
  <2>6. ReversesEarlier'
    BY <1>2, <2>2, <2>4 DEF ReversesEarlier
  <2>7. ASSUME NEW i \in DOMAIN entries', NEW j \in DOMAIN entries',
               entries'[i].reverses = j
        PROVE  /\ \A k \in DOMAIN entries' : entries'[k].reverses = j => k = i
               /\ \A a \in Account :
                    Net(entries'[i].lines, a) + Net(entries'[j].lines, a) = 0
    <3>1. j \in DOMAIN entries
      BY <1>2, <2>2, <2>4, <2>5, <2>7 DEF ReversesEarlier
    <3>2. CASE i = n
      <4>1. j = reverses /\ reverses # 0
        BY <2>2, <2>4, <2>7, <3>1, <3>2
      <4>2. \A k \in DOMAIN entries' : entries'[k].reverses = j => k = i
        BY <1>2, <2>4, <3>2, <4>1
      <4>3. entries'[i].lines = Mirror(entries[j].lines) /\ entries'[j] = entries[j]
        BY <1>2, <2>2, <2>4, <3>1, <3>2, <4>1
      <4> QED
        BY <2>5, <3>1, <4>2, <4>3, MirrorCancels
    <3>3. CASE i # n
      <4>1. i \in DOMAIN entries /\ entries[i].reverses = j
        BY <2>4, <2>7, <3>3
      <4>2. reverses # j
        BY <1>2, <2>4, <3>1, <4>1
      <4>3. \A k \in DOMAIN entries' : entries'[k].reverses = j => k = i
        BY <2>2, <2>4, <3>1, <4>1, <4>2 DEF CorrectionsCancel
      <4>4. \A a \in Account : Net(entries[i].lines, a) + Net(entries[j].lines, a) = 0
        BY <3>1, <4>1 DEF CorrectionsCancel
      <4> QED
        BY <2>4, <3>1, <4>1, <4>3, <4>4
    <3> QED
      BY <3>2, <3>3
  <2>8. CorrectionsCancel'
    BY <2>7 DEF CorrectionsCancel
  <2> QED
    BY <2>6, <2>8
<1> QED
  BY <1>1, <1>2, OperateInserts DEF MayReverse

\* An entry is reversed at most once, and exactly.
THEOREM BookCorrects == BookSpec => []CorrectionsCancel
<1> DEFINE Inv == BookTypeOK /\ ReversesEarlier /\ CorrectionsCancel
<1>1. BookInit => Inv
  BY InitTypeOK DEF BookInit, ReversesEarlier, CorrectionsCancel
<1>2. Inv /\ [BookNext]_bookVars => Inv'
  <2>1. ASSUME Inv, UNCHANGED bookVars
        PROVE  Inv'
    BY <2>1, StutterTypeOK DEF ReversesEarlier, CorrectionsCancel, bookVars
  <2> QED
    BY <2>1, OperateTypeOK, OperateCorrects DEF BookNext
<1> QED
  BY <1>1, <1>2, PTL DEF BookSpec

-------------------------------------------------------------------------------
(***************************************************************************)
(* Answers.                                                                *)
(***************************************************************************)

\* Every idempotency row tells the truth about the book.
RowsFulfilled == \A row \in idem : Fulfilled(row)

\* Every answer repeats an idempotency row.
AnswersRecorded == \A p \in Proc : answer[p] # NoAnswer => answer[p] \in idem

\* What an operation has done, no later operation undoes.
LEMMA OperateFulfills ==
  ASSUME BookTypeOK, NEW r \in Request, Operate(r),
         NEW row \in [req : Request, ref : Nat], Fulfilled(row)
  PROVE  Fulfilled(row)'
<1> DEFINE s == row.req
<1>0. s \in RequestType /\ r \in RequestType
  BY Requests
<1>1. /\ DOMAIN entries \subseteq DOMAIN entries'
      /\ \A i \in DOMAIN entries : entries'[i] = entries[i]
  <2>1. entries' = entries \/ \E new : entries' = Append(entries, new)
    BY DEF Operate, Effect, Post, Reverse, Insert, Create, Close, LockAccount, Reconcile
  <2>2. entries \in Seq(EntryType)
    BY DEF BookTypeOK
  <2>3. ASSUME NEW new, entries' = Append(entries, new)
        PROVE  /\ DOMAIN entries \subseteq DOMAIN entries'
               /\ \A i \in DOMAIN entries : entries'[i] = entries[i]
    BY <2>2, <2>3
  <2> QED
    BY <2>1, <2>3
<1>2. locks \subseteq locks' /\ recs \subseteq recs'
  BY DEF Operate, Effect, Post, Reverse, Insert, Create, Close, LockAccount, Reconcile
<1>3. \A i \in Interval : /\ status[i] # "ABSENT" => status'[i] # "ABSENT"
                          /\ status[i] = "CLOSED" => status'[i] = "CLOSED"
  <2>1. CASE Create(r)
    BY <2>1 DEF Create, Operate, Constraints, BookTypeOK
  <2>2. CASE Close(r)
    BY <2>2 DEF Close, BookTypeOK
  <2>3. CASE ~Create(r) /\ ~Close(r)
    BY <2>3 DEF Operate, Effect, Post, Reverse, Insert, LockAccount, Reconcile
  <2> QED
    BY <2>1, <2>2, <2>3
<1>4. s.op \in {"create", "close"} => s.period \in Interval
  BY <1>0 DEF RequestType, PostRequest, ReverseRequest, PeriodRequest,
     AccountLockRequest, ReconcileRequest
<1> QED
  BY <1>1, <1>2, <1>3, <1>4 DEF Fulfilled

\* An operation records what it has done.
LEMMA OperateRecords ==
  ASSUME BookTypeOK, NEW r \in Request, Operate(r),
         NEW row \in idem' \ idem
  PROVE  row.req = r /\ Fulfilled(row)'
<1>0. r \in RequestType
  BY Requests
<1>1. ASSUME NEW ref, idem' = idem \cup {[req |-> r, ref |-> ref]}
      PROVE  row.req = r /\ row.ref = ref
  BY <1>1
<1>2. CASE Post(r) \/ Reverse(r)
  <2>1. PICK lines, reverses :
          /\ Insert(r, lines, reverses)
          /\ \/ r.op = "post" /\ reverses = 0 /\ lines = r.lines
             \/ r.op = "reverse" /\ reverses = r.source
    BY <1>2 DEF Post, Reverse
  <2>2. PICK new :
          new = [key |-> r.key, at |-> r.at, lines |-> lines, reverses |-> reverses]
    OBVIOUS
  <2>3. entries' = Append(entries, new) /\ entries \in Seq(EntryType)
    BY <2>1, <2>2 DEF Insert, BookTypeOK
  <2>4. row.req = r /\ row.ref = Len(entries) + 1
    BY <1>1, <2>1 DEF Insert, Record
  <2>5. row.ref \in DOMAIN entries' /\ entries'[row.ref] = new
    BY <2>3, <2>4
  <2> QED
    BY <2>1, <2>2, <2>4, <2>5 DEF Fulfilled
<1>3. CASE Create(r) \/ Close(r)
  <2>1. row.req = r
    BY <1>1, <1>3 DEF Create, Close, Record
  <2>2. r.period \in Interval
    BY <1>0, <1>3 DEF Create, Close, RequestType, PostRequest, ReverseRequest,
       PeriodRequest, AccountLockRequest, ReconcileRequest
  <2> QED
    BY <1>3, <2>1, <2>2 DEF Fulfilled, Create, Close, BookTypeOK
<1>4. CASE LockAccount(r) \/ Reconcile(r)
  <2>1. row.req = r
    BY <1>1, <1>4 DEF LockAccount, Reconcile, Record
  <2> QED
    BY <1>4, <2>1 DEF Fulfilled, LockAccount, Reconcile
<1> QED
  BY <1>2, <1>3, <1>4 DEF Operate, Effect

\* Idempotency rows are never lost.
LEMMA RowsGrow ==
  ASSUME NEW r, Operate(r)
  PROVE  idem \subseteq idem'
BY DEF Operate, Effect, Post, Reverse, Insert, Create, Close, LockAccount,
   Reconcile, Record

\* Every operation keeps the rows true.
LEMMA OperateRows ==
  ASSUME BookTypeOK, RowsFulfilled, NEW r \in Request, Operate(r)
  PROVE  RowsFulfilled'
<1> SUFFICES ASSUME NEW row \in idem'
             PROVE  Fulfilled(row)'
  BY DEF RowsFulfilled
<1>1. CASE row \in idem
  BY <1>1, OperateFulfills DEF RowsFulfilled, BookTypeOK
<1>2. CASE row \notin idem
  BY <1>2, OperateRecords
<1> QED
  BY <1>1, <1>2

\* Steps that leave the book alone leave the rows true.
LEMMA StutterRows ==
  ASSUME RowsFulfilled, UNCHANGED bookVars
  PROVE  RowsFulfilled'
<1>1. /\ entries' = entries /\ status' = status /\ locks' = locks
      /\ recs' = recs /\ idem' = idem
  BY DEF bookVars
<1> SUFFICES ASSUME NEW row \in idem'
             PROVE  Fulfilled(row)'
  BY DEF RowsFulfilled
<1>2. Fulfilled(row)
  BY <1>1 DEF RowsFulfilled
<1> QED
  BY <1>1, <1>2 DEF Fulfilled

\* A step of a transaction answers with a row, if it answers.
LEMMA StepAnswers ==
  ASSUME LedgerInv, AnswersRecorded, NEW p \in Proc,
         \/ Begin(p) \/ LookUp(p) \/ TakeLock(p) \/ Replay(p)
         \/ Check(p) \/ Commit(p) \/ Fail(p)
  PROVE  AnswersRecorded'
<1>1. answer \in [Proc -> [req : Request, ref : Nat] \cup {NoAnswer}]
  BY DEF LedgerInv, TypeOK
<1>2. CASE Replay(p)
  <2>1. PICK row \in idem : row.req = req[p] /\ Responds(p, row)
    BY <1>2 DEF Replay
  <2>2. row = [req |-> req[p], ref |-> row.ref]
    BY <2>1 DEF LedgerInv, TypeOK, BookTypeOK
  <2>3. answer' = [answer EXCEPT ![p] = row] /\ idem' = idem
    BY <1>2, <2>1, <2>2 DEF Responds, Replay, bookVars
  <2> QED
    BY <1>1, <2>1, <2>3 DEF AnswersRecorded
<1>3. CASE Commit(p)
  <2>1. req[p] \in Request /\ Operate(req[p])
    BY <1>3, CommitOperates
  <2>2. PICK row \in idem' \ idem : Responds(p, row)
    BY <1>3 DEF Commit
  <2>3. \E ref : row = [req |-> req[p], ref |-> ref]
    BY <2>1, <2>2 DEF Operate, Effect, Post, Reverse, Insert, Create, Close,
       LockAccount, Reconcile, Record
  <2>4. answer' = [answer EXCEPT ![p] = row]
    BY <2>2, <2>3 DEF Responds
  <2>5. idem \subseteq idem'
    BY <2>1, RowsGrow
  <2> QED
    BY <1>1, <2>2, <2>4, <2>5 DEF AnswersRecorded
<1>4. CASE Begin(p) \/ LookUp(p) \/ TakeLock(p) \/ Check(p) \/ Fail(p)
  BY <1>4 DEF Begin, LookUp, TakeLock, Check, Fail, bookVars, AnswersRecorded
<1> QED
  BY <1>2, <1>3, <1>4

\* Every client that got an answer got what it asked for, and still has it: the
\* effect of its own request is in the book.
THEOREM AnswersAreFulfilled == Spec => []AnswersFulfilled
<1> DEFINE Inv == RowsFulfilled /\ AnswersRecorded
<1>1. Init => Inv
  BY DEF Init, BookInit, RowsFulfilled, AnswersRecorded
<1>2. LedgerInv /\ Inv /\ [Next]_vars => Inv'
  <2>1. ASSUME Inv, UNCHANGED vars
        PROVE  Inv'
    <3>1. UNCHANGED bookVars /\ UNCHANGED answer
      BY <2>1 DEF vars, bookVars
    <3>2. RowsFulfilled'
      BY <2>1, <3>1, StutterRows
    <3> QED
      BY <2>1, <3>1, <3>2 DEF AnswersRecorded, bookVars
  <2>2. ASSUME LedgerInv, Inv, NEW p \in Proc,
               \/ Begin(p) \/ LookUp(p) \/ TakeLock(p) \/ Replay(p)
               \/ Check(p) \/ Commit(p) \/ Fail(p)
        PROVE  Inv'
    <3>1. CASE Commit(p)
      <4>1. req[p] \in Request /\ Operate(req[p])
        BY <2>2, <3>1, CommitOperates
      <4>2. RowsFulfilled'
        BY <2>2, <4>1, OperateRows DEF LedgerInv, TypeOK
      <4> QED
        BY <2>2, <4>2, StepAnswers
    <3>2. CASE ~Commit(p)
      <4>1. UNCHANGED bookVars
        BY <2>2, <3>2 DEF Begin, LookUp, TakeLock, Replay, Check, Fail
      <4>2. RowsFulfilled'
        BY <2>2, <4>1, StutterRows
      <4> QED
        BY <2>2, <4>2, StepAnswers
    <3> QED
      BY <3>1, <3>2
  <2> QED
    BY <2>1, <2>2 DEF Next
<1>3. Inv => AnswersFulfilled
  BY DEF RowsFulfilled, AnswersRecorded, AnswersFulfilled
<1> QED
  BY <1>1, <1>2, <1>3, LedgerInvariant, PTL DEF Spec

-------------------------------------------------------------------------------
(***************************************************************************)
(* The interleaved transactions keep what the book keeps.                  *)
(***************************************************************************)

\* Concurrent postings and reversals never overdraw a client.
THEOREM TrustNeverNegative == Spec => []NonnegativeClientTrust
BY SerialOrder, BookNonnegative, PTL

\* Concurrent operations keep the trust banks equal to what clients are owed.
THEOREM BanksCoverClients == Spec => []TrustBanksCoverClients
BY SerialOrder, BookCovers, PTL

\* No posting that was in flight during a reconciliation changes the balance it
\* approved.
THEOREM ReconciledStands == Spec => []ReconciledBookStands
BY SerialOrder, BookReconciled, PTL

\* However operations interleave, the trust banks' book balances up to any day
\* together are what the clients are owed as of that day.
THEOREM DaysAgree ==
  Spec => [](\A day \in Day : Posted(entries, Banks, day) = - ClientTotal(day))
BY SerialOrder, BookDaysAgree, PTL

\* With one trust bank account, a reconciled client total stands under every
\* interleaving.
THEOREM OneBankClientsStand ==
  ASSUME \A a, b \in Banks : a = b
  PROVE  Spec => []ReconciledClientsStand
BY SerialOrder, BookOneBank, PTL

\* Racing reversals of one entry never cancel it twice.
THEOREM CorrectedOnce == Spec => []CorrectionsCancel
BY SerialOrder, BookCorrects, PTL

===============================================================================
