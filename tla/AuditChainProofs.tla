--------------------------- MODULE AuditChainProofs ---------------------------
(***************************************************************************)
(* Proofs about AuditChain, for any number of connections, locks and kinds *)
(* of transaction and any length of the log.                               *)
(***************************************************************************)
EXTENDS AuditChain, SequenceTheorems, FiniteSetTheorems, WellFoundedInduction, TLAPS

-------------------------------------------------------------------------------
(***************************************************************************)
(* The inductive invariant.  A transaction holds the audit lock from its   *)
(* first append on, so at most one has events that are not committed.      *)
(***************************************************************************)

OneWriter == \A t \in Tx : pending[t] # <<>> => holder[ChainLock] = t

OwnEvents == \A t \in Tx : \A i \in 1 .. Len(pending[t]) : pending[t][i].by = t

\* The audit lock is taken last, and a held business lock has been counted.
ChainLockLast ==
  /\ \A t \in Tx : holder[ChainLock] = t => HasBusinessLocks(t)
  /\ \A t \in Tx : \A l \in Lock : holder[l] = t => taken[t] >= 1

IInv ==
  TypeOK /\ ChainLinked /\ PendingExtendsChain /\ OneWriter /\ OwnEvents
    /\ ChainLockLast

-------------------------------------------------------------------------------
(***************************************************************************)
(* Sequences and links.                                                    *)
(***************************************************************************)

\* A member of any Seq(S) is a sequence in the sense of TypeOK.
LEMMA MemberIsSequence ==
  ASSUME NEW S, NEW s \in Seq(S)
  PROVE  IsSequence(s)
<1> DEFINE R == {s[i] : i \in 1 .. Len(s)}
<1>1. Len(s) \in Nat /\ DOMAIN s = 1 .. Len(s) /\ s \in [1 .. Len(s) -> S]
  BY LenProperties
<1>2. s \in [1 .. Len(s) -> R]
  BY <1>1
<1> HIDE DEF R
<1>3. s \in Seq(R)
  BY <1>1, <1>2, SeqDef
<1> QED BY <1>3 DEF IsSequence, R

\* Two sequences and an event fit into one set of elements.
LEMMA CommonElements ==
  ASSUME NEW c, NEW p, NEW e, IsSequence(c), IsSequence(p)
  PROVE  \E S : c \in Seq(S) /\ p \in Seq(S) /\ e \in S
<1> DEFINE C == {c[i] : i \in 1 .. Len(c)}
           P == {p[i] : i \in 1 .. Len(p)}
           S == C \cup P \cup {e}
<1>1. c \in Seq(C) /\ p \in Seq(P)
  BY DEF IsSequence
<1>2. C \subseteq S /\ P \subseteq S /\ e \in S
  OBVIOUS
<1> HIDE DEF C, P, S
<1>3. c \in Seq(S) /\ p \in Seq(S)
  BY <1>1, <1>2, SeqMonotonic
<1> QED BY <1>2, <1>3

\* The next event computed from a linked sequence continues it.
LEMMA NextEventLinks ==
  ASSUME NEW S, NEW s \in Seq(S), Linked(s), NEW t,
         NextEvent(t, s) \in S
  PROVE  Linked(Append(s, NextEvent(t, s)))
<1> DEFINE e == NextEvent(t, s)
           a == Append(s, e)
<1>1. Len(s) \in Nat /\ DOMAIN s = 1 .. Len(s)
  OBVIOUS
<1>2. /\ DOMAIN a = 1 .. Len(s) + 1
      /\ \A i \in 1 .. Len(s) : a[i] = s[i]
      /\ a[Len(s) + 1] = e
  OBVIOUS
<1>3. e.seq = Len(s) + 1
  <2>1. CASE s = <<>>
    BY <2>1 DEF NextEvent
  <2>2. CASE s # <<>>
    <3>1. Len(s) \in 1 .. Len(s)
      BY <2>2, <1>1, EmptySeq
    <3>2. s[Len(s)].seq = Len(s)
      BY <3>1, <1>1 DEF Linked
    <3> QED BY <2>2, <3>2 DEF NextEvent, LastOf
  <2> QED BY <2>1, <2>2
<1>4. e.prev = IF Len(s) + 1 = 1 THEN NoEvent ELSE a[Len(s)]
  <2>1. CASE s = <<>>
    BY <2>1 DEF NextEvent
  <2>2. CASE s # <<>>
    <3>1. Len(s) \in 1 .. Len(s)
      BY <2>2, <1>1, EmptySeq
    <3> QED BY <2>2, <3>1, <1>1, <1>2 DEF NextEvent, LastOf
  <2> QED BY <2>1, <2>2
<1> HIDE DEF e, a
<1>5. ASSUME NEW i \in DOMAIN a
      PROVE  a[i].seq = i /\ a[i].prev = IF i = 1 THEN NoEvent ELSE a[i - 1]
  <2>1. CASE i = Len(s) + 1
    BY <2>1, <1>1, <1>2, <1>3, <1>4
  <2>2. CASE i \in 1 .. Len(s)
    <3>1. s[i].seq = i /\ s[i].prev = IF i = 1 THEN NoEvent ELSE s[i - 1]
      BY <2>2, <1>1 DEF Linked
    <3>2. i # 1 => i - 1 \in 1 .. Len(s)
      BY <2>2, <1>1
    <3> QED BY <3>1, <3>2, <2>2, <1>2
  <2> QED BY <2>1, <2>2, <1>1, <1>2
<1> QED BY <1>5 DEF Linked, a, e

\* Appending to the pending events appends to what the transaction sees.
LEMMA AppendVisible ==
  ASSUME NEW S, NEW c \in Seq(S), NEW p \in Seq(S), NEW e \in S
  PROVE  c \o Append(p, e) = Append(c \o p, e)
<1>1. /\ Append(p, e) \in Seq(S) /\ Len(Append(p, e)) = Len(p) + 1
      /\ \A i \in 1 .. Len(p) : Append(p, e)[i] = p[i]
      /\ Append(p, e)[Len(p) + 1] = e
  OBVIOUS
<1>2. /\ c \o p \in Seq(S) /\ Len(c \o p) = Len(c) + Len(p)
      /\ \A i \in 1 .. Len(c) + Len(p) :
           (c \o p)[i] = IF i <= Len(c) THEN c[i] ELSE p[i - Len(c)]
  BY ConcatProperties
<1>3. /\ c \o Append(p, e) \in Seq(S)
      /\ Len(c \o Append(p, e)) = Len(c) + Len(p) + 1
      /\ \A i \in 1 .. Len(c) + Len(p) + 1 : (c \o Append(p, e))[i] =
           IF i <= Len(c) THEN c[i] ELSE Append(p, e)[i - Len(c)]
  BY <1>1, ConcatProperties
<1>4. /\ Append(c \o p, e) \in Seq(S)
      /\ Len(Append(c \o p, e)) = Len(c) + Len(p) + 1
      /\ \A i \in 1 .. Len(c) + Len(p) : Append(c \o p, e)[i] = (c \o p)[i]
      /\ Append(c \o p, e)[Len(c) + Len(p) + 1] = e
  BY <1>2
<1>5. Len(c) \in Nat /\ Len(p) \in Nat
  OBVIOUS
<1>6. ASSUME NEW i \in 1 .. Len(c) + Len(p) + 1
      PROVE  (c \o Append(p, e))[i] = Append(c \o p, e)[i]
  <2>1. CASE i = Len(c) + Len(p) + 1
    BY <2>1, <1>1, <1>3, <1>4, <1>5
  <2>2. CASE i \in 1 .. Len(c) + Len(p)
    <3>1. ~(i <= Len(c)) => i - Len(c) \in 1 .. Len(p)
      BY <2>2, <1>5
    <3> QED BY <3>1, <2>2, <1>1, <1>2, <1>3, <1>4
  <2> QED BY <2>1, <2>2, <1>5
<1> QED BY <1>3, <1>4, <1>6, SeqEqual

-------------------------------------------------------------------------------
(***************************************************************************)
(* Every step keeps the invariant.                                         *)
(***************************************************************************)

\* The parts of the assumption that the proofs use.
LEMMA Flows ==
  /\ ChainLock \notin Lock /\ NoTx \notin Tx /\ NoFlow \notin Flow
  /\ \A f \in Flow : f.locks \in Seq(Lock) /\ f.appends \in Nat \ {0}
BY AuditAssumption

\* The empty log satisfies the invariant.
LEMMA InitInvariant == Init => IInv
<1> SUFFICES ASSUME Init PROVE IInv
  OBVIOUS
<1>1. TypeOK
  <2>1. IsSequence(<<>>)
    BY DEF IsSequence
  <2> QED BY <2>1, Flows DEF TypeOK, Init, Active
<1>2. ChainLinked
  BY DEF Init, ChainLinked, Linked
<1>3. PendingExtendsChain /\ OneWriter /\ OwnEvents
  BY DEF Init, PendingExtendsChain, OneWriter, OwnEvents
<1>4. ChainLockLast
  BY Flows DEF Init, ChainLockLast, AllLocks
<1> QED BY <1>1, <1>2, <1>3, <1>4 DEF IInv

\* Ending a transaction keeps what the invariant says about transactions.
LEMMA EndsKeeps ==
  ASSUME IInv, NEW t \in Tx, Active(t), Ends(t), IsSequence(chain')
  PROVE  TypeOK' /\ OneWriter' /\ OwnEvents' /\ ChainLockLast'
<1>1. TypeOK'
  <2>1. IsSequence(<<>>)
    BY DEF IsSequence
  <2>2. IsSequence(chain)' /\ \A u \in Tx : IsSequence(pending[u])'
    <3>1. \A u \in Tx : pending'[u] = <<>> \/ pending'[u] = pending[u]
      BY DEF IInv, TypeOK, Ends
    <3>2. \A u \in Tx : IsSequence(pending[u])
      BY DEF IInv, TypeOK
    <3>3. \A u \in Tx : IsSequence(pending'[u])
      BY <2>1, <3>1, <3>2
    <3> QED BY <3>3 DEF IsSequence
  <2>3. /\ flow' \in [Tx -> Flow \cup {NoFlow}]
        /\ taken' \in [Tx -> Nat]
        /\ DOMAIN pending' = Tx
        /\ holder' \in [AllLocks -> Tx \cup {NoTx}]
    BY DEF IInv, TypeOK, Ends
  <2>4. \A u \in Tx :
          /\ Active(u)' => taken'[u] <= Len(flow'[u].locks)
          /\ ~Active(u)' => taken'[u] = 0 /\ pending'[u] = <<>>
    BY DEF IInv, TypeOK, Ends, Active
  <2>5. \A l \in AllLocks : holder'[l] \in Tx => Active(holder[l])'
    <3> SUFFICES ASSUME NEW l \in AllLocks, holder'[l] \in Tx
                 PROVE  Active(holder[l])'
      OBVIOUS
    <3>1. holder'[l] = holder[l] /\ holder[l] # t
      BY Flows DEF Ends
    <3>2. flow[holder[l]] # NoFlow
      BY <3>1 DEF IInv, TypeOK, Active
    <3> QED BY <3>1, <3>2 DEF IInv, TypeOK, Ends, Active
  <2> QED BY <2>2, <2>3, <2>4, <2>5 DEF TypeOK
<1>2. OneWriter'
  BY DEF IInv, TypeOK, OneWriter, Ends, AllLocks
<1>3. OwnEvents'
  BY DEF IInv, TypeOK, OwnEvents, Ends
<1>4. ChainLockLast'
  BY Flows DEF IInv, TypeOK, ChainLockLast, HasBusinessLocks, Active, Ends, AllLocks
<1> QED BY <1>1, <1>2, <1>3, <1>4

\* Beginning a transaction and taking a lock keep the invariant.
LEMMA LocksKeep ==
  ASSUME IInv, NEW t \in Tx,
         (\E f \in Flow : Begin(t, f)) \/ TakeLock(t) \/ TakeChain(t)
  PROVE  IInv'
<1>1. UNCHANGED <<chain, pending>>
  BY DEF Begin, TakeLock, TakeChain
<1>2. ChainLinked' /\ PendingExtendsChain' /\ OwnEvents'
  BY <1>1 DEF IInv, ChainLinked, PendingExtendsChain, OwnEvents
<1>3. (\A u \in Tx : IsSequence(pending[u])') /\ IsSequence(chain)'
  BY <1>1 DEF IInv, TypeOK, IsSequence
<1>4. CASE \E f \in Flow : Begin(t, f)
  <2>1. TypeOK'
    <3> PICK f \in Flow : Begin(t, f)
      BY <1>4
    <3>1. /\ flow' = [flow EXCEPT ![t] = f] /\ f # NoFlow
          /\ UNCHANGED <<chain, taken, pending, holder>>
          /\ taken[t] = 0 /\ f.locks \in Seq(Lock)
      BY Flows DEF IInv, TypeOK, Begin
    <3>2. \A u \in Tx :
            /\ Active(u)' => taken'[u] <= Len(flow'[u].locks)
            /\ ~Active(u)' => taken'[u] = 0 /\ pending'[u] = <<>>
      BY <3>1 DEF IInv, TypeOK, Active
    <3>3. \A l \in AllLocks : holder'[l] \in Tx => Active(holder[l])'
      BY <3>1 DEF IInv, TypeOK, Active
    <3>4. /\ flow' \in [Tx -> Flow \cup {NoFlow}]
          /\ taken' \in [Tx -> Nat]
          /\ DOMAIN pending' = Tx
          /\ holder' \in [AllLocks -> Tx \cup {NoTx}]
      BY <3>1 DEF IInv, TypeOK
    <3> QED BY <1>3, <3>2, <3>3, <3>4 DEF TypeOK
  <2>2. OneWriter'
    BY <1>4 DEF IInv, OneWriter, Begin
  <2>3. ChainLockLast'
    <3>1. holder[ChainLock] # t
      BY <1>4 DEF IInv, ChainLockLast, HasBusinessLocks, Begin
    <3> QED BY <1>4, <3>1
         DEF IInv, TypeOK, ChainLockLast, HasBusinessLocks, Active, Begin
  <2> QED BY <1>2, <2>1, <2>2, <2>3 DEF IInv
<1>5. CASE TakeLock(t)
  <2> DEFINE l == flow[t].locks[taken[t] + 1]
  <2>1. flow[t] \in Flow /\ taken[t] \in Nat /\ Len(flow[t].locks) \in Nat
    BY <1>5, Flows DEF IInv, TypeOK, TakeLock, Active
  <2>2. taken[t] + 1 \in 1 .. Len(flow[t].locks)
    BY <1>5, <2>1 DEF IInv, TypeOK, TakeLock, HasBusinessLocks
  <2>3. l \in Lock
    BY <2>1, <2>2, Flows
  <2>4. l \in AllLocks /\ l # ChainLock
    BY <2>3, Flows DEF AllLocks
  <2>5. /\ holder' = [holder EXCEPT ![l] = t]
        /\ taken' = [taken EXCEPT ![t] = @ + 1]
        /\ flow' = flow
    BY <1>5 DEF TakeLock
  <2> HIDE DEF l
  <2>6. TypeOK'
    <3>1. /\ flow' \in [Tx -> Flow \cup {NoFlow}]
          /\ taken' \in [Tx -> Nat]
          /\ DOMAIN pending' = Tx
          /\ holder' \in [AllLocks -> Tx \cup {NoTx}]
      <4>1. /\ flow \in [Tx -> Flow \cup {NoFlow}]
            /\ taken \in [Tx -> Nat]
            /\ DOMAIN pending = Tx
            /\ holder \in [AllLocks -> Tx \cup {NoTx}]
        BY DEF IInv, TypeOK
      <4>2. taken' \in [Tx -> Nat]
        BY <4>1, <2>1, <2>5
      <4>3. holder' \in [AllLocks -> Tx \cup {NoTx}]
        BY <4>1, <2>5
      <4> QED BY <4>1, <4>2, <4>3, <1>1, <2>5
    <3>2. flow[t] # NoFlow /\ taken'[t] = taken[t] + 1
      BY <1>5, <2>5 DEF IInv, TypeOK, TakeLock, Active
    <3>3. \A u \in Tx :
            /\ Active(u)' => taken'[u] <= Len(flow'[u].locks)
            /\ ~Active(u)' => taken'[u] = 0 /\ pending'[u] = <<>>
      BY <1>1, <2>1, <2>2, <2>5, <3>2 DEF IInv, TypeOK, Active
    <3>4. \A k \in AllLocks : holder'[k] \in Tx => Active(holder[k])'
      BY <2>5, <3>2 DEF IInv, TypeOK, Active
    <3> QED BY <1>3, <3>1, <3>3, <3>4 DEF TypeOK
  <2>7. OneWriter'
    BY <1>1, <2>4, <2>5 DEF IInv, TypeOK, OneWriter, AllLocks
  <2>8. ChainLockLast'
    <3>1. holder[ChainLock] # t
      BY <1>5 DEF IInv, ChainLockLast, TakeLock
    <3>2. holder'[ChainLock] = holder[ChainLock]
      BY <2>4, <2>5 DEF IInv, TypeOK, AllLocks
    <3>3. \A u \in Tx : u # t => taken'[u] = taken[u]
      BY <2>5 DEF IInv, TypeOK
    <3>4. taken'[t] >= 1
      BY <2>1, <2>5 DEF IInv, TypeOK
    <3>5. \A k \in Lock : holder'[k] = holder[k] \/ holder'[k] = t
      BY <2>5 DEF IInv, TypeOK, AllLocks
    <3>6. \A u \in Tx : u # t /\ HasBusinessLocks(u) => HasBusinessLocks(u)'
      BY <2>5, <3>3 DEF HasBusinessLocks, Active
    <3> QED BY <3>1, <3>2, <3>3, <3>4, <3>5, <3>6 DEF IInv, ChainLockLast
  <2> QED BY <1>2, <2>6, <2>7, <2>8 DEF IInv
<1>6. CASE TakeChain(t)
  <2>1. Active(t) /\ HasBusinessLocks(t) /\ holder[ChainLock] = NoTx
    <3>1. Active(t) /\ holder[ChainLock] = NoTx
      BY <1>6 DEF TakeChain, Wants
    <3>2. CASE ~HasBusinessLocks(t)
      <4>1. ChainLock = flow[t].locks[taken[t] + 1]
        BY <1>6, <3>2 DEF TakeChain, Wants
      <4>2. flow[t] \in Flow /\ taken[t] \in Nat
        BY <3>1, Flows DEF IInv, TypeOK, Active
      <4>3. taken[t] + 1 \in 1 .. Len(flow[t].locks)
        BY <3>1, <3>2, <4>2, Flows DEF IInv, TypeOK, HasBusinessLocks
      <4> QED BY <4>1, <4>2, <4>3, Flows
    <3> QED BY <3>1, <3>2
  <2>2. holder' = [holder EXCEPT ![ChainLock] = t] /\ UNCHANGED <<flow, taken>>
    BY <1>6 DEF TakeChain
  <2>3. TypeOK'
    BY <1>3, <2>1, <2>2, <1>1 DEF IInv, TypeOK, Active
  <2>4. OneWriter'
    BY <1>1, <2>1, Flows DEF IInv, OneWriter
  <2>5. ChainLockLast'
    BY <2>1, <2>2, Flows
       DEF IInv, TypeOK, ChainLockLast, HasBusinessLocks, Active, AllLocks
  <2> QED BY <1>2, <2>3, <2>4, <2>5 DEF IInv
<1> QED BY <1>4, <1>5, <1>6

\* Appending an audit event keeps the invariant.
LEMMA AppendKeeps ==
  ASSUME IInv, NEW t \in Tx, AppendEvent(t)
  PROVE  IInv'
<1> DEFINE p == pending[t]
           s == chain \o p
           e == NextEvent(t, s)
<1>1. /\ HasBusinessLocks(t) /\ Active(t) /\ holder[ChainLock] = t
      /\ pending' = [pending EXCEPT ![t] = Append(p, e)]
      /\ UNCHANGED <<chain, flow, taken, holder>>
  BY DEF AppendEvent, MayAppend, Visible, HasBusinessLocks
<1>2. IsSequence(chain) /\ IsSequence(p) /\ DOMAIN pending = Tx
  BY DEF IInv, TypeOK
<1>3. PICK S : chain \in Seq(S) /\ p \in Seq(S) /\ e \in S
  BY <1>2, CommonElements
<1>4. Linked(s)
  <2>1. CASE p = <<>>
    <3>1. s = chain
      BY <1>3, <2>1, ConcatEmptySeq
    <3> QED BY <3>1 DEF IInv, ChainLinked
  <2>2. CASE p # <<>>
    BY <2>2 DEF IInv, PendingExtendsChain
  <2> QED BY <2>1, <2>2
<1>5. s \in Seq(S) /\ NextEvent(t, s) \in S
  BY <1>3, ConcatProperties
<1>6. Linked(Append(s, e))
  BY <1>4, <1>5, NextEventLinks
<1>7. chain \o Append(p, e) = Append(s, e)
  BY <1>3, AppendVisible
<1>8. \A u \in Tx : u # t => pending[u] = <<>>
  BY <1>1 DEF IInv, OneWriter
<1>9. pending'[t] = Append(p, e) /\ \A u \in Tx : u # t => pending'[u] = pending[u]
  BY <1>1, <1>2
<1> HIDE DEF p, s, e
<1>10. PendingExtendsChain'
  <2>1. Linked(chain \o pending'[t])
    BY <1>6, <1>7, <1>9
  <2>2. \A u \in Tx : pending'[u] # <<>> => u = t
    BY <1>8, <1>9
  <2>3. chain' = chain
    BY <1>1
  <2>4. Linked(chain' \o pending'[t])
    BY <2>1, <2>3
  <2> QED BY <2>2, <2>4 DEF PendingExtendsChain
<1>11. OwnEvents'
  <2>1. e.by = t
    BY DEF e, NextEvent
  <2>2. /\ Len(Append(p, e)) = Len(p) + 1 /\ Len(p) \in Nat
        /\ \A i \in 1 .. Len(p) : Append(p, e)[i] = p[i]
        /\ Append(p, e)[Len(p) + 1] = e
    BY <1>3
  <2>3. \A i \in 1 .. Len(p) : p[i].by = t
    BY DEF IInv, OwnEvents, p
  <2>4. \A i \in 1 .. Len(p) + 1 : Append(p, e)[i].by = t
    <3> TAKE i \in 1 .. Len(p) + 1
    <3>1. CASE i = Len(p) + 1
      BY <3>1, <2>1, <2>2
    <3>2. CASE i \in 1 .. Len(p)
      BY <3>2, <2>2, <2>3
    <3> QED BY <3>1, <3>2, <2>2
  <2>5. \A u \in Tx : u # t => \A i \in 1 .. Len(pending'[u]) : pending'[u][i].by = u
    BY <1>9 DEF IInv, OwnEvents
  <2> QED BY <1>9, <2>2, <2>4, <2>5 DEF OwnEvents
<1>12. TypeOK'
  <2>1. IsSequence(Append(p, e))
    <3>1. Append(p, e) \in Seq(S)
      BY <1>3
    <3> QED BY <3>1, MemberIsSequence
  <2>2. IsSequence(chain)' /\ \A u \in Tx : IsSequence(pending[u])'
    <3>1. \A u \in Tx : IsSequence(pending'[u])
      BY <1>9, <2>1 DEF IInv, TypeOK
    <3>2. IsSequence(chain')
      BY <1>1, <1>2
    <3> QED BY <3>1, <3>2
  <2>3. DOMAIN pending' = Tx
    BY <1>1, <1>2
  <2>4. \A u \in Tx : ~Active(u)' => taken'[u] = 0 /\ pending'[u] = <<>>
    BY <1>1, <1>9 DEF IInv, TypeOK, Active
  <2>5. \A u \in Tx : Active(u)' => taken'[u] <= Len(flow'[u].locks)
    BY <1>1 DEF IInv, TypeOK, Active
  <2>6. \A l \in AllLocks : holder'[l] \in Tx => Active(holder[l])'
    BY <1>1 DEF IInv, TypeOK, Active
  <2>7. /\ flow' \in [Tx -> Flow \cup {NoFlow}]
        /\ taken' \in [Tx -> Nat]
        /\ holder' \in [AllLocks -> Tx \cup {NoTx}]
    BY <1>1 DEF IInv, TypeOK
  <2> QED BY <2>2, <2>3, <2>4, <2>5, <2>6, <2>7 DEF TypeOK
<1>13. ChainLinked' /\ ChainLockLast'
  BY <1>1 DEF IInv, ChainLinked, ChainLockLast, HasBusinessLocks, Active
<1>14. OneWriter'
  BY <1>1, <1>9 DEF IInv, OneWriter
<1> QED BY <1>10, <1>11, <1>12, <1>13, <1>14 DEF IInv

\* What a commit adds: the events of one transaction, linked to the chain.
LEMMA CommitAppends ==
  ASSUME IInv, NEW t \in Tx, Commit(t)
  PROVE  /\ Active(t)
         /\ pending[t] # <<>>
         /\ Linked(chain') /\ IsSequence(chain')
         /\ Len(chain') = Len(chain) + flow[t].appends
         /\ \A i \in Len(chain) + 1 .. Len(chain') : chain'[i].by = t
<1> DEFINE p == pending[t]
<1>1. Active(t) /\ Len(p) = flow[t].appends /\ chain' = chain \o p
  BY DEF Commit, AllAppended, HasBusinessLocks
<1>2. flow[t].appends \in Nat \ {0}
  BY <1>1, Flows DEF IInv, TypeOK, Active
<1>3. PICK S : chain \in Seq(S) /\ p \in Seq(S) /\ t \in S
  BY CommonElements DEF IInv, TypeOK
<1>4. p # <<>>
  BY <1>1, <1>2
<1>5. Linked(chain')
  BY <1>1, <1>4 DEF IInv, PendingExtendsChain
<1>6. /\ chain' \in Seq(S) /\ Len(chain') = Len(chain) + Len(p)
      /\ \A i \in 1 .. Len(chain) + Len(p) :
           chain'[i] = IF i <= Len(chain) THEN chain[i] ELSE p[i - Len(chain)]
  BY <1>1, <1>3, ConcatProperties
<1>7. IsSequence(chain')
  BY <1>6, MemberIsSequence
<1>8. \A i \in 1 .. Len(p) : p[i].by = t
  BY DEF IInv, OwnEvents
<1> HIDE DEF p
<1>9. \A i \in Len(chain) + 1 .. Len(chain') : chain'[i].by = t
  <2> TAKE i \in Len(chain) + 1 .. Len(chain')
  <2>1. Len(chain) \in Nat /\ Len(p) \in Nat
    BY <1>3
  <2>2. i - Len(chain) \in 1 .. Len(p) /\ i \in 1 .. Len(chain) + Len(p)
        /\ ~(i <= Len(chain))
    BY <2>1, <1>6
  <2> QED BY <2>2, <1>6, <1>8
<1> QED BY <1>1, <1>4, <1>5, <1>6, <1>7, <1>9 DEF p

\* Ending a transaction, with or without its effects, keeps the invariant.
LEMMA EndingKeeps ==
  ASSUME IInv, NEW t \in Tx, Commit(t) \/ Rollback(t) \/ BreakDeadlock(t)
  PROVE  IInv'
<1>1. CASE Commit(t)
  <2>1. /\ Active(t) /\ pending[t] # <<>>
        /\ Linked(chain') /\ IsSequence(chain') /\ Ends(t)
    BY <1>1, CommitAppends DEF Commit
  <2>2. TypeOK' /\ OneWriter' /\ OwnEvents' /\ ChainLockLast'
    BY <2>1, EndsKeeps
  <2>3. \A u \in Tx : pending'[u] = <<>>
    BY <2>1 DEF IInv, TypeOK, OneWriter, Ends
  <2>4. ChainLinked' /\ PendingExtendsChain'
    BY <2>1, <2>3 DEF ChainLinked, PendingExtendsChain, Linked
  <2> QED BY <2>2, <2>4 DEF IInv
<1>2. CASE Rollback(t) \/ BreakDeadlock(t)
  <2>1. Ends(t) /\ chain' = chain
    BY <1>2 DEF Rollback, BreakDeadlock
  <2>2. CASE Active(t)
    <3>1. IsSequence(chain')
      BY <2>1 DEF IInv, TypeOK
    <3>2. TypeOK' /\ OneWriter' /\ OwnEvents' /\ ChainLockLast'
      BY <2>1, <2>2, <3>1, EndsKeeps
    <3>3. \A u \in Tx : pending'[u] = <<>> \/ pending'[u] = pending[u]
      BY <2>1 DEF IInv, TypeOK, Ends
    <3>4. ChainLinked'
      BY <2>1 DEF IInv, ChainLinked, Linked
    <3>5. \A u \in Tx : pending'[u] # <<>> => Linked(chain' \o pending'[u])
      <4>1. \A u \in Tx : pending'[u] # <<>> => Linked(chain \o pending[u])
        BY <3>3 DEF IInv, PendingExtendsChain
      <4>2. \A u \in Tx : pending'[u] # <<>> => chain' \o pending'[u] = chain \o pending[u]
        BY <2>1, <3>3
      <4> QED BY <4>1, <4>2
    <3>6. PendingExtendsChain'
      BY <3>5 DEF PendingExtendsChain
    <3> QED BY <3>2, <3>4, <3>6 DEF IInv
  <2>3. CASE ~Active(t)
    BY <1>2, <2>3 DEF Rollback, BreakDeadlock, Deadlocked, WaitsFor, Wants
  <2> QED BY <2>2, <2>3
<1> QED BY <1>1, <1>2

\* The invariant is inductive.
LEMMA StepInvariant == IInv /\ [Next]_vars => IInv'
<1> SUFFICES ASSUME IInv, [Next]_vars PROVE IInv'
  OBVIOUS
<1>1. CASE Next
  BY <1>1, LocksKeep, AppendKeeps, EndingKeeps DEF Next
<1>2. CASE UNCHANGED vars
  <2>1. UNCHANGED <<chain, flow, taken, pending, holder>>
    BY <1>2 DEF vars
  <2>2. TypeOK'
    <3>1. IsSequence(chain)' /\ \A u \in Tx : IsSequence(pending[u])'
      BY <2>1 DEF IInv, TypeOK, IsSequence
    <3> QED BY <2>1, <3>1 DEF IInv, TypeOK, Active
  <2>3. ChainLinked'
    BY <2>1 DEF IInv, ChainLinked, Linked
  <2>4. PendingExtendsChain'
    <3>1. \A u \in Tx : pending'[u] # <<>> => Linked(chain' \o pending'[u])
      BY <2>1 DEF IInv, PendingExtendsChain
    <3> QED BY <3>1 DEF PendingExtendsChain
  <2>5. OneWriter' /\ OwnEvents' /\ ChainLockLast'
    BY <2>1 DEF IInv, OneWriter, OwnEvents, ChainLockLast, HasBusinessLocks, Active
  <2> QED BY <2>2, <2>3, <2>4, <2>5 DEF IInv
<1> QED BY <1>1, <1>2

-------------------------------------------------------------------------------
(***************************************************************************)
(* Theorems.                                                               *)
(***************************************************************************)

\* Every behaviour satisfies the inductive invariant.
THEOREM AuditInvariant == Spec => []IInv
BY InitInvariant, StepInvariant, PTL DEF Spec

\* The types, and that only transactions in progress hold locks and events.
THEOREM AuditTypeCorrect == Spec => []TypeOK
<1>1. IInv => TypeOK
  BY DEF IInv
<1> QED BY <1>1, AuditInvariant, PTL

\* Concurrent appends never fork the audit chain and never leave a gap.
THEOREM ChainNeverForks == Spec => []ChainLinked
<1>1. IInv => ChainLinked
  BY DEF IInv
<1> QED BY <1>1, AuditInvariant, PTL

\* What a transaction is about to commit always continues the chain.
THEOREM PendingAlwaysFits == Spec => []PendingExtendsChain
<1>1. IInv => PendingExtendsChain
  BY DEF IInv
<1> QED BY <1>1, AuditInvariant, PTL

-------------------------------------------------------------------------------
(***************************************************************************)
(* Who holds which lock, and what deadlocks take.                          *)
(***************************************************************************)

\* A transaction holds exactly the business locks it has counted.
Held ==
  \A t \in Tx :
    /\ Active(t) => \A i \in 1 .. taken[t] : holder[flow[t].locks[i]] = t
    /\ \A l \in Lock : holder[l] = t => \E i \in 1 .. taken[t] : flow[t].locks[i] = l

\* What an active transaction counts is in range.
LEMMA Counting ==
  ASSUME IInv, NEW t \in Tx, Active(t)
  PROVE  /\ flow[t] \in Flow /\ taken[t] \in Nat
         /\ Len(flow[t].locks) \in Nat /\ taken[t] <= Len(flow[t].locks)
         /\ \A i \in 1 .. Len(flow[t].locks) : flow[t].locks[i] \in Lock
BY Flows DEF IInv, TypeOK, Active

\* A transaction that ends releases what it holds, and nothing else.
LEMMA EndsHeld ==
  ASSUME IInv, Held, NEW t \in Tx, Ends(t)
  PROVE  Held'
<1>1. /\ flow' = [flow EXCEPT ![t] = NoFlow]
      /\ taken' = [taken EXCEPT ![t] = 0]
      /\ holder' = [l \in AllLocks |-> IF holder[l] = t THEN NoTx ELSE holder[l]]
  BY DEF Ends
<1>2. ASSUME NEW u \in Tx
      PROVE  /\ Active(u)' => \A i \in 1 .. taken'[u] : holder'[flow'[u].locks[i]] = u
             /\ \A l \in Lock : holder'[l] = u =>
                  \E i \in 1 .. taken'[u] : flow'[u].locks[i] = l
  <2>1. CASE u = t
    <3>1. flow'[u] = NoFlow /\ \A l \in Lock : holder'[l] # u
      BY <1>1, <2>1, Flows DEF IInv, TypeOK, AllLocks
    <3> QED BY <3>1 DEF Active
  <2>2. CASE u # t
    <3>1. flow'[u] = flow[u] /\ taken'[u] = taken[u]
      BY <1>1, <2>2 DEF IInv, TypeOK
    <3>2. \A l \in Lock : holder[l] = u <=> holder'[l] = u
      BY <1>1, <2>2, Flows DEF AllLocks
    <3>3. Active(u)' <=> Active(u)
      BY <3>1 DEF Active
    <3>4. Active(u) => \A i \in 1 .. taken[u] : flow[u].locks[i] \in Lock
      BY Counting
    <3> QED BY <3>1, <3>2, <3>3, <3>4 DEF Held
  <2> QED BY <2>1, <2>2
<1> QED BY <1>2 DEF Held

\* Held is inductive, relative to the invariant above.
LEMMA HeldKept ==
  ASSUME IInv, Held, [Next]_vars
  PROVE  Held'
<1>1. ASSUME NEW t \in Tx, NEW f \in Flow, Begin(t, f)
      PROVE  Held'
  <2>1. /\ flow' = [flow EXCEPT ![t] = f] /\ UNCHANGED <<taken, holder>>
        /\ taken[t] = 0
    BY <1>1 DEF Begin, IInv, TypeOK
  <2>2. \A u \in Tx : u # t => flow'[u] = flow[u] /\ (Active(u)' <=> Active(u))
    BY <2>1 DEF IInv, TypeOK, Active
  <2>3. 1 .. taken[t] = {}
    BY <2>1
  <2> QED BY <2>1, <2>2, <2>3 DEF Held
<1>2. ASSUME NEW t \in Tx, TakeLock(t)
      PROVE  Held'
  <2> DEFINE l == flow[t].locks[taken[t] + 1]
  <2>1. /\ Active(t) /\ taken[t] \in Nat /\ Len(flow[t].locks) \in Nat
        /\ taken[t] + 1 \in 1 .. Len(flow[t].locks) /\ l \in Lock
    BY <1>2, Counting DEF TakeLock, HasBusinessLocks
  <2>2. /\ holder[l] \in {NoTx, t} /\ holder' = [holder EXCEPT ![l] = t]
        /\ taken' = [taken EXCEPT ![t] = @ + 1] /\ flow' = flow
    BY <1>2 DEF TakeLock
  <2> HIDE DEF l
  <2>3. taken'[t] = taken[t] + 1 /\ \A u \in Tx : u # t => taken'[u] = taken[u]
    BY <2>2 DEF IInv, TypeOK
  <2>4. holder'[l] = t /\ \A k \in Lock : k # l => holder'[k] = holder[k]
    BY <2>1, <2>2 DEF IInv, TypeOK, AllLocks
  <2>5. ASSUME NEW u \in Tx, Active(u), NEW i \in 1 .. taken'[u]
        PROVE  holder'[flow[u].locks[i]] = u
    <3>1. CASE u = t /\ i = taken[t] + 1
      BY <2>4, <3>1 DEF l
    <3>2. CASE ~(u = t /\ i = taken[t] + 1)
      <4>1. i \in 1 .. taken[u] /\ flow[u].locks[i] \in Lock
        BY <2>1, <2>3, <2>5, <3>2, Counting
      <4>2. holder[flow[u].locks[i]] = u
        BY <2>5, <4>1 DEF Held
      <4>3. flow[u].locks[i] = l => u = t
        BY <2>2, <4>2, Flows
      <4> QED BY <2>4, <4>1, <4>2, <4>3
    <3> QED BY <3>1, <3>2
  <2>6. ASSUME NEW u \in Tx, NEW k \in Lock, holder'[k] = u
        PROVE  \E i \in 1 .. taken'[u] : flow[u].locks[i] = k
    <3>1. CASE k = l
      BY <2>1, <2>3, <2>4, <2>6, <3>1 DEF l
    <3>2. CASE k # l
      <4>1. PICK i \in 1 .. taken[u] : flow[u].locks[i] = k
        BY <2>4, <2>6, <3>2 DEF Held
      <4>2. taken[u] \in Nat /\ taken'[u] \in {taken[u], taken[u] + 1}
        BY <2>3 DEF IInv, TypeOK
      <4>3. i \in 1 .. taken'[u]
        BY <4>1, <4>2
      <4> QED BY <4>1, <4>3
    <3> QED BY <3>1, <3>2
  <2> QED BY <2>2, <2>5, <2>6 DEF Held, Active
<1>3. ASSUME NEW t \in Tx, TakeChain(t)
      PROVE  Held'
  <2>1. UNCHANGED <<flow, taken>> /\ \A k \in Lock : holder'[k] = holder[k]
    BY <1>3, Flows DEF TakeChain, IInv, TypeOK, AllLocks
  <2>2. \A u \in Tx : Active(u) => \A i \in 1 .. taken[u] : flow[u].locks[i] \in Lock
    BY Counting
  <2> QED BY <2>1, <2>2 DEF Held, Active
<1>4. ASSUME NEW t \in Tx, AppendEvent(t)
      PROVE  Held'
  BY <1>4 DEF AppendEvent, Held, Active
<1>5. ASSUME NEW t \in Tx, Commit(t) \/ Rollback(t) \/ BreakDeadlock(t)
      PROVE  Held'
  BY <1>5, EndsHeld DEF Commit, Rollback, BreakDeadlock
<1>6. CASE UNCHANGED vars
  BY <1>6 DEF vars, Held, Active
<1> QED BY <1>1, <1>2, <1>3, <1>4, <1>5, <1>6 DEF Next

\* A transaction holds the locks it has taken, and no others, throughout.
LEMMA HeldInvariant == Spec => [](IInv /\ Held)
<1>1. Init => Held
  BY Flows DEF Init, Held, Active, AllLocks
<1>2. IInv /\ Held /\ [Next]_vars => Held'
  BY HeldKept
<1> QED BY <1>1, <1>2, AuditInvariant, PTL DEF Spec

\* In a deadlock nobody waits for the audit lock: its holder waits for nothing.
LEMMA WaitsForBusiness ==
  ASSUME IInv, NEW D \in SUBSET Tx, Deadlocked(D), NEW t \in D
  PROVE  \E l \in Lock : Wants(t, l) /\ holder[l] \in D
<1>1. PICK u \in D : WaitsFor(t, u)
  BY DEF Deadlocked
<1>2. PICK l \in AllLocks : Wants(t, l) /\ holder[l] = u
  BY <1>1 DEF WaitsFor
<1>3. PICK k \in AllLocks : Wants(u, k)
  BY <1>1 DEF Deadlocked, WaitsFor
<1>4. l # ChainLock
  BY <1>2, <1>3 DEF IInv, ChainLockLast, Wants
<1> QED BY <1>1, <1>2, <1>4 DEF AllLocks

\* Who takes locks in order wants one above all those it holds.
LEMMA WantsAbove ==
  ASSUME IInv, Held, NEW rank \in Ranks, NEW t \in Tx, InOrder(flow[t].locks, rank),
         NEW l \in Lock, holder[l] = t, NEW k \in Lock, Wants(t, k)
  PROVE  rank[l] < rank[k]
<1>1. Active(t) /\ holder[k] # t
  BY DEF Wants
<1>2. /\ taken[t] \in Nat /\ Len(flow[t].locks) \in Nat /\ flow[t].locks \in Seq(Lock)
      /\ taken[t] <= Len(flow[t].locks)
  BY <1>1, Counting, Flows
<1>3. k = flow[t].locks[taken[t] + 1] /\ taken[t] + 1 \in DOMAIN flow[t].locks
  BY <1>2, Flows DEF Wants, HasBusinessLocks
<1>4. PICK i \in 1 .. taken[t] : flow[t].locks[i] = l
  BY DEF Held
<1>5. i \in DOMAIN flow[t].locks /\ i < taken[t] + 1
  BY <1>2, <1>4
<1>6. \A j \in 1 .. i : flow[t].locks[j] # k
  BY <1>1, <1>2, <1>4 DEF Held
<1>7. ~(rank[k] <= rank[l])
  BY <1>3, <1>4, <1>5, <1>6 DEF InOrder
<1>8. rank[k] \in Int /\ rank[l] \in Int
  <2>1. Cardinality(Lock) \in Nat
    BY FS_CardinalityType, AuditAssumption
  <2> QED BY <2>1 DEF Ranks
<1> QED BY <1>7, <1>8

\* Transactions that take their locks in a common order do not deadlock: of
\* the locks they wait for, the highest would have to be above itself.
LEMMA OrderedFree ==
  ASSUME IInv, Held, NEW D \in SUBSET Tx, Deadlocked(D), NEW rank \in Ranks,
         \A t \in D : InOrder(flow[t].locks, rank)
  PROVE  FALSE
<1> DEFINE n == Cardinality(Lock)
           W == {l \in Lock : \E t \in D : Wants(t, l) /\ holder[l] \in D}
           T == {n - rank[l] : l \in W}
<1>1. n \in Nat /\ \A l \in Lock : rank[l] \in 1 .. n
  BY FS_CardinalityType, AuditAssumption DEF Ranks
<1>2. W # {}
  BY WaitsForBusiness DEF Deadlocked
<1> HIDE DEF n, W
<1>3. W \subseteq Lock
  BY DEF W
<1>4. T \subseteq Nat /\ T # {}
  BY <1>1, <1>2, <1>3
<1>5. PICK x \in T : \A y \in T : ~(<<y, x>> \in OpToRel(<, Nat))
  <2> HIDE DEF T
  <2> QED BY <1>4, NatLessThanWellFounded, WFMin
<1>6. PICK l \in W : x = n - rank[l]
  OBVIOUS
<1>7. \A k \in W : ~(n - rank[k] < n - rank[l])
  BY <1>4, <1>5, <1>6 DEF OpToRel
<1>8. PICK t \in D : holder[l] = t
  BY <1>6 DEF W
<1>9. PICK k \in Lock : Wants(t, k) /\ holder[k] \in D
  BY WaitsForBusiness
<1>10. k \in W
  BY <1>9 DEF W
<1>11. rank[l] < rank[k]
  BY <1>3, <1>6, <1>8, <1>9, WantsAbove
<1> QED BY <1>1, <1>3, <1>6, <1>7, <1>10, <1>11

\* A deadlock never goes through a transaction with at most one business
\* lock: one that waits for that lock holds nothing yet, and one that holds it
\* can only wait for the audit lock, whose holder waits for nothing.  Nor does it
\* go through transactions that all take their locks in one order.
THEOREM DeadlocksCross == Spec => []OnlyCrossedLocksDeadlock
<1>1. ASSUME IInv, NEW D \in SUBSET Tx, Deadlocked(D),
             NEW t \in D, NEW u \in D, WaitsFor(t, u), ~(Len(flow[u].locks) > 1)
      PROVE  FALSE
  <2>1. \A v \in Tx : holder[ChainLock] = v => \A l \in AllLocks : ~Wants(v, l)
    BY <1>1 DEF IInv, ChainLockLast, Wants
  <2>2. PICK l \in AllLocks : holder[l] = u
    BY <1>1 DEF WaitsFor
  <2>3. PICK v \in D : WaitsFor(u, v)
    BY <1>1 DEF Deadlocked
  <2>4. PICK k \in AllLocks : Wants(u, k) /\ holder[k] = v
    BY <2>3 DEF WaitsFor
  <2>5. l \in Lock
    BY <2>1, <2>2, <2>4 DEF AllLocks
  <2>6. HasBusinessLocks(u)
    <3>1. Active(u)
      BY <2>4 DEF Wants
    <3>2. taken[u] >= 1 /\ taken[u] \in Nat /\ taken[u] <= Len(flow[u].locks)
      BY <1>1, <2>2, <2>5, <3>1 DEF IInv, TypeOK, ChainLockLast
    <3>3. flow[u] \in Flow
      BY <1>1, <3>1 DEF IInv, TypeOK, Active
    <3>4. Len(flow[u].locks) \in Nat
      BY <3>3, Flows
    <3> QED BY <1>1, <3>1, <3>2, <3>4 DEF HasBusinessLocks
  <2>7. k = ChainLock
    BY <2>4, <2>6 DEF Wants
  <2>8. PICK w \in D : WaitsFor(v, w)
    BY <1>1, <2>3 DEF Deadlocked
  <2> QED BY <2>1, <2>4, <2>7, <2>8 DEF WaitsFor
<1>2. IInv /\ Held => OnlyCrossedLocksDeadlock
  BY <1>1, OrderedFree DEF OnlyCrossedLocksDeadlock
<1> QED BY <1>2, HeldInvariant, PTL

\* If every kind of transaction takes its locks in one order, as all but the
\* imports do by taking one at most, there is no deadlock at all.
THEOREM OrderedNeverDeadlock ==
  ASSUME NEW rank \in Ranks, \A f \in Flow : InOrder(f.locks, rank)
  PROVE  Spec => [](\A D \in SUBSET Tx : ~Deadlocked(D))
<1>1. ASSUME IInv, Held, NEW D \in SUBSET Tx, Deadlocked(D)
      PROVE  FALSE
  <2>1. \A t \in D : Active(t)
    BY <1>1 DEF Deadlocked, WaitsFor, Wants
  <2>2. \A t \in D : flow[t] \in Flow
    BY <1>1, <2>1, Counting
  <2> QED BY <1>1, <2>2, OrderedFree
<1>2. IInv /\ Held => \A D \in SUBSET Tx : ~Deadlocked(D)
  BY <1>1
<1> QED BY <1>2, HeldInvariant, PTL

\* The unique index of the log refuses no event of a transaction.
LEMMA NeverRefused ==
  ASSUME IInv, NEW t \in Tx, Active(t)
  PROVE  SequencesFree(t)
<1> SUFFICES ASSUME NEW i \in DOMAIN chain, NEW j \in DOMAIN pending[t]
             PROVE  chain[i].seq # pending[t][j].seq
  BY DEF SequencesFree
<1> DEFINE p == pending[t]
<1>1. PICK S : chain \in Seq(S) /\ p \in Seq(S)
  BY CommonElements DEF IInv, TypeOK
<1>2. p # <<>>
  BY <1>1
<1>3. Linked(chain) /\ Linked(chain \o p)
  BY <1>2 DEF IInv, ChainLinked, PendingExtendsChain
<1> HIDE DEF p
<1>4. /\ Len(chain) \in Nat /\ Len(p) \in Nat
      /\ DOMAIN chain = 1 .. Len(chain) /\ DOMAIN p = 1 .. Len(p)
  BY <1>1, LenProperties
<1>5. /\ DOMAIN (chain \o p) = 1 .. Len(chain) + Len(p)
      /\ Len(chain) + j \in 1 .. Len(chain) + Len(p)
      /\ (chain \o p)[Len(chain) + j] = p[j]
  BY <1>1, <1>4, ConcatProperties, LenProperties DEF p
<1>6. chain[i].seq = i /\ p[j].seq = Len(chain) + j
  BY <1>3, <1>4, <1>5 DEF Linked
<1> QED BY <1>4, <1>6 DEF p

\* Whatever interleaving has led here: unless there is a deadlock to break,
\* some transaction in progress can go on and need not fail.
THEOREM SomebodyGoesOn == Spec => []NeverStuck
<1>1. ASSUME IInv, NEW t \in Tx, Active(t), ~CanGoOn(t)
      PROVE  \E u \in Tx : Active(u) /\ WaitsFor(t, u)
  <2>1. /\ flow[t] \in Flow /\ taken[t] \in Nat /\ Len(flow[t].locks) \in Nat
        /\ taken[t] <= Len(flow[t].locks)
        /\ \A i \in 1 .. Len(flow[t].locks) : flow[t].locks[i] \in Lock
    BY <1>1, Counting
  <2>2. PICK l \in AllLocks : Wants(t, l) /\ holder[l] # NoTx
    <3>1. CASE ~HasBusinessLocks(t)
      <4> DEFINE l == flow[t].locks[taken[t] + 1]
      <4>1. l \in Lock
        BY <1>1, <2>1, <3>1 DEF HasBusinessLocks
      <4>2. holder[l] \notin {NoTx, t}
        BY <1>1, <3>1 DEF CanGoOn
      <4> QED BY <1>1, <3>1, <4>1, <4>2 DEF Wants, AllLocks
    <3>2. CASE HasBusinessLocks(t) /\ ~AllAppended(t)
      <4>1. holder[ChainLock] # t
        BY <1>1, <3>2 DEF CanGoOn, MayAppend
      <4>2. Wants(t, ChainLock)
        BY <1>1, <3>2, <4>1 DEF Wants
      <4> QED BY <1>1, <4>2 DEF CanGoOn, AllLocks
    <3>3. CASE AllAppended(t)
      BY <1>1, <3>3, NeverRefused DEF CanGoOn
    <3> QED BY <3>1, <3>2, <3>3
  <2>3. holder[l] \in Tx /\ Active(holder[l])
    BY <1>1, <2>2 DEF IInv, TypeOK
  <2> QED BY <2>2, <2>3 DEF WaitsFor
<1>2. ASSUME IInv, NEW t \in Tx, Active(t), \A u \in Tx : ~CanGoOn(u)
      PROVE  \E D \in SUBSET Tx : Deadlocked(D)
  <2> DEFINE D == {u \in Tx : Active(u)}
  <2>1. Deadlocked(D)
    BY <1>1, <1>2 DEF Deadlocked
  <2> QED BY <2>1
<1>3. IInv => NeverStuck
  BY <1>2 DEF NeverStuck
<1> QED BY <1>3, AuditInvariant, PTL

===============================================================================
