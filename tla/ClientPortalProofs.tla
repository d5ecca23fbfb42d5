-------------------------- MODULE ClientPortalProofs --------------------------
(***************************************************************************)
(* Safety theorems about the client portal's shares, for any number of     *)
(* members, matters, documents, requests and concurrent transactions.      *)
(***************************************************************************)
EXTENDS ClientPortal, TLAPS, FiniteSetTheorems

-------------------------------------------------------------------------------
(***************************************************************************)
(* Types.                                                                  *)
(***************************************************************************)

\* A grant or a revocation that is reading, or has read, the shares.
Deciding == {"reading", "checked"}

\* A transaction in flight serves a request, of the kind that gets so far.
Serving ==
  \A p \in Proc : pc[p] # "idle" =>
    /\ req[p] \in Request
    /\ pc[p] \in Deciding => Manages(req[p])
    /\ pc[p] \in {"listing", "answering"} => ~Manages(req[p])
    /\ shown[p] # {} => pc[p] \in {"listing", "answering"}

\* What requests carry: a list has no target, the others name their member's.
LEMMA Requests ==
  ASSUME NEW r \in Request
  PROVE  /\ r.op \in {"grant", "revoke", "list", "get"} /\ r.member \in Member
         /\ r.op \in {"grant", "revoke", "get"} => r.target \in Target
         /\ r # NoRequest /\ r # NoShare
<1>1. r \in RequestType /\ NoRequest \notin RequestType /\ NoShare \notin Request
  BY PortalAssumption
<1> QED
  BY <1>1 DEF RequestType, ManageRequest, GrantRequest, RevokeRequest, ListRequest,
     GetRequest, Target

\* The transactions other than p do not move when p does.
LEMMA OthersStay ==
  ASSUME TypeOK, NEW p \in Proc, Step(p), NEW q \in Proc, q # p
  PROVE  /\ pc'[q] = pc[q] /\ req'[q] = req[q]
         /\ found'[q] = found[q] /\ shown'[q] = shown[q]
BY DEF TypeOK, Step, Begin, Replay, Admit, FirstRead, SecondRead, Finds, CommitGrant,
   CommitRevoke, ListMatters, ListDocuments, Get, Answer, Fail, Moves, Ends

\* The id an id lookup finds is one of a stored share.
LEMMA IdsType ==
  ASSUME TypeOK, NEW m, NEW t
  PROVE  /\ IdsOf(m, t) \subseteq Request
         /\ \A id \in IdsOf(m, t) :
              \E s \in shares : s.id = id /\ s.member = m /\ s.target = t
BY DEF TypeOK, IdsOf

\* What a lookup finds.
LEMMA LookupFinds ==
  ASSUME TypeOK, Serving, NEW p \in Proc, Finds(p)
  PROVE  \E f \in Request \cup {NoShare} :
           /\ found' = [found EXCEPT ![p] = f]
           /\ f # NoShare =>
                \E s \in shares :
                  s.id = f /\ s.member = req[p].member /\ s.target = req[p].target
<1>1. PICK ids : ids = IdsOf(req[p].member, req[p].target)
  OBVIOUS
<1>2. PICK f : f = IF ids = {} THEN NoShare ELSE CHOOSE id \in ids : TRUE
  OBVIOUS
<1>3. f = NoShare \/ f \in ids
  BY <1>2
<1>4. found' = [found EXCEPT ![p] = f]
  BY <1>1, <1>2 DEF Finds
<1>5. ids \subseteq Request
  BY <1>1, IdsType
<1>6. f # NoShare =>
        \E s \in shares : s.id = f /\ s.member = req[p].member /\ s.target = req[p].target
  BY <1>1, <1>3, IdsType
<1> QED
  BY <1>3, <1>4, <1>5, <1>6

\* Every step keeps rows and transactions well typed.
LEMMA StepTypeOK ==
  ASSUME TypeOK, Serving, NEW p \in Proc, Step(p)
  PROVE  TypeOK' /\ Serving'
<1> USE DEF Manages, Deciding
<1>1. CASE Begin(p)
  <2>1. PICK r \in Request :
          /\ pc[p] = "idle" /\ pc' = [pc EXCEPT ![p] = "begun"]
          /\ req' = [req EXCEPT ![p] = r]
          /\ UNCHANGED <<shares, idem, found, shown>>
    BY <1>1 DEF Begin, Moves
  <2> QED
    BY <2>1 DEF TypeOK, Serving
<1>2. CASE Replay(p) \/ Answer(p) \/ Fail(p)
  <2>1. Ends(p) /\ UNCHANGED <<shares, idem>>
    BY <1>2 DEF Replay, Answer, Fail
  <2>2. TypeOK'
    BY <2>1 DEF Ends, TypeOK
  <2>3. Serving'
    BY <2>1 DEF Ends, TypeOK, Serving
  <2> QED
    BY <2>2, <2>3
<1>3. CASE Admit(p)
  BY <1>3 DEF Admit, Moves, TypeOK, Serving
<1>4. CASE FirstRead(p) \/ SecondRead(p)
  <2>1. PICK f \in Request \cup {NoShare} : found' = [found EXCEPT ![p] = f]
    <3>1. CASE Finds(p)
      BY <3>1, LookupFinds
    <3>2. CASE UNCHANGED found
      BY <3>2 DEF TypeOK
    <3> QED
      BY <1>4, <3>1, <3>2 DEF FirstRead, SecondRead
  <2>2. PICK to \in Deciding :
          /\ pc[p] \in {"admitted", "reading"} /\ pc' = [pc EXCEPT ![p] = to]
          /\ Manages(req[p])
          /\ UNCHANGED <<shares, idem, req, shown>>
    BY <1>4 DEF FirstRead, SecondRead, Moves, Deciding
  <2>3. TypeOK'
    BY <2>1, <2>2 DEF TypeOK, Deciding
  <2>4. Serving'
    BY <2>2 DEF TypeOK, Serving, Deciding
  <2> QED
    BY <2>3, <2>4
<1>5. CASE CommitGrant(p)
  <2>1. PICK r \in Request : r = req[p] /\ r.op = "grant"
    BY <1>5 DEF CommitGrant, Serving
  <2>2. Ends(p)
    BY <1>5 DEF CommitGrant
  <2>3. idem' \subseteq [req : Request, id : Request]
    <3>1. \E id \in Request : Record(r, id)
      BY <1>5, <2>1, IdsType DEF CommitGrant, TypeOK
    <3> QED
      BY <3>1 DEF Record, TypeOK
  <2>4. /\ shares' \subseteq [member : Member, target : Target, id : Request]
        /\ \A s, t \in shares' : s.member = t.member /\ s.target = t.target => s = t
    <3>1. CASE UNCHANGED shares
      BY <3>1 DEF TypeOK
    <3>2. CASE /\ ~Shared(r.member, r.target)
               /\ shares' = shares \cup
                    {[member |-> r.member, target |-> r.target, id |-> r]}
      <4>1. PICK new : new = [member |-> r.member, target |-> r.target, id |-> r]
        OBVIOUS
      <4>2. /\ new \in [member : Member, target : Target, id : Request]
            /\ new.member = r.member /\ new.target = r.target
        BY <2>1, <4>1, Requests
      <4>3. \A s \in shares : ~(s.member = new.member /\ s.target = new.target)
        BY <3>2, <4>2 DEF Shared
      <4>4. shares' = shares \cup {new}
        BY <3>2, <4>1
      <4> QED
        BY <4>2, <4>3, <4>4 DEF TypeOK
    <3> QED
      BY <1>5, <2>1, <3>1, <3>2 DEF CommitGrant
  <2> QED
    BY <2>2, <2>3, <2>4 DEF Ends, TypeOK, Serving
<1>6. CASE CommitRevoke(p)
  <2>1. PICK r \in Request : r = req[p] /\ r.op = "revoke"
    BY <1>6 DEF CommitRevoke, Serving
  <2>2. Ends(p) /\ shares' \subseteq shares /\ Record(r, found[p])
    BY <1>6, <2>1 DEF CommitRevoke
  <2>3. found[p] \in Request
    BY <1>6 DEF CommitRevoke, Deleted, TypeOK
  <2>4. idem' \subseteq [req : Request, id : Request]
    BY <2>2, <2>3 DEF Record, TypeOK
  <2> QED
    BY <2>2, <2>4 DEF Ends, TypeOK, Serving
<1>7. CASE ListMatters(p)
  <2>1. PICK x \in SUBSET Target : shown' = [shown EXCEPT ![p] = x]
    BY <1>7 DEF ListMatters, Target
  <2> QED
    BY <1>7, <2>1 DEF ListMatters, Moves, TypeOK, Serving
<1>8. CASE ListDocuments(p)
  <2>1. PICK x \in SUBSET Target : shown' = [shown EXCEPT ![p] = x]
    BY <1>8 DEF ListDocuments, Target, TypeOK
  <2> QED
    BY <1>8, <2>1 DEF ListDocuments, Moves, TypeOK, Serving
<1>9. CASE Get(p)
  <2>1. {req[p].target} \in SUBSET Target /\ req[p] \in Request
    BY <1>9, Requests DEF Get, Moves, Serving
  <2> QED
    BY <1>9, <2>1 DEF Get, Moves, TypeOK, Serving
<1> QED
  BY <1>1, <1>2, <1>3, <1>4, <1>5, <1>6, <1>7, <1>8, <1>9 DEF Step

\* The initial tables and transactions are well typed.
LEMMA InitTypeOK ==
  ASSUME Init
  PROVE  TypeOK /\ Serving
BY DEF Init, TypeOK, Serving

\* So are those of a step of which only the history is left to say.
LEMMA StutterTypeOK ==
  ASSUME TypeOK, Serving, UNCHANGED vars
  PROVE  TypeOK' /\ Serving'
BY DEF TypeOK, Serving, vars, work, Manages

\* Rows and transactions stay well typed.
THEOREM PortalTypes == Spec => [](TypeOK /\ Serving)
<1>1. TypeOK /\ Serving /\ [Next]_vars => (TypeOK /\ Serving)'
  BY StepTypeOK, StutterTypeOK DEF Next
<1> QED
  BY <1>1, InitTypeOK, PTL DEF Spec

-------------------------------------------------------------------------------
(***************************************************************************)
(* Accounts of grants and revocations.                                     *)
(***************************************************************************)

\* A grant inserted the share of this id.
Created(id) ==
  id \in Request /\ id.op = "grant" /\ [req |-> id, id |-> id] \in idem

Gone(id) == \E u \in idem : u.req.op = "revoke" /\ u.id = id

\* Rows and reads name shares some grant has created, of the right member and
\* target; a share is there exactly until a revocation is recorded for it.
AccountInv ==
  /\ \A row \in idem : Created(row.id)
  /\ \A s \in shares :
       /\ Created(s.id) /\ ~Gone(s.id)
       /\ s.member = s.id.member /\ s.target = s.id.target
  /\ \A p \in Proc : found[p] # NoShare =>
       /\ pc[p] \in Deciding /\ Created(found[p])
       /\ found[p].member = req[p].member /\ found[p].target = req[p].target
  /\ \A row \in idem : Gone(row.id) \/ \E s \in shares : s.id = row.id
  /\ \A u, v \in idem :
       u.req.op = "revoke" /\ v.req.op = "revoke" /\ u.id = v.id => u = v

\* A step that touches neither table.
LEMMA OtherStepsAccount ==
  ASSUME TypeOK, AccountInv, UNCHANGED <<shares, idem>>,
         \A q \in Proc : found'[q] # NoShare =>
           /\ pc'[q] \in Deciding /\ Created(found'[q])
           /\ found'[q].member = req'[q].member /\ found'[q].target = req'[q].target
  PROVE  AccountInv'
BY DEF AccountInv, Created, Gone

\* A row that is not a revocation, about a share that has been created.
LEMMA GrantAccounts ==
  ASSUME TypeOK, Serving, AccountInv, NEW p \in Proc, CommitGrant(p)
  PROVE  AccountInv'
<1>1. PICK r \in Request : r = req[p] /\ r.op = "grant"
  BY DEF CommitGrant, Serving
<1>2. ~Recorded(r) /\ Ends(p)
  BY <1>1 DEF CommitGrant
<1>3. \A q \in Proc : found'[q] # NoShare =>
        found'[q] = found[q] /\ pc'[q] = pc[q] /\ req'[q] = req[q]
  BY <1>2 DEF Ends, TypeOK
<1>4. ASSUME NEW x, Created(x), Record(r, x), UNCHANGED shares
      PROVE  AccountInv'
  <2>1. PICK n : n = [req |-> r, id |-> x]
    OBVIOUS
  <2>2. idem' = idem \cup {n} /\ n.req = r /\ n.id = x
    BY <1>4, <2>1 DEF Record
  <2>3. \A id : Created(id) => Created(id)'
    BY <2>2 DEF Created
  <2>4. \A id : Gone(id)' <=> Gone(id)
    BY <1>1, <2>2 DEF Gone
  <2>5. Gone(x) \/ \E s \in shares : s.id = x
    <3>1. PICK row \in idem : row.id = x
      BY <1>4 DEF Created
    <3> QED
      BY <3>1 DEF AccountInv
  <2> QED
    BY <1>1, <1>3, <1>4, <2>2, <2>3, <2>4, <2>5 DEF AccountInv
<1>5. CASE \E id \in IdsOf(r.member, r.target) : Record(r, id) /\ UNCHANGED shares
  <2>1. PICK id \in IdsOf(r.member, r.target) : Record(r, id) /\ UNCHANGED shares
    BY <1>5
  <2>2. \E s \in shares : s.id = id
    BY <2>1, IdsType
  <2>3. Created(id)
    BY <2>2 DEF AccountInv
  <2> QED
    BY <1>4, <2>1, <2>3
<1>6. CASE found[p] # NoShare /\ Record(r, found[p]) /\ UNCHANGED shares
  <2>1. Created(found[p])
    BY <1>6 DEF AccountInv
  <2> QED
    BY <1>4, <1>6, <2>1
<1>7. CASE /\ ~Shared(r.member, r.target)
           /\ shares' = shares \cup
                {[member |-> r.member, target |-> r.target, id |-> r]}
           /\ Record(r, r)
  <2>1. PICK n, new : /\ n = [req |-> r, id |-> r]
                      /\ new = [member |-> r.member, target |-> r.target, id |-> r]
    OBVIOUS
  <2>2. /\ idem' = idem \cup {n} /\ n.req = r /\ n.id = r
        /\ shares' = shares \cup {new} /\ new.id = r
        /\ new.member = r.member /\ new.target = r.target
    BY <1>7, <2>1 DEF Record
  <2>3. \A u \in idem : u.id # r
    <3> SUFFICES ASSUME NEW u \in idem, u.id = r PROVE FALSE
      OBVIOUS
    <3>1. n \in idem
      BY <2>1 DEF AccountInv, Created
    <3> QED
      BY <1>2, <2>2, <3>1 DEF Recorded, SameKind
  <2>4. \A id : Created(id) => Created(id)'
    BY <2>2 DEF Created
  <2>5. Created(r)'
    BY <1>1, <2>1, <2>2 DEF Created
  <2>6. \A id : Gone(id)' <=> Gone(id)
    BY <1>1, <2>2 DEF Gone
  <2>7. ~Gone(r)
    BY <2>3 DEF Gone
  <2> QED
    BY <1>1, <1>3, <2>2, <2>4, <2>5, <2>6, <2>7 DEF AccountInv
<1> QED
  BY <1>1, <1>5, <1>6, <1>7 DEF CommitGrant

\* A revocation is recorded with the share it deletes, which was still there.
LEMMA RevokeAccounts ==
  ASSUME TypeOK, Serving, AccountInv, NEW p \in Proc, CommitRevoke(p)
  PROVE  AccountInv'
<1>1. PICK r \in Request : r = req[p] /\ r.op = "revoke"
  BY DEF CommitRevoke, Serving
<1>2. PICK x : x = found[p]
  OBVIOUS
<1>3. /\ Ends(p) /\ shares' = {s \in shares : s.id # x}
      /\ \E s \in shares : s.id = x
      /\ Record(r, x)
  BY <1>1, <1>2 DEF CommitRevoke, Deleted
<1>4. \A q \in Proc : found'[q] # NoShare =>
        found'[q] = found[q] /\ pc'[q] = pc[q] /\ req'[q] = req[q]
  BY <1>3 DEF Ends, TypeOK
<1>5. PICK n : n = [req |-> r, id |-> x]
  OBVIOUS
<1>6. idem' = idem \cup {n} /\ n.req = r /\ n.id = x
  BY <1>3, <1>5 DEF Record
<1>7. Created(x) /\ ~Gone(x)
  BY <1>3 DEF AccountInv
<1>8. \A id : Created(id) => Created(id)'
  BY <1>6 DEF Created
<1>9. \A id : Gone(id)' <=> Gone(id) \/ id = x
  BY <1>1, <1>6 DEF Gone
<1>10. \A u \in idem : u.req.op = "revoke" => u.id # x
  BY <1>7 DEF Gone
<1> QED
  BY <1>1, <1>3, <1>4, <1>6, <1>7, <1>8, <1>9, <1>10 DEF AccountInv

\* Every step keeps the accounts.
LEMMA StepAccounts ==
  ASSUME TypeOK, Serving, AccountInv, NEW p \in Proc, Step(p)
  PROVE  AccountInv'
<1>1. CASE CommitGrant(p) \/ CommitRevoke(p)
  BY <1>1, GrantAccounts, RevokeAccounts
<1>2. CASE (FirstRead(p) \/ SecondRead(p)) /\ Finds(p)
  <2>1. PICK f \in Request \cup {NoShare} :
          /\ found' = [found EXCEPT ![p] = f]
          /\ f # NoShare =>
               \E s \in shares :
                 s.id = f /\ s.member = req[p].member /\ s.target = req[p].target
    BY <1>2, LookupFinds
  <2>2. PICK to \in Deciding :
          UNCHANGED <<shares, idem, req>> /\ pc' = [pc EXCEPT ![p] = to]
    BY <1>2 DEF FirstRead, SecondRead, Moves, Deciding
  <2>3. f # NoShare => Created(f) /\ f.member = req[p].member /\ f.target = req[p].target
    BY <2>1 DEF AccountInv
  <2> QED
    BY <2>1, <2>2, <2>3, OtherStepsAccount DEF TypeOK, AccountInv
<1>3. CASE Replay(p) \/ Answer(p) \/ Fail(p)
  <2>1. Ends(p) /\ UNCHANGED <<shares, idem>>
    BY <1>3 DEF Replay, Answer, Fail
  <2> QED
    BY <2>1, OtherStepsAccount DEF Ends, TypeOK, AccountInv
<1>4. CASE Begin(p) \/ Admit(p) \/ ListMatters(p) \/ ListDocuments(p) \/ Get(p)
  <2>1. UNCHANGED <<shares, idem, found>> /\ pc[p] \notin Deciding
    BY <1>4 DEF Begin, Admit, ListMatters, ListDocuments, Get, Moves, Deciding
  <2>2. found[p] = NoShare
    BY <2>1 DEF AccountInv
  <2>3. \A q \in Proc : q # p => pc'[q] = pc[q] /\ req'[q] = req[q]
    BY OthersStay
  <2> QED
    BY <2>1, <2>2, <2>3, OtherStepsAccount DEF AccountInv
<1>5. CASE (FirstRead(p) \/ SecondRead(p)) /\ UNCHANGED found
  <2>1. PICK to \in Deciding :
          UNCHANGED <<shares, idem, req, found>> /\ pc' = [pc EXCEPT ![p] = to]
    BY <1>5 DEF FirstRead, SecondRead, Moves, Deciding
  <2> QED
    BY <2>1, OtherStepsAccount DEF TypeOK, AccountInv
<1> QED
  BY <1>1, <1>2, <1>3, <1>4, <1>5 DEF Step, FirstRead, SecondRead

\* The accounts always hold.
LEMMA Accounts == Spec => []AccountInv
<1>1. Init => AccountInv
  BY DEF Init, AccountInv
<1>2. TypeOK /\ Serving /\ AccountInv /\ [Next]_vars => AccountInv'
  <2>1. ASSUME AccountInv, UNCHANGED vars
        PROVE  AccountInv'
    BY <2>1 DEF AccountInv, Created, Gone, vars, work
  <2> QED
    BY <2>1, StepAccounts DEF Next
<1> QED
  BY <1>1, <1>2, PortalTypes, PTL DEF Spec

\* Every share was granted by a recorded request for that member and target;
\* every answered grant is in force or undone by exactly one revocation, and a
\* revoked share never comes back.
THEOREM SharesAreAccounted == Spec => []SharesAccounted
<1>1. ASSUME AccountInv, NEW s \in shares
      PROVE  \E row \in idem :
               /\ row.req.op = "grant" /\ row.id = s.id
               /\ row.req.member = s.member /\ row.req.target = s.target
  <2>1. PICK row : row = [req |-> s.id, id |-> s.id]
    OBVIOUS
  <2>2. /\ row \in idem /\ s.id.op = "grant"
        /\ s.member = s.id.member /\ s.target = s.id.target
    BY <1>1, <2>1 DEF AccountInv, Created
  <2> QED
    BY <2>1, <2>2
<1>2. AccountInv => SharesAccounted
  <2> SUFFICES ASSUME AccountInv, NEW row \in idem,
                      NEW undone, undone = {r \in idem : r.req.op = "revoke" /\ r.id = row.id}
               PROVE  /\ (\E s \in shares : s.id = row.id) <=> undone = {}
                      /\ Cardinality(undone) <= 1
    BY <1>1 DEF SharesAccounted
  <2>1. undone = {} <=> ~Gone(row.id)
    BY DEF Gone
  <2>2. CASE undone = {}
    <3>1. Cardinality(undone) = 0
      BY <2>2, FS_EmptySet
    <3> QED
      BY <2>1, <2>2, <3>1 DEF AccountInv
  <2>3. ASSUME NEW u \in undone
        PROVE  Cardinality(undone) = 1
    <3>1. \A v \in undone : v = u
      BY DEF AccountInv
    <3>2. undone = {u}
      BY <3>1
    <3> QED
      BY <3>2, FS_Singleton
  <2>4. CASE undone # {}
    BY <2>1, <2>3, <2>4 DEF AccountInv
  <2> QED
    BY <2>2, <2>4
<1> QED
  BY <1>2, Accounts, PTL

-------------------------------------------------------------------------------
(***************************************************************************)
(* Documents shared without their matter.                                  *)
(***************************************************************************)

\* A crossing grant of document d to member m was in flight.
Crossed(m, d) == \E pair \in overlapped : pair[1].target = d /\ pair[1].member = m

\* Crossing requests in flight are on record; a grant of a document that has
\* asked has its matter, and a checked revocation of a matter leaves no document, unless
\* they crossed.
OverlapInv ==
  /\ \A p, q \in Proc :
       /\ Running(p) /\ Running(q) /\ Crossing(req[p], req[q])
       => <<req[p], req[q]>> \in overlapped
  /\ \A p \in Proc :
       /\ pc[p] \in Deciding /\ req[p].op = "grant" /\ req[p].target \in Document
       => \/ Shared(req[p].member, MatterOf[req[p].target])
          \/ Crossed(req[p].member, req[p].target)
  /\ \A p \in Proc : \A d \in Document :
       /\ pc[p] = "checked" /\ req[p].op = "revoke" /\ req[p].target = MatterOf[d]
       /\ Shared(req[p].member, d)
       => Crossed(req[p].member, d)
  /\ OrphansNeedOverlap

\* Steps that keep the shares and put no other transaction in flight.
LEMMA OtherStepsOverlap ==
  ASSUME OverlapInv, UNCHANGED <<shares, overlapped>>, NEW p \in Proc,
         \A q \in Proc \ {p} : pc'[q] = pc[q] /\ req'[q] = req[q],
         \/ pc'[p] = "idle"
         \/ /\ pc[p] # "idle" /\ req'[p] = req[p]
            /\ pc'[p] \notin Deciding
  PROVE  OverlapInv'
<1>1. \A m, t : Shared(m, t)' = Shared(m, t)
  BY DEF Shared
<1>2. \A m, d : Crossed(m, d)' = Crossed(m, d)
  BY DEF Crossed
<1>3. \A q \in Proc : Running(q)' => Running(q) /\ req'[q] = req[q]
  BY DEF Running
<1>4. \A q \in Proc :
        /\ pc'[q] \in Deciding => pc[q] \in Deciding /\ req'[q] = req[q]
        /\ pc'[q] = "checked" => pc[q] = "checked" /\ req'[q] = req[q]
  BY DEF Deciding
<1>5. OrphansNeedOverlap'
  BY DEF OverlapInv, OrphansNeedOverlap, Shared
<1> QED
  BY <1>1, <1>2, <1>3, <1>4, <1>5 DEF OverlapInv

\* A request that begins is put on record with all it crosses.
LEMMA BeginOverlaps ==
  ASSUME TypeOK, OverlapInv, NEW p \in Proc, Begin(p)
  PROVE  OverlapInv'
<1>1. PICK r \in Request :
        /\ pc[p] = "idle" /\ pc' = [pc EXCEPT ![p] = "begun"]
        /\ req' = [req EXCEPT ![p] = r]
        /\ overlapped' = overlapped \cup {pair \in Pairs(r) : Crossing(pair[1], pair[2])}
        /\ UNCHANGED shares
  BY DEF Begin, Moves
<1>2. \A m, t : Shared(m, t)' = Shared(m, t)
  BY <1>1 DEF Shared
<1>3. \A m, d : Crossed(m, d) => Crossed(m, d)'
  BY <1>1 DEF Crossed
<1>4. /\ pc'[p] = "begun" /\ req'[p] = r
      /\ \A q \in Proc \ {p} : pc'[q] = pc[q] /\ req'[q] = req[q]
  BY <1>1 DEF TypeOK
<1>5. ASSUME NEW q \in Proc, NEW s \in Proc, Running(q)', Running(s)',
             Crossing(req'[q], req'[s])
      PROVE  <<req'[q], req'[s]>> \in overlapped'
  <2>1. CASE q # p /\ s # p
    BY <1>1, <1>4, <1>5, <2>1 DEF OverlapInv, Running
  <2>2. CASE q = p /\ s # p
    <3>1. Running(s) /\ req'[s] = req[s] /\ req'[q] = r
      BY <1>4, <1>5, <2>2 DEF Running
    <3>2. <<r, req[s]>> \in Pairs(r)
      BY <3>1 DEF Pairs
    <3> QED
      BY <1>1, <1>5, <3>1, <3>2
  <2>3. CASE q # p /\ s = p
    <3>1. Running(q) /\ req'[q] = req[q] /\ req'[s] = r
      BY <1>4, <1>5, <2>3 DEF Running
    <3>2. <<req[q], r>> \in Pairs(r)
      BY <3>1 DEF Pairs
    <3> QED
      BY <1>1, <1>5, <3>1, <3>2
  <2>4. ~(q = p /\ s = p)
    BY <1>5 DEF Crossing
  <2> QED
    BY <2>1, <2>2, <2>3, <2>4
<1>6. \A q \in Proc :
        /\ pc'[q] \in Deciding => pc[q] \in Deciding /\ req'[q] = req[q]
        /\ pc'[q] = "checked" => pc[q] = "checked" /\ req'[q] = req[q]
  BY <1>4 DEF Deciding
<1>7. OrphansNeedOverlap'
  BY <1>1 DEF OverlapInv, OrphansNeedOverlap, Shared
<1> QED
  BY <1>2, <1>3, <1>5, <1>6, <1>7 DEF OverlapInv

\* The first statement of a grant establishes what the invariant says of it.
LEMMA FirstReadOverlaps ==
  ASSUME TypeOK, OverlapInv, NEW p \in Proc, FirstRead(p)
  PROVE  OverlapInv'
<1>1. /\ pc[p] = "admitted" /\ pc' = [pc EXCEPT ![p] = "reading"]
      /\ UNCHANGED <<shares, req, overlapped>>
      /\ req[p].op = "grant" => MayGrant(req[p])
  BY DEF FirstRead, Moves
<1>2. \A m, t : Shared(m, t)' = Shared(m, t)
  BY <1>1 DEF Shared
<1>3. \A m, d : Crossed(m, d)' = Crossed(m, d)
  BY <1>1 DEF Crossed
<1>4. \A q \in Proc : /\ Running(q)' => Running(q)
                      /\ q # p => pc'[q] = pc[q]
                      /\ pc'[q] = "checked" => pc[q] = "checked"
  BY <1>1 DEF Running, TypeOK
<1>5. OrphansNeedOverlap'
  BY <1>1 DEF OverlapInv, OrphansNeedOverlap, Shared
<1>6. req[p].op = "grant" /\ req[p].target \in Document =>
        Shared(req[p].member, MatterOf[req[p].target])
  BY <1>1 DEF MayGrant
<1> QED
  BY <1>1, <1>2, <1>3, <1>4, <1>5, <1>6 DEF OverlapInv

\* The second statement of a revocation does; a grant keeps what it has read.
LEMMA SecondReadOverlaps ==
  ASSUME TypeOK, OverlapInv, NEW p \in Proc, SecondRead(p)
  PROVE  OverlapInv'
<1>1. /\ pc[p] = "reading" /\ pc' = [pc EXCEPT ![p] = "checked"]
      /\ UNCHANGED <<shares, req, overlapped>>
      /\ req[p].op = "revoke" => MayRevoke(req[p])
  BY DEF SecondRead, Moves
<1>2. \A m, t : Shared(m, t)' = Shared(m, t)
  BY <1>1 DEF Shared
<1>3. \A m, d : Crossed(m, d)' = Crossed(m, d)
  BY <1>1 DEF Crossed
<1>4. \A q \in Proc : /\ Running(q)' => Running(q)
                      /\ q # p => pc'[q] = pc[q]
                      /\ pc'[q] \in Deciding => pc[q] \in Deciding
  BY <1>1 DEF Running, TypeOK, Deciding
<1>5. \A d \in Document : MatterOf[d] \in Matter
  BY PortalAssumption
<1>6. OrphansNeedOverlap'
  BY <1>1 DEF OverlapInv, OrphansNeedOverlap, Shared
<1>7. \A d \in Document : req[p].op = "revoke" /\ req[p].target = MatterOf[d] =>
        ~Shared(req[p].member, d)
  BY <1>1, <1>5 DEF MayRevoke
<1> QED
  BY <1>1, <1>2, <1>3, <1>4, <1>6, <1>7 DEF OverlapInv

\* A document whose matter's share is gone by now crossed the revocation.
LEMMA GrantOverlaps ==
  ASSUME TypeOK, Serving, OverlapInv, NEW p \in Proc, CommitGrant(p)
  PROVE  OverlapInv'
<1>1. PICK r \in Request : r = req[p] /\ r.op = "grant" /\ pc[p] = "checked"
  BY DEF CommitGrant, Serving
<1>2. Ends(p) /\ UNCHANGED overlapped
  BY <1>1 DEF CommitGrant
<1>3. /\ pc'[p] = "idle"
      /\ \A q \in Proc \ {p} : pc'[q] = pc[q] /\ req'[q] = req[q]
  BY <1>2 DEF Ends, TypeOK
<1>4. CASE UNCHANGED shares
  BY <1>2, <1>3, <1>4, OtherStepsOverlap
<1>5. CASE shares' = shares \cup {[member |-> r.member, target |-> r.target, id |-> r]}
  <2>1. PICK new : new = [member |-> r.member, target |-> r.target, id |-> r]
    OBVIOUS
  <2>2. shares' = shares \cup {new} /\ new.member = r.member /\ new.target = r.target
    BY <1>5, <2>1
  <2>3. \A m, t : Shared(m, t)' <=> Shared(m, t) \/ (m = r.member /\ t = r.target)
    BY <2>2 DEF Shared
  <2>4. \A m, d : Crossed(m, d)' = Crossed(m, d)
    BY <1>2 DEF Crossed
  <2>5. \A q \in Proc : /\ Running(q)' => Running(q) /\ req'[q] = req[q]
                        /\ pc'[q] = "checked" => pc[q] = "checked" /\ req'[q] = req[q]
                        /\ pc'[q] \in Deciding => pc[q] \in Deciding /\ req'[q] = req[q]
    BY <1>3 DEF Running, Deciding
  <2>6. ASSUME NEW q \in Proc, NEW d \in Document, pc'[q] = "checked",
               req'[q].op = "revoke", req'[q].target = MatterOf[d],
               r.member = req'[q].member, r.target = d
        PROVE  Crossed(r.member, d)
    <3>1. pc[q] = "checked" /\ req'[q] = req[q] /\ Running(q) /\ Running(p)
      BY <1>1, <2>5, <2>6 DEF Running
    <3>2. Crossing(req[p], req[q])
      BY <1>1, <2>6, <3>1 DEF Crossing
    <3>3. <<req[p], req[q]>> \in overlapped
      BY <3>1, <3>2 DEF OverlapInv
    <3>4. PICK pair : pair = <<req[p], req[q]>>
      OBVIOUS
    <3>5. pair \in overlapped /\ pair[1] = r
      BY <1>1, <3>3, <3>4
    <3> QED
      BY <2>6, <3>5 DEF Crossed
  <2>7. r.target \in Document =>
          Shared(r.member, MatterOf[r.target]) \/ Crossed(r.member, r.target)
    BY <1>1 DEF OverlapInv, Deciding
  <2>8. OrphansNeedOverlap'
    <3> SUFFICES ASSUME NEW s \in shares', s.target \in Document,
                        ~Shared(s.member, MatterOf[s.target])'
                 PROVE  Crossed(s.member, s.target)'
      BY DEF OrphansNeedOverlap, Crossed
    <3>1. ~Shared(s.member, MatterOf[s.target])
      BY <2>3
    <3>2. CASE s \in shares
      <4>1. Crossed(s.member, s.target)
        BY <3>1, <3>2 DEF OverlapInv, OrphansNeedOverlap, Crossed
      <4> QED
        BY <2>4, <4>1
    <3>3. CASE s = new
      BY <2>2, <2>4, <2>7, <3>1, <3>3
    <3> QED
      BY <2>2, <3>2, <3>3
  <2>9. ASSUME NEW q \in Proc, NEW g, g = req'[q], pc'[q] \in Deciding,
               g.op = "grant", g.target \in Document
        PROVE  Shared(g.member, MatterOf[g.target])' \/ Crossed(g.member, g.target)'
    <3>1. Shared(g.member, MatterOf[g.target]) \/ Crossed(g.member, g.target)
      BY <2>5, <2>9 DEF OverlapInv
    <3> QED
      BY <2>3, <2>4, <3>1
  <2>10. ASSUME NEW q \in Proc, NEW v, v = req'[q], NEW d \in Document,
                pc'[q] = "checked", v.op = "revoke", v.target = MatterOf[d],
                Shared(v.member, d)'
         PROVE  Crossed(v.member, d)'
    <3>1. CASE Shared(v.member, d)
      <4>1. Crossed(v.member, d)
        BY <2>5, <2>10, <3>1 DEF OverlapInv
      <4> QED
        BY <2>4, <4>1
    <3>2. CASE v.member = r.member /\ d = r.target
      <4>1. Crossed(r.member, d)
        BY <2>6, <2>10, <3>2
      <4> QED
        BY <2>4, <3>2, <4>1
    <3> QED
      BY <2>3, <2>10, <3>1, <3>2
  <2>11. ASSUME NEW q \in Proc, NEW s \in Proc, Running(q)', Running(s)',
                Crossing(req'[q], req'[s])
         PROVE  <<req'[q], req'[s]>> \in overlapped'
    BY <1>2, <2>5, <2>11 DEF OverlapInv
  <2> QED
    BY <2>8, <2>9, <2>10, <2>11 DEF OverlapInv
<1> QED
  BY <1>1, <1>4, <1>5 DEF CommitGrant

\* A document left without its matter crossed the revocation: if its grant had
\* ended, the revocation would have seen it.
LEMMA RevokeOverlaps ==
  ASSUME TypeOK, Serving, AccountInv, OverlapInv, NEW p \in Proc, CommitRevoke(p)
  PROVE  OverlapInv'
<1>1. PICK r \in Request : r = req[p] /\ r.op = "revoke" /\ pc[p] = "checked"
  BY DEF CommitRevoke, Serving
<1>2. PICK x : x = found[p]
  OBVIOUS
<1>3. /\ Ends(p) /\ UNCHANGED overlapped
      /\ shares' = {s \in shares : s.id # x}
      /\ \E s \in shares : s.id = x
  BY <1>1, <1>2 DEF CommitRevoke, Deleted
<1>4. /\ pc'[p] = "idle"
      /\ \A q \in Proc \ {p} : pc'[q] = pc[q] /\ req'[q] = req[q]
  BY <1>3 DEF Ends, TypeOK
<1>5. \A s \in shares : s.id = x => s.member = r.member /\ s.target = r.target
  <2>1. x # NoShare
    BY <1>3, PortalAssumption DEF TypeOK
  <2>2. x.member = r.member /\ x.target = r.target
    BY <1>1, <1>2, <2>1 DEF AccountInv
  <2> QED
    BY <2>2 DEF AccountInv
<1>6. \A m, t : /\ Shared(m, t)' => Shared(m, t)
                /\ Shared(m, t) => Shared(m, t)' \/ (m = r.member /\ t = r.target)
  BY <1>3, <1>5 DEF Shared
<1>7. \A m, d : Crossed(m, d)' = Crossed(m, d)
  BY <1>3 DEF Crossed
<1>8. \A q \in Proc : /\ Running(q)' => Running(q) /\ req'[q] = req[q]
                      /\ pc'[q] = "checked" => pc[q] = "checked" /\ req'[q] = req[q]
                      /\ pc'[q] \in Deciding => pc[q] \in Deciding /\ req'[q] = req[q]
  BY <1>4 DEF Running, Deciding
<1>9. ASSUME NEW q \in Proc, NEW g, g = req'[q], pc'[q] \in Deciding,
             g.op = "grant", g.target \in Document
      PROVE  Shared(g.member, MatterOf[g.target])' \/ Crossed(g.member, g.target)'
  <2>1. Shared(g.member, MatterOf[g.target]) \/ Crossed(g.member, g.target)
    BY <1>8, <1>9 DEF OverlapInv
  <2>2. CASE g.member = r.member /\ MatterOf[g.target] = r.target
    <3>1. Running(p) /\ Running(q) /\ req[q] = g
      BY <1>1, <1>8, <1>9 DEF Running, Deciding
    <3>2. Crossing(req[q], req[p])
      BY <1>1, <1>9, <2>2, <3>1 DEF Crossing
    <3>3. PICK pair : pair = <<req[q], req[p]>>
      OBVIOUS
    <3>4. pair \in overlapped /\ pair[1] = g
      BY <3>1, <3>2, <3>3 DEF OverlapInv
    <3>5. Crossed(g.member, g.target)
      BY <3>4 DEF Crossed
    <3> QED
      BY <1>7, <3>5
  <2> QED
    BY <1>6, <1>7, <2>1, <2>2
<1>10. ASSUME NEW q \in Proc, NEW v, v = req'[q], NEW d \in Document,
              pc'[q] = "checked", v.op = "revoke", v.target = MatterOf[d],
              Shared(v.member, d)'
       PROVE  Crossed(v.member, d)'
  <2>1. Shared(v.member, d)
    BY <1>6, <1>10
  <2>2. Crossed(v.member, d)
    BY <1>8, <1>10, <2>1 DEF OverlapInv
  <2> QED
    BY <1>7, <2>2
<1>11. ASSUME NEW q \in Proc, NEW s \in Proc, Running(q)', Running(s)',
              Crossing(req'[q], req'[s])
       PROVE  <<req'[q], req'[s]>> \in overlapped'
  BY <1>3, <1>8, <1>11 DEF OverlapInv
<1>12. OrphansNeedOverlap'
  <2> SUFFICES ASSUME NEW s \in shares', s.target \in Document,
                      ~Shared(s.member, MatterOf[s.target])'
               PROVE  Crossed(s.member, s.target)'
    BY DEF OrphansNeedOverlap, Crossed
  <2>1. s \in shares /\ Shared(s.member, s.target)
    BY <1>3 DEF Shared
  <2>2. CASE Shared(s.member, MatterOf[s.target])
    <3>1. s.member = r.member /\ MatterOf[s.target] = r.target
      BY <1>6, <2>2
    <3>2. Crossed(s.member, s.target)
      BY <1>1, <2>1, <3>1 DEF OverlapInv
    <3> QED
      BY <1>7, <3>2
  <2>3. CASE ~Shared(s.member, MatterOf[s.target])
    <3>1. Crossed(s.member, s.target)
      BY <2>1, <2>3 DEF OverlapInv, OrphansNeedOverlap, Crossed
    <3> QED
      BY <1>7, <3>1
  <2> QED
    BY <2>2, <2>3
<1> QED
  BY <1>9, <1>10, <1>11, <1>12 DEF OverlapInv

\* Every step keeps the invariant.
LEMMA StepOverlaps ==
  ASSUME TypeOK, Serving, AccountInv, OverlapInv, NEW p \in Proc, Step(p)
  PROVE  OverlapInv'
<1>1. CASE Begin(p) \/ FirstRead(p) \/ SecondRead(p) \/ CommitGrant(p) \/ CommitRevoke(p)
  BY <1>1, BeginOverlaps, FirstReadOverlaps, SecondReadOverlaps, GrantOverlaps,
     RevokeOverlaps
<1>2. CASE Replay(p) \/ Answer(p) \/ Fail(p)
  <2>1. Ends(p) /\ UNCHANGED <<shares, overlapped>>
    BY <1>2 DEF Replay, Answer, Fail
  <2>2. pc'[p] = "idle"
    BY <2>1 DEF Ends, TypeOK
  <2> QED
    BY <2>1, <2>2, OthersStay, OtherStepsOverlap
<1>3. CASE Admit(p) \/ ListMatters(p) \/ ListDocuments(p) \/ Get(p)
  <2>1. UNCHANGED <<shares, overlapped>>
    BY <1>3 DEF Admit, ListMatters, ListDocuments, Get
  <2>2. pc[p] # "idle" /\ req'[p] = req[p] /\ pc'[p] \notin Deciding
    BY <1>3 DEF Admit, ListMatters, ListDocuments, Get, Moves, TypeOK, Deciding
  <2> QED
    BY <2>1, <2>2, OthersStay, OtherStepsOverlap
<1> QED
  BY <1>1, <1>2, <1>3 DEF Step

\* A document is shared without its matter only if its grant and the matter's
\* revocation were in flight together.
THEOREM OrphansOverlapped == Spec => []OrphansNeedOverlap
<1>1. Init => OverlapInv
  BY DEF Init, OverlapInv, OrphansNeedOverlap, Running, Deciding
<1>2. /\ TypeOK /\ Serving /\ AccountInv /\ OverlapInv
      /\ [Next]_vars
      => OverlapInv'
  <2>1. ASSUME OverlapInv, UNCHANGED vars
        PROVE  OverlapInv'
    BY <2>1 DEF OverlapInv, OrphansNeedOverlap, Running, Shared, Crossed, vars, work,
       history
  <2> QED
    BY <2>1, StepOverlaps DEF Next
<1>3. OverlapInv => OrphansNeedOverlap
  BY DEF OverlapInv
<1> QED
  BY <1>1, <1>2, <1>3, PortalTypes, Accounts, PTL DEF Spec

-------------------------------------------------------------------------------
(***************************************************************************)
(* What members are shown.                                                 *)
(***************************************************************************)

\* What a reading transaction has seen of the shares includes those there are
\* now; the matters it lists and the documents it shows were among them.
ShownInv ==
  /\ \A p \in Proc : pc[p] # "idle" /\ ~Manages(req[p]) => shares \subseteq during[p]
  /\ \A p \in Proc : \A t \in shown[p] :
       \E s \in during[p] : s.target = t /\ s.member = req[p].member
  /\ ShownWasShared

\* What an action adds to what its member is shown is shared.
LEMMA ShowsShared ==
  ASSUME TypeOK, Serving, NEW p \in Proc, Step(p), shown'[p] # {}
  PROVE  /\ pc[p] # "idle" /\ req'[p] = req[p] /\ UNCHANGED shares
         /\ \A t \in shown'[p] \ shown[p] : Shared(req[p].member, t)
         /\ \A d \in Document \cap shown'[p] :
              \/ d \in shown[p]
              \/ /\ Shared(req[p].member, d)
                 /\ MatterOf[d] \in shown[p] \/ Shared(req[p].member, MatterOf[d])
<1>1. ~Ends(p)
  BY DEF Ends, TypeOK
<1>2. pc[p] # "idle"
  <2>1. CASE Begin(p)
    BY <2>1 DEF Begin, Moves, TypeOK
  <2> QED
    BY <1>1, <2>1 DEF Step, Admit, FirstRead, SecondRead, ListMatters, ListDocuments, Get, Moves, Replay,
       CommitGrant, CommitRevoke, Answer, Fail
<1>3. CASE Admit(p) \/ FirstRead(p) \/ SecondRead(p)
  BY <1>2, <1>3 DEF Admit, FirstRead, SecondRead
<1>4. CASE ListMatters(p)
  <2>1. shown'[p] = {m \in Matter : Shared(req[p].member, m)}
    BY <1>4 DEF ListMatters, TypeOK
  <2> QED
    BY <1>2, <1>4, <2>1, PortalAssumption DEF ListMatters
<1>5. CASE ListDocuments(p)
  <2>1. shown'[p] = shown[p] \cup
          {d \in Document : MatterOf[d] \in shown[p] /\ Shared(req[p].member, d)}
    BY <1>5 DEF ListDocuments, TypeOK
  <2> QED
    BY <1>2, <1>5, <2>1 DEF ListDocuments
<1>6. CASE Get(p)
  <2>1. shown'[p] = {req[p].target} /\ MetadataVisible(req[p].member, req[p].target)
    BY <1>6 DEF Get, TypeOK
  <2> QED
    BY <1>2, <1>6, <2>1 DEF Get, MetadataVisible
<1>7. ~Begin(p)
  BY <1>2 DEF Begin, Moves
<1> QED
  BY <1>1, <1>3, <1>4, <1>5, <1>6, <1>7 DEF Step, Replay, CommitGrant, CommitRevoke,
     Answer, Fail

\* Every step keeps the invariant.
LEMMA StepShows ==
  ASSUME TypeOK, Serving, ShownInv, NEW p \in Proc, Step(p), Witness
  PROVE  ShownInv'
<1>1. TypeOK' /\ Serving'
  BY StepTypeOK
<1>2. \A q \in Proc :
        during'[q] = IF pc'[q] = "idle" \/ Manages(req'[q]) THEN {}
                     ELSE during[q] \cup shares'
  BY DEF Witness
<1>3. \A q \in Proc : shown'[q] # {} =>
        pc'[q] # "idle" /\ ~Manages(req'[q]) /\ during'[q] = during[q] \cup shares'
  <2>1. \A q \in Proc : shown'[q] # {} => pc'[q] # "idle" /\ ~Manages(req'[q])
    BY <1>1 DEF TypeOK, Serving, Manages
  <2> QED
    BY <1>2, <2>1
<1>4. \A q \in Proc : \A t :
        Shared(req[q].member, t) =>
          \E s \in shares : s.target = t /\ s.member = req[q].member
  BY DEF Shared
<1>5. ASSUME NEW q \in Proc, NEW t \in shown'[q]
      PROVE  \E s \in during'[q] : s.target = t /\ s.member = req'[q].member
  <2>1. during'[q] = during[q] \cup shares'
    BY <1>3, <1>5
  <2>2. CASE q # p
    <3>1. shown'[q] = shown[q] /\ req'[q] = req[q]
      BY <2>2, OthersStay
    <3> QED
      BY <1>5, <2>1, <3>1 DEF ShownInv
  <2>3. CASE q = p
    <3>1. /\ req'[p] = req[p] /\ shares' = shares
          /\ t \in shown[p] \/ Shared(req[p].member, t)
      BY <1>5, <2>3, ShowsShared
    <3> QED
      BY <1>4, <2>1, <2>3, <3>1 DEF ShownInv
  <2> QED
    BY <2>2, <2>3
<1>6. ASSUME NEW q \in Proc, NEW d \in shown'[q] \cap Document, NEW t \in {d, MatterOf[d]}
      PROVE  \E s \in during'[q] : s.target = t /\ s.member = req'[q].member
  <2>1. during'[q] = during[q] \cup shares'
    BY <1>3, <1>6
  <2>2. CASE q # p
    <3>1. shown'[q] = shown[q] /\ req'[q] = req[q]
      BY <2>2, OthersStay
    <3>2. \E s \in during[q] : s.target = t /\ s.member = req[q].member
      BY <1>6, <3>1 DEF ShownInv, ShownWasShared
    <3> QED
      BY <2>1, <3>1, <3>2
  <2>3. CASE q = p
    <3>1. /\ req'[p] = req[p] /\ shares' = shares
          /\ \/ d \in shown[p]
             \/ /\ Shared(req[p].member, d)
                /\ MatterOf[d] \in shown[p] \/ Shared(req[p].member, MatterOf[d])
      BY <1>6, <2>3, ShowsShared
    <3>2. CASE d \in shown[p]
      <4>1. \E s \in during[p] : s.target = t /\ s.member = req[p].member
        BY <1>6, <3>2 DEF ShownInv, ShownWasShared
      <4> QED
        BY <2>1, <2>3, <3>1, <4>1
    <3>3. CASE t \in shown[p] \/ Shared(req[p].member, t)
      BY <1>4, <2>1, <2>3, <3>1, <3>3 DEF ShownInv
    <3> QED
      BY <1>6, <3>1, <3>2, <3>3
  <2> QED
    BY <2>2, <2>3
<1>7. ShownWasShared'
  BY <1>6 DEF ShownWasShared
<1>8. \A q \in Proc : pc'[q] # "idle" /\ ~Manages(req'[q]) => shares' \subseteq during'[q]
  BY <1>2
<1> QED
  BY <1>5, <1>7, <1>8 DEF ShownInv, Manages

\* A member is only shown what was shared with that member while the request was
\* served: the document and its matter.
THEOREM OnlySharedIsShown == Spec => []ShownWasShared
<1>1. Init => ShownInv
  BY DEF Init, ShownInv, ShownWasShared
<1>2. TypeOK /\ Serving /\ ShownInv /\ [Next]_vars => ShownInv'
  <2>1. ASSUME ShownInv, UNCHANGED vars
        PROVE  ShownInv'
    BY <2>1 DEF ShownInv, ShownWasShared, vars, work, history, Manages
  <2> QED
    BY <2>1, StepShows DEF Next
<1>3. ShownInv => ShownWasShared
  BY DEF ShownInv
<1> QED
  BY <1>1, <1>2, <1>3, PortalTypes, PTL DEF Spec

===============================================================================
