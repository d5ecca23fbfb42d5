--------------------------- MODULE ProspectsProofs ----------------------------
(***************************************************************************)
(* Theorems about Prospects, for any files, suggestions and number of      *)
(* transactions in flight: the tables keep their keys, possible duplicates *)
(* are found unless their imports ran apart, and decisions are counted.    *)
(***************************************************************************)
EXTENDS Prospects, FiniteSetTheorems, WellFoundedInduction, TLAPS

-------------------------------------------------------------------------------
(***************************************************************************)
(* The inductive invariant.                                                *)
(***************************************************************************)

States ==
  {"idle", "begun", "importing", "compared", "deciding", "pending", "applied"}

Typed ==
  /\ sending \in Scenarios
  /\ recorded \subseteq sending /\ IsFiniteSet(recorded)
  /\ status \in [Suggestion -> {"PENDING", "APPROVED", "REJECTED"}]
  /\ applied \in [Suggestion -> Nat]
  /\ pc \in [Proc -> States]
  /\ req \in [Proc -> sending \cup {NoRequest}]
  /\ DOMAIN done = Proc /\ DOMAIN pairs = Proc /\ DOMAIN target = Proc

\* What a transaction has at each of its steps.
Session(p) ==
  /\ pc[p] = "idle" => req[p] = NoRequest /\ done[p] = 0
  /\ pc[p] # "idle" => req[p] \in sending
  /\ pc[p] \in {"importing", "compared"} =>
       req[p].op = "import" /\ done[p] \in 0 .. Len(req[p].rows)
  /\ pc[p] \notin {"importing", "compared"} => done[p] = 0
  /\ pc[p] \in {"deciding", "pending", "applied"} => req[p].op = "decide"
  /\ pc[p] = "compared" => done[p] = Len(req[p].rows)
  /\ pc[p] # "compared" => pairs[p] = {}
  /\ pc[p] # "applied" => target[p] = {}
  /\ pc[p] = "applied" => req[p].decision = "APPROVE"

Sessions == \A p \in Proc : Session(p)

\* A key belongs to one request, recorded or in flight.
Keys ==
  /\ \A r, s \in recorded : r.op = s.op /\ r.key = s.key => r = s
  /\ \A p \in Proc : Registered(p) => ~Recorded(req[p])
  /\ \A p, q \in Proc :
       p # q /\ Registered(p) /\ Registered(q) =>
         req[p].op # req[q].op \/ req[p].key # req[q].key

HoldsApart == \A p, q \in Proc : p # q => Holds(p) \cap Holds(q) = {}

\* Requests that compete are known to overlap.
InFlight ==
  \A p, q \in Proc :
    p # q /\ Running(p) /\ Running(q) /\ Compete(req[p], req[q]) =>
      {req[p], req[q]} \in overlapped

Firms(orgs) == {o.firm : o \in orgs}

OneEach(orgs) == \A o, u \in orgs : o.firm = u.firm => o = u

Organizations ==
  /\ organizations \subseteq [firm : Firm, name : Name]
  /\ OneEach(organizations)

\* A contact is what its import made of its row.
Contacts ==
  /\ \A c \in contacts :
       /\ c.firm \in Firms(organizations)
       /\ \E r \in recorded : r.op = "import" /\ c \in Created(r, Len(r.rows))
  /\ UNION candidates \subseteq Ids(contacts)
  /\ decisionMakers \subseteq Ids(contacts)
  /\ \A p \in Proc :
       /\ UNION pairs[p] \subseteq Ids(contacts \cup Created(req[p], done[p]))
       /\ target[p] \subseteq Ids(contacts)

\* Who is about to decide overlaps with all who have decided.
Decided ==
  \A p \in Proc : pc[p] \in {"pending", "applied"} =>
    \A r \in DecisionsOf(req[p].suggestion) : {r, req[p]} \in overlapped

\* The imports r and s ran at the same time, and name no common firm.
Apart(r, s) ==
  /\ {r, s} \in overlapped
  /\ FirmsOf(r.rows, Len(r.rows)) \cap FirmsOf(s.rows, Len(s.rows)) = {}

\* A transaction that has compared has found what there is to find, but for the
\* contacts of imports it was apart from.
Compared ==
  \A p \in Proc : pc[p] = "compared" =>
    LET new == Created(req[p], done[p]) IN
    \A c \in new : \A d \in contacts \cup new :
      Duplicates(c, d, Upserted(req[p], done[p])) =>
        \/ {c.id, d.id} \in pairs[p]
        \/ d \in contacts /\ Apart(req[p], ImportOf(d))

IInv ==
  /\ Typed /\ Sessions /\ Keys /\ HoldsApart /\ InFlight
  /\ Organizations /\ Contacts
  /\ Decided /\ DecidedOnce /\ AppliedOnce
  /\ Compared /\ DuplicatesFound

-------------------------------------------------------------------------------
(***************************************************************************)
(* Requests and organizations.                                             *)
(***************************************************************************)

\* A request has the fields of its operation; an import names organizations.
LEMMA Kinds ==
  ASSUME NEW r \in Request
  PROVE  /\ r.op \in {"import", "decide"}
         /\ r.op = "decide" => r \in DecideRequest
         /\ r.op = "import" =>
              /\ r \in ImportRequest
              /\ Len(r.rows) \in Nat
              /\ \A i \in 1 .. Len(r.rows) :
                   r.rows[i].org \in Name /\ FirmOf[r.rows[i].org] \in Firm
<1>1. r \in ImportRequest \/ r \in DecideRequest
  BY ProspectsAssumption
<1>2. r.op = "decide" => r \in DecideRequest
  BY <1>1 DEF ImportRequest, DecideRequest
<1>3. r.op = "import" => r \in ImportRequest
  BY <1>1 DEF ImportRequest, DecideRequest
<1>4. r \in ImportRequest => r.rows \in Seq(Row)
  BY DEF ImportRequest
<1>5. r \in ImportRequest =>
        /\ Len(r.rows) \in Nat
        /\ \A i \in 1 .. Len(r.rows) : r.rows[i] \in Row
  BY <1>4
<1>6. \A row \in Row : row.org \in Name /\ FirmOf[row.org] \in Firm
  BY ProspectsAssumption
<1> QED
  BY <1>1, <1>2, <1>3, <1>5, <1>6 DEF ImportRequest, DecideRequest

\* The organization of a firm.
Org(orgs, f) == CHOOSE o \in orgs : o.firm = f

\* The organization of a firm is the one there is.
LEMMA OrgIs ==
  ASSUME NEW orgs, OneEach(orgs), NEW o \in orgs
  PROVE  Org(orgs, o.firm) = o
BY DEF Org, OneEach

\* The name an import gives to an organization it inserts.
NameIn(r, n, f) ==
  r.rows[CHOOSE i \in 1..n :
    FirmOf[r.rows[i].org] = f /\ \A j \in 1..(i - 1) : FirmOf[r.rows[j].org] # f].org

\* It is the name of the first row with that firm.
LEMMA NameIs ==
  ASSUME NEW r \in Request, r.op = "import", NEW n \in 0 .. Len(r.rows),
         NEW f \in FirmsOf(r.rows, n)
  PROVE  f \in Firm /\ NameIn(r, n, f) \in Name
<1>6. \E i \in 1 .. n :
        /\ FirmOf[r.rows[i].org] = f
        /\ \A j \in 1 .. (i - 1) : FirmOf[r.rows[j].org] # f
  <2> DEFINE T == {i \in 1 .. n : FirmOf[r.rows[i].org] = f}
  <2>1. Len(r.rows) \in Nat /\ n \in Nat
    BY Kinds
  <2>2. T \subseteq Nat /\ T # {}
    BY <2>1 DEF FirmsOf
  <2>3. PICK i \in T : \A j \in T : ~ (<<j, i>> \in OpToRel(<, Nat))
    <3> HIDE DEF T
    <3> QED BY <2>2, NatLessThanWellFounded, WFMin
  <2>4. \A j \in T : ~ (j < i)
    BY <2>2, <2>3 DEF OpToRel
  <2>5. i \in 1 .. n /\ FirmOf[r.rows[i].org] = f
    BY <2>3
  <2>6. \A j \in 1 .. (i - 1) : j \in 1 .. n /\ j < i
    <3> HIDE DEF T
    <3> QED BY <2>1, <2>5
  <2> QED
    BY <2>4, <2>5, <2>6
<1> DEFINE First(i) == /\ FirmOf[r.rows[i].org] = f
                       /\ \A j \in 1 .. (i - 1) : FirmOf[r.rows[j].org] # f
           first == CHOOSE i \in 1 .. n : First(i)
<1>1. \E i \in 1 .. n : First(i)
  BY <1>6
<1>2. first \in 1 .. n /\ First(first)
  <2> HIDE DEF First
  <2> QED BY <1>1
<1>3. NameIn(r, n, f) = r.rows[first].org
  BY DEF NameIn
<1>4. first \in 1 .. Len(r.rows)
  <2> HIDE DEF first
  <2> QED BY <1>2, Kinds
<1>5. FirmOf[r.rows[first].org] = f
  BY <1>2
<1> HIDE DEF first
<1> QED
  BY <1>3, <1>4, <1>5, Kinds

\* What an import has upserted: the organizations that were there, and one
\* for each other firm it names.
LEMMA UpsertedIs ==
  ASSUME Organizations, NEW r \in Request, r.op = "import", NEW n \in 0 .. Len(r.rows)
  PROVE  /\ Upserted(r, n) \subseteq [firm : Firm, name : Name]
         /\ OneEach(Upserted(r, n))
         /\ organizations \subseteq Upserted(r, n)
         /\ Firms(Upserted(r, n)) = Firms(organizations) \cup FirmsOf(r.rows, n)
         /\ \A f \in FirmsOf(r.rows, n) \ Firms(organizations) :
              [firm |-> f, name |-> NameIn(r, n, f)] \in Upserted(r, n)
<1> DEFINE New == {[firm |-> f, name |-> NameIn(r, n, f)] :
                     f \in FirmsOf(r.rows, n) \ Firms(organizations)}
<1>1. Upserted(r, n) = organizations \cup New
  BY DEF Upserted, NameIn, Firms
<1>2. \A f \in FirmsOf(r.rows, n) : f \in Firm /\ NameIn(r, n, f) \in Name
  BY NameIs
<1>3. New \subseteq [firm : Firm, name : Name]
  BY <1>2
<1>4. \A o \in New :
        /\ o.firm \in FirmsOf(r.rows, n) \ Firms(organizations)
        /\ o = [firm |-> o.firm, name |-> NameIn(r, n, o.firm)]
  OBVIOUS
<1>5. Firms(New) = FirmsOf(r.rows, n) \ Firms(organizations)
  <2>1. ASSUME NEW f \in FirmsOf(r.rows, n) \ Firms(organizations)
        PROVE  \E o \in New : o.firm = f
    <3>1. [firm |-> f, name |-> NameIn(r, n, f)] \in New
      OBVIOUS
    <3> HIDE DEF New
    <3> QED BY <3>1
  <2> HIDE DEF New
  <2> QED BY <1>4, <2>1 DEF Firms
<1>6. \A f \in FirmsOf(r.rows, n) \ Firms(organizations) :
        [firm |-> f, name |-> NameIn(r, n, f)] \in New
  OBVIOUS
<1> HIDE DEF New
<1>8. OneEach(New)
  BY <1>4 DEF OneEach
<1>7. Firms(organizations \cup New) = Firms(organizations) \cup Firms(New)
  BY DEF Firms
<1> QED
  BY <1>1, <1>3, <1>4, <1>5, <1>6, <1>7, <1>8 DEF Organizations, OneEach, Firms

-------------------------------------------------------------------------------
(***************************************************************************)
(* Steps that change no table.                                             *)
(***************************************************************************)

\* What a step of p leaves of the other transactions.
Others(p) ==
  \A q \in Proc \ {p} :
    /\ pc'[q] = pc[q] /\ req'[q] = req[q] /\ done'[q] = done[q]
    /\ pairs'[q] = pairs[q] /\ target'[q] = target[q]

Ended(p) ==
  /\ pc'[p] = "idle" /\ req'[p] = NoRequest
  /\ done'[p] = 0 /\ pairs'[p] = {} /\ target'[p] = {}

DomainsKept == DOMAIN done' = Proc /\ DOMAIN pairs' = Proc /\ DOMAIN target' = Proc

\* A transaction that ends leaves the others alone.
LEMMA EndsIs ==
  ASSUME Typed, NEW p \in Proc, Ends(p)
  PROVE  /\ Ended(p) /\ Others(p) /\ DomainsKept
         /\ pc' \in [Proc -> States] /\ req' \in [Proc -> sending \cup {NoRequest}]
BY DEF Typed, Ends, Ended, Others, DomainsKept, States

Moved(p, from, to) == pc[p] = from /\ pc'[p] = to

\* What each step does to its transaction.
LEMMA StepIs ==
  ASSUME Typed, NEW p \in Proc, Step(p)
  PROVE  /\ Others(p) /\ DomainsKept
         /\ pc' \in [Proc -> States]
         /\ \/ /\ Begin(p) /\ Moved(p, "idle", "begun")
               /\ req'[p] \in sending
               /\ done'[p] = done[p] /\ pairs'[p] = pairs[p] /\ target'[p] = target[p]
            \/ /\ Register(p)
               /\ Moved(p, "begun", IF req[p].op = "import" THEN "importing" ELSE "deciding")
               /\ UNCHANGED work
            \/ /\ ImportRow(p) /\ Moved(p, "importing", "importing")
               /\ req'[p] = req[p] /\ done'[p] = done[p] + 1
               /\ pairs'[p] = pairs[p] /\ target'[p] = target[p]
            \/ /\ Compare(p) /\ Moved(p, "importing", "compared")
               /\ req'[p] = req[p] /\ done'[p] = done[p] /\ target'[p] = target[p]
            \/ /\ Consider(p) /\ Moved(p, "deciding", "pending")
               /\ UNCHANGED work
            \/ /\ Apply(p) /\ Moved(p, "pending", "applied")
               /\ req'[p] = req[p] /\ done'[p] = done[p] /\ pairs'[p] = pairs[p]
            \/ /\ pc[p] # "idle" /\ Ended(p)
               /\ Replay(p) \/ Fail(p) \/ CommitImport(p) \/ CommitApproval(p)
                    \/ CommitRejection(p)
<1>1. CASE Begin(p)
  BY <1>1 DEF Typed, Begin, Moves, Moved, Others, DomainsKept, States
<1>2. CASE Register(p)
  BY <1>2 DEF Typed, Register, Moves, Moved, Others, DomainsKept, States, work
<1>3. CASE ImportRow(p)
  <2>1. /\ pc[p] = "importing" /\ UNCHANGED <<pc, req, pairs, target>>
        /\ done' = [done EXCEPT ![p] = @ + 1]
    BY <1>3 DEF ImportRow
  <2> QED
    BY <1>3, <2>1 DEF Typed, Moved, Others, DomainsKept, States
<1>4. CASE Compare(p)
  <2>1. /\ Moves(p, "importing", "compared") /\ UNCHANGED <<req, done, target>>
        /\ DOMAIN pairs' = DOMAIN pairs
        /\ \A q \in Proc \ {p} : pairs'[q] = pairs[q]
    BY <1>4 DEF Typed, Compare
  <2> QED
    BY <1>4, <2>1 DEF Typed, Moves, Moved, Others, DomainsKept, States
<1>5. CASE Consider(p)
  BY <1>5 DEF Typed, Consider, Moves, Moved, Others, DomainsKept, States, work
<1>6. CASE Apply(p)
  <2>1. Moves(p, "pending", "applied") /\ UNCHANGED <<req, done, pairs>>
    BY <1>6 DEF Apply
  <2>2. DOMAIN target' = Proc /\ \A q \in Proc \ {p} : target'[q] = target[q]
    BY <1>6 DEF Typed, Apply
  <2> QED
    BY <1>6, <2>1, <2>2 DEF Typed, Moves, Moved, Others, DomainsKept, States
<1>7. CASE Replay(p) \/ Fail(p) \/ CommitImport(p) \/ CommitApproval(p)
             \/ CommitRejection(p)
  <2>1. pc[p] # "idle" /\ Ends(p)
    BY <1>7 DEF Replay, Fail, Running, CommitImport, CommitApproval, CommitRejection
  <2> QED
    BY <1>7, <2>1, EndsIs
<1> QED
  BY <1>1, <1>2, <1>3, <1>4, <1>5, <1>6, <1>7 DEF Step

-------------------------------------------------------------------------------
(***************************************************************************)
(* Types, sessions, keys and locks.                                        *)
(***************************************************************************)

\* A request in flight is one that users send.
LEMMA Sent ==
  ASSUME Typed, Sessions, NEW p \in Proc, pc[p] # "idle"
  PROVE  req[p] \in sending /\ req[p] \in Request
BY ProspectsAssumption DEF Typed, Sessions, Session

\* Every step keeps the types.
LEMMA TypedKept ==
  ASSUME Typed, Sessions, NEW p \in Proc, Step(p), UNCHANGED sending
  PROVE  Typed'
<1>1. /\ DomainsKept /\ pc' \in [Proc -> States]
  BY StepIs
<1>2. req' \in [Proc -> sending \cup {NoRequest}]
  <2>1. CASE Begin(p)
    BY <2>1 DEF Begin, Typed, Sessions
  <2>2. CASE \/ Register(p) \/ ImportRow(p) \/ Compare(p) \/ Consider(p) \/ Apply(p)
    BY <2>2 DEF Register, ImportRow, Compare, Consider, Apply, Typed, work
  <2>3. CASE \/ Replay(p) \/ Fail(p) \/ CommitImport(p) \/ CommitApproval(p)
             \/ CommitRejection(p)
    BY <2>3, EndsIs DEF Replay, Fail, CommitImport, CommitApproval, CommitRejection
  <2> QED
    BY <2>1, <2>2, <2>3 DEF Step
<1>3. /\ recorded' \subseteq sending /\ IsFiniteSet(recorded')
      /\ status' \in [Suggestion -> {"PENDING", "APPROVED", "REJECTED"}]
      /\ applied' \in [Suggestion -> Nat]
  <2>1. CASE CommitImport(p) \/ CommitApproval(p) \/ CommitRejection(p)
    <3>1. recorded' = recorded \cup {req[p]} /\ pc[p] # "idle"
      BY <2>1 DEF CommitImport, CommitApproval, CommitRejection
    <3>2. req[p] \in sending
      BY <3>1, Sent
    <3>3. IsFiniteSet(recorded')
      BY <3>1, FS_AddElement DEF Typed
    <3>4. /\ status' \in [Suggestion -> {"PENDING", "APPROVED", "REJECTED"}]
          /\ applied' \in [Suggestion -> Nat]
      BY <2>1 DEF Typed, CommitImport, CommitApproval, CommitRejection
    <3> QED
      BY <3>1, <3>2, <3>3, <3>4 DEF Typed
  <2>2. CASE UNCHANGED tables
    BY <2>2 DEF Typed, tables
  <2> QED
    BY <2>1, <2>2 DEF Step, Begin, Replay, Register, ImportRow, Compare, Consider,
       Apply, Fail
<1> QED
  BY <1>1, <1>2, <1>3 DEF Typed, DomainsKept

\* Every step keeps what a transaction has at its steps.
LEMMA SessionsKept ==
  ASSUME Typed, Sessions, NEW p \in Proc, Step(p), UNCHANGED sending
  PROVE  Sessions'
<1>1. \A q \in Proc \ {p} : Session(q)'
  <2>1. Others(p)
    BY StepIs
  <2> QED
    BY <2>1 DEF Others, Sessions, Session
<1>2. Session(p)
  BY DEF Sessions
<1>3. Session(p)'
  <2>1. CASE Begin(p) /\ Moved(p, "idle", "begun")
    BY <2>1, <1>2, StepIs DEF Session, Begin, Moved, work, Typed
  <2>2. CASE Register(p)
    <3>1. req[p].op \in {"import", "decide"}
      <4>1. pc[p] # "idle"
        BY <2>2 DEF Register, Moves
      <4> QED BY <4>1, Sent, Kinds
    <3>2. /\ pc'[p] = (IF req[p].op = "import" THEN "importing" ELSE "deciding")
          /\ pc[p] = "begun" /\ UNCHANGED work
      BY <2>2 DEF Register, Moves, Typed
    <3>3. req[p].op = "import" => 0 \in 0 .. Len(req[p].rows)
      <4>1. pc[p] # "idle"
        BY <3>2
      <4> QED BY <4>1, Sent, Kinds
    <3> QED
      BY <3>1, <3>2, <3>3, <1>2 DEF Session, work
  <2>3. CASE ImportRow(p)
    <3>1. /\ pc[p] = "importing" /\ pc'[p] = "importing" /\ req'[p] = req[p]
          /\ done'[p] = done[p] + 1 /\ done[p] < Len(req[p].rows)
          /\ pairs'[p] = pairs[p] /\ target'[p] = target[p]
      BY <2>3 DEF ImportRow, Typed
    <3>2. Len(req[p].rows) \in Nat
      BY <3>1, <1>2, Sent, Kinds DEF Session
    <3> QED
      BY <3>1, <3>2, <1>2 DEF Session
  <2>4. CASE Compare(p)
    <3>1. /\ Moved(p, "importing", "compared") /\ done[p] = Len(req[p].rows)
          /\ UNCHANGED <<req, done, target>>
      BY <2>4 DEF Compare, Moves, Moved, Typed
    <3> QED
      BY <3>1, <1>2 DEF Session, Moved
  <2>5. CASE Consider(p) \/ Apply(p)
    <3>1. \/ Moved(p, "deciding", "pending") /\ UNCHANGED work
          \/ /\ Moved(p, "pending", "applied") /\ req[p].decision = "APPROVE"
             /\ UNCHANGED <<req, done, pairs>>
      BY <2>5 DEF Consider, Apply, Moves, Moved, Typed
    <3> QED
      BY <3>1, <1>2 DEF Session, Moved, work
  <2>6. CASE Ended(p)
    BY <2>6 DEF Ended, Session
  <2> QED
    BY <2>1, <2>2, <2>3, <2>4, <2>5, <2>6, StepIs
<1> QED
  BY <1>1, <1>3 DEF Sessions

\* A transaction that has its key keeps the request, and gets it only by
\* registering.
LEMMA RegisteredBefore ==
  ASSUME Typed, NEW p \in Proc, Step(p), NEW q \in Proc, Registered(q)'
  PROVE  /\ req'[q] = req[q]
         /\ Registered(q) \/ (q = p /\ Register(p))
<1>3. pc'[q] \notin {"idle", "begun"}
  BY DEF Registered
<1>1. CASE q # p
  <2>1. pc'[q] = pc[q] /\ req'[q] = req[q]
    BY <1>1, StepIs DEF Others
  <2> QED
    BY <1>3, <2>1 DEF Registered
<1>2. CASE q = p
  <2>1. \/ Register(p) /\ UNCHANGED work
        \/ pc[p] \in {"importing", "deciding", "pending"} /\ req'[p] = req[p]
    BY <1>2, <1>3, StepIs DEF Moved, Ended, work
  <2> QED
    BY <1>2, <2>1 DEF Registered, work
<1> QED
  BY <1>1, <1>2

\* Every step keeps a key with its request.
LEMMA KeysKept ==
  ASSUME Typed, Sessions, Keys, NEW p \in Proc, Step(p)
  PROVE  Keys'
<1>1. ASSUME NEW q \in Proc, NEW r \in Proc, q # r, Registered(q)', Registered(r)'
      PROVE  req'[q].op # req'[r].op \/ req'[q].key # req'[r].key
  <2>1. /\ req'[q] = req[q] /\ req'[r] = req[r]
        /\ Registered(q) \/ (q = p /\ Register(p))
        /\ Registered(r) \/ (r = p /\ Register(p))
    BY <1>1, RegisteredBefore
  <2>2. CASE Registered(q) /\ Registered(r)
    BY <1>1, <2>1, <2>2 DEF Keys
  <2>3. CASE Register(p)
    BY <1>1, <2>1, <2>3 DEF Keys, Register, MayRegister
  <2> QED
    BY <2>1, <2>2, <2>3
<1>2. \A q \in Proc : Registered(q)' => ~Recorded(req[q])
  BY RegisteredBefore DEF Keys, Register, MayRegister
<1>3. \A q \in Proc : Registered(q)' => req'[q] = req[q]
  BY RegisteredBefore
<1>4. CASE recorded' = recorded
  <2>1. \A r : Recorded(r)' <=> Recorded(r)
    BY <1>4 DEF Recorded
  <2> QED
    BY <1>1, <1>2, <1>3, <1>4, <2>1 DEF Keys
<1>5. CASE recorded' = recorded \cup {req[p]} /\ Registered(p) /\ pc'[p] = "idle"
  <2>1. \A r, s \in recorded' : r.op = s.op /\ r.key = s.key => r = s
    BY <1>5 DEF Keys, Recorded
  <2>2. ASSUME NEW q \in Proc, Registered(q)'
        PROVE  ~Recorded(req[q])'
    <3>1. q # p /\ Registered(q) /\ req'[q] = req[q]
      BY <1>5, <2>2, RegisteredBefore DEF Registered, Register, Moves
    <3>2. ~Recorded(req[q]) /\ (req[q].op # req[p].op \/ req[q].key # req[p].key)
      BY <1>5, <3>1 DEF Keys
    <3> QED
      BY <1>5, <3>1, <3>2 DEF Recorded
  <2> QED
    BY <1>1, <2>1, <2>2 DEF Keys
<1>6. \/ recorded' = recorded
      \/ recorded' = recorded \cup {req[p]} /\ Registered(p) /\ pc'[p] = "idle"
  <2>1. CASE CommitImport(p) \/ CommitApproval(p) \/ CommitRejection(p)
    <3>1. recorded' = recorded \cup {req[p]} /\ Registered(p) /\ Ends(p)
      BY <2>1 DEF CommitImport, CommitApproval, CommitRejection, Registered
    <3> QED
      BY <3>1, EndsIs DEF Ended
  <2> QED
    BY <2>1 DEF Step, Begin, Replay, Register, ImportRow, Compare, Consider,
       Apply, Fail, tables
<1> QED
  BY <1>4, <1>5, <1>6

\* One more row adds at most its firm.
LEMMA NextFirm ==
  ASSUME NEW r, NEW n \in Nat
  PROVE  /\ FirmsOf(r, n + 1) = FirmsOf(r, n) \cup {FirmOf[r[n + 1].org]}
         /\ FirmsOf(r, 0) = {}
<1>1. 1 .. (n + 1) = (1 .. n) \cup {n + 1}
  OBVIOUS
<1>2. 1 .. 0 = {}
  OBVIOUS
<1> QED
  BY <1>1, <1>2 DEF FirmsOf

\* What a step locks was free.
LEMMA LocksFree ==
  ASSUME Typed, Sessions, NEW p \in Proc, Step(p)
  PROVE  \A f \in Holds(p)' \ Holds(p) : ~LockedByOther(p, f)
<1>1. Session(p)
  BY DEF Sessions
<1>2. CASE ImportRow(p)
  <2>1. /\ pc[p] = "importing" /\ pc'[p] = "importing" /\ req'[p] = req[p]
        /\ done'[p] = done[p] + 1 /\ ~LockedByOther(p, FirmOf[req[p].rows[done[p] + 1].org])
    BY <1>2 DEF ImportRow, FirmIsFree, Typed
  <2>2. done[p] \in Nat
    <3>1. Len(req[p].rows) \in Nat
      BY <1>1, <2>1, Sent, Kinds DEF Session
    <3> QED
      BY <1>1, <2>1, <3>1 DEF Session
  <2>3. Holds(p)' = Holds(p) \cup {FirmOf[req[p].rows[done[p] + 1].org]}
    BY <2>1, <2>2, NextFirm DEF Holds
  <2> QED
    BY <2>1, <2>3
<1>3. CASE Apply(p)
  <2>1. /\ pc'[p] = "applied" /\ req'[p] = req[p]
        /\ KindOf[req[p].suggestion] \in {"SECURITY_CONCERN", "INTEGRATION_REQUIREMENT"} =>
             ~LockedByOther(p, FirmAbout[req[p].suggestion])
    BY <1>3 DEF Apply, FirmIsFree, Moves, Typed
  <2> QED
    BY <2>1 DEF Holds
<1>4. CASE Register(p)
  <2>1. /\ pc'[p] \in {"importing", "deciding"} /\ UNCHANGED work /\ pc[p] = "begun"
    BY <1>4 DEF Register, Moves, Typed
  <2>2. Holds(p)' = {}
    BY <1>1, <2>1, NextFirm DEF Holds, Session, work
  <2> QED
    BY <2>2
<1>5. CASE Compare(p)
  <2>1. pc[p] = "importing" /\ pc'[p] = "compared" /\ req'[p] = req[p] /\ done'[p] = done[p]
    BY <1>5 DEF Compare, Moves, Typed
  <2>2. Holds(p)' = Holds(p)
    BY <2>1 DEF Holds
  <2> QED
    BY <2>2
<1>6. CASE pc'[p] \in {"idle", "begun", "pending"}
  BY <1>6 DEF Holds
<1> QED
  BY <1>2, <1>3, <1>4, <1>5, <1>6, StepIs DEF Moved, Ended

\* No two transactions lock one organization.
LEMMA HoldsKept ==
  ASSUME Typed, Sessions, HoldsApart, NEW p \in Proc, Step(p)
  PROVE  HoldsApart'
<1>1. \A q \in Proc \ {p} : Holds(q)' = Holds(q)
  BY StepIs DEF Others, Holds
<1>2. \A q \in Proc \ {p} : Holds(p)' \cap Holds(q) = {}
  BY LocksFree DEF HoldsApart, LockedByOther
<1> QED
  BY <1>1, <1>2 DEF HoldsApart

\* Requests that compete are recorded when the second begins.
LEMMA InFlightKept ==
  ASSUME Typed, InFlight, NEW p \in Proc, Step(p)
  PROVE  InFlight' /\ overlapped \subseteq overlapped'
<1>1. overlapped \subseteq overlapped'
  BY DEF Step, Begin, Replay, Register, ImportRow, Compare, CommitImport, Consider,
     Apply, CommitApproval, CommitRejection, Fail
<1>2. CASE Begin(p)
  <2>1. \A q \in Proc \ {p} : Running(q) /\ Compete(req'[p], req[q]) =>
          {req'[p], req[q]} \in overlapped'
    BY <1>2 DEF Begin, Typed
  <2>2. \A q \in Proc \ {p} : req'[q] = req[q] /\ (Running(q)' <=> Running(q))
    BY StepIs DEF Others, Running
  <2>3. \A r, s : Compete(r, s) <=> Compete(s, r)
    BY DEF Compete
  <2>4. \A r, s : {r, s} = {s, r}
    OBVIOUS
  <2> QED
    BY <1>1, <2>1, <2>2, <2>3, <2>4 DEF InFlight
<1>3. CASE \A q \in Proc : Running(q)' => Running(q) /\ req'[q] = req[q]
  BY <1>1, <1>3 DEF InFlight
<1>4. Begin(p) \/ \A q \in Proc : Running(q)' => Running(q) /\ req'[q] = req[q]
  BY StepIs DEF Others, Running, Moved, Ended, work
<1> QED
  BY <1>1, <1>2, <1>3, <1>4

-------------------------------------------------------------------------------
(***************************************************************************)
(* Decisions.                                                              *)
(***************************************************************************)

\* The decisions of s among the requests rs.
DecisionsIn(rs, s) == {r \in rs : r.op = "decide" /\ r.suggestion = s}

\* A step commits a decision, or none is added.
LEMMA Deciding ==
  ASSUME Typed, Sessions, Keys, NEW p \in Proc, Step(p)
  PROVE  \/ /\ UNCHANGED <<status, applied>>
            /\ \A s \in Suggestion : DecisionsIn(recorded', s) = DecisionsIn(recorded, s)
         \/ LET s == req[p].suggestion IN
            /\ CommitApproval(p) \/ CommitRejection(p)
            /\ pc[p] \in {"pending", "applied"} /\ pc'[p] = "idle"
            /\ s \in Suggestion /\ req[p] \notin recorded
            /\ DecisionsIn(recorded', s) = DecisionsIn(recorded, s) \cup {req[p]}
            /\ \A t \in Suggestion \ {s} : DecisionsIn(recorded', t) = DecisionsIn(recorded, t)
<1>1. CASE CommitApproval(p) \/ CommitRejection(p)
  <2>1. /\ recorded' = recorded \cup {req[p]} /\ pc[p] \in {"pending", "applied"}
        /\ Ends(p)
    BY <1>1 DEF CommitApproval, CommitRejection
  <2>2. req[p] \in Request /\ req[p].op = "decide"
    BY <2>1, Sent DEF Sessions, Session
  <2>3. req[p].suggestion \in Suggestion
    BY <2>2, Kinds DEF DecideRequest
  <2>4. req[p] \notin recorded
    BY <2>1 DEF Keys, Registered, Recorded
  <2>5. pc'[p] = "idle"
    BY <2>1, EndsIs DEF Ended
  <2> QED
    BY <1>1, <2>1, <2>2, <2>3, <2>4, <2>5 DEF DecisionsIn
<1>2. CASE CommitImport(p)
  <2>1. /\ recorded' = recorded \cup {req[p]} /\ pc[p] = "compared"
        /\ UNCHANGED <<status, applied>>
    BY <1>2 DEF CommitImport
  <2>2. req[p].op = "import"
    BY <2>1 DEF Sessions, Session
  <2> QED
    BY <2>1, <2>2 DEF DecisionsIn
<1>3. CASE UNCHANGED tables
  BY <1>3 DEF tables, DecisionsIn
<1> QED
  BY <1>1, <1>2, <1>3 DEF Step, Begin, Replay, Register, ImportRow, Compare, Consider,
     Apply, Fail

\* A step that considers a suggestion finds no decision of it.
LEMMA NoneYet ==
  ASSUME Typed, Sessions, AppliedOnce, NEW p \in Proc, Consider(p)
  PROVE  DecisionsIn(recorded, req[p].suggestion) = {}
<1>1. pc[p] = "deciding" /\ status[req[p].suggestion] = "PENDING"
  BY DEF Consider, MayDecide, Moves
<1>2. req[p] \in Request /\ req[p].op = "decide"
  BY <1>1, Sent DEF Sessions, Session
<1>3. req[p].suggestion \in Suggestion
  BY <1>2, Kinds DEF DecideRequest
<1>4. {r.decision : r \in DecisionsIn(recorded, req[p].suggestion)} = {}
  BY <1>1, <1>3 DEF AppliedOnce, DecisionsOf, DecisionsIn
<1> QED
  BY <1>4

\* Who is about to decide still overlaps with all who have.
LEMMA DecidedKept ==
  ASSUME Typed, Sessions, Keys, InFlight, Decided, DecidedOnce, AppliedOnce,
         NEW p \in Proc, Step(p)
  PROVE  Decided' /\ DecidedOnce'
<1>1. overlapped \subseteq overlapped'
  BY InFlightKept
<1>2. ASSUME NEW q \in Proc, pc'[q] \in {"pending", "applied"},
             NEW r \in DecisionsIn(recorded', req'[q].suggestion)
      PROVE  {r, req'[q]} \in overlapped'
  <2>1. /\ req'[q] = req[q]
        /\ pc[q] \in {"pending", "applied"} \/ (q = p /\ Consider(p))
    <3>1. CASE q # p
      BY <1>2, <3>1, StepIs DEF Others
    <3>2. CASE q = p
      BY <1>2, <3>2, StepIs DEF Moved, Ended, work
    <3> QED
      BY <3>1, <3>2
  <2>2. /\ pc[q] \in {"deciding", "pending", "applied"}
        /\ req[q].op = "decide" /\ req[q] \in Request
    <3>1. pc[q] \in {"deciding", "pending", "applied"}
      BY <2>1 DEF Consider, Moves
    <3> QED
      BY <3>1, Sent DEF Sessions, Session
  <2>3. req[q].suggestion \in Suggestion
    BY <2>2, Kinds DEF DecideRequest
  <2>4. ASSUME r \in DecisionsIn(recorded, req[q].suggestion)
        PROVE  {r, req[q]} \in overlapped
    BY <2>1, <2>4, NoneYet DEF Decided, DecisionsOf, DecisionsIn
  <2>5. ASSUME r \notin DecisionsIn(recorded, req[q].suggestion)
        PROVE  {r, req[q]} \in overlapped
    <3>1. r \in DecisionsIn(recorded', req[q].suggestion)
      BY <1>2, <2>1
    <3>2. /\ r = req[p] /\ r.suggestion = req[q].suggestion
          /\ pc[p] \in {"pending", "applied"} /\ pc'[p] = "idle"
      BY <2>3, <2>5, <3>1, Deciding DEF DecisionsIn
    <3>3. p # q /\ req[p].op = "decide"
      BY <1>2, <3>2 DEF Sessions, Session
    <3>4. Running(p) /\ Running(q) /\ Compete(req[p], req[q])
      BY <2>2, <3>2, <3>3 DEF Running, Compete
    <3> QED
      BY <3>2, <3>3, <3>4 DEF InFlight
  <2> QED
    BY <1>1, <2>1, <2>4, <2>5
<1>3. Decided'
  BY <1>2 DEF Decided, DecisionsOf, DecisionsIn
<1>4. ASSUME NEW s \in Suggestion,
             NEW r \in DecisionsIn(recorded', s), NEW t \in DecisionsIn(recorded', s),
             r # t
      PROVE  {r, t} \in overlapped
  <2>1. CASE r \in DecisionsIn(recorded, s) /\ t \in DecisionsIn(recorded, s)
    BY <1>4, <2>1 DEF DecidedOnce, DecisionsOf, DecisionsIn
  <2>2. ASSUME NEW u \in DecisionsIn(recorded, s), NEW v \in DecisionsIn(recorded', s),
               v \notin DecisionsIn(recorded, s)
        PROVE  {u, v} \in overlapped
    <3>1. v = req[p] /\ s = req[p].suggestion /\ pc[p] \in {"pending", "applied"}
      BY <2>2, Deciding
    <3> QED
      BY <2>2, <3>1 DEF Decided, DecisionsOf, DecisionsIn
  <2>3. r \in DecisionsIn(recorded, s) \/ t \in DecisionsIn(recorded, s)
    BY <1>4, Deciding
  <2>4. {r, t} = {t, r}
    OBVIOUS
  <2> QED
    BY <1>4, <2>1, <2>2, <2>3, <2>4
<1>5. DecidedOnce'
  BY <1>1, <1>4 DEF DecidedOnce, DecisionsOf, DecisionsIn
<1> QED
  BY <1>3, <1>5

\* The requests of D that approve.
Approvals(D) == {r \in D : r.decision = "APPROVE"}

\* What AppliedOnce says of one suggestion with the decisions D.
Counts(n, state, D) ==
  LET taken == {r.decision : r \in D} IN
  /\ n = Cardinality(Approvals(D))
  /\ IF taken = {} THEN state = "PENDING"
     ELSE \/ state = "APPROVED" /\ "APPROVE" \in taken
          \/ state = "REJECTED" /\ "REJECT" \in taken

\* AppliedOnce, stated for each suggestion and its decisions.
LEMMA CountsIs ==
  AppliedOnce <=>
    \A s \in Suggestion : Counts(applied[s], status[s], DecisionsIn(recorded, s))
BY DEF AppliedOnce, Counts, Approvals, DecisionsOf, DecisionsIn

\* A step counts the approval it commits.
LEMMA AppliedKept ==
  ASSUME Typed, Sessions, Keys, AppliedOnce, NEW p \in Proc, Step(p)
  PROVE  AppliedOnce'
<1>1. \A s \in Suggestion : Counts(applied[s], status[s], DecisionsIn(recorded, s))
  BY CountsIs
<1>2. CASE /\ UNCHANGED <<status, applied>>
           /\ \A s \in Suggestion : DecisionsIn(recorded', s) = DecisionsIn(recorded, s)
  BY <1>1, <1>2 DEF AppliedOnce, Counts, Approvals, DecisionsOf, DecisionsIn
<1>3. CASE /\ CommitApproval(p) \/ CommitRejection(p)
           /\ req[p].suggestion \in Suggestion /\ req[p] \notin recorded
           /\ pc[p] \in {"pending", "applied"}
           /\ DecisionsIn(recorded', req[p].suggestion) =
                DecisionsIn(recorded, req[p].suggestion) \cup {req[p]}
           /\ \A t \in Suggestion \ {req[p].suggestion} :
                DecisionsIn(recorded', t) = DecisionsIn(recorded, t)
  <2> DEFINE s == req[p].suggestion
             D == DecisionsIn(recorded, s)
  <2>1. IsFiniteSet(Approvals(D)) /\ req[p] \notin Approvals(D)
    BY <1>3, FS_Subset DEF Approvals, DecisionsIn, Typed
  <2>2. Counts(applied[s], status[s], D)
    BY <1>1, <1>3
  <2>3. Counts(applied'[s], status'[s], D \cup {req[p]})
    <3>1. CASE CommitApproval(p)
      <4>1. req[p].decision = "APPROVE"
        BY <3>1 DEF CommitApproval, Sessions, Session
      <4>2. applied'[s] = applied[s] + 1 /\ status'[s] = "APPROVED"
        BY <1>3, <3>1 DEF CommitApproval, Typed
      <4>3. Approvals(D \cup {req[p]}) = Approvals(D) \cup {req[p]}
        BY <4>1 DEF Approvals
      <4>4. Cardinality(Approvals(D \cup {req[p]})) = Cardinality(Approvals(D)) + 1
        BY <2>1, <4>3, FS_AddElement
      <4>5. "APPROVE" \in {r.decision : r \in D \cup {req[p]}}
        BY <4>1
      <4> HIDE DEF s, D
      <4> QED
        BY <2>2, <4>2, <4>4, <4>5 DEF Counts
    <3>2. CASE CommitRejection(p)
      <4>1. req[p].decision = "REJECT" /\ applied' = applied /\ status'[s] = "REJECTED"
        BY <1>3, <3>2 DEF CommitRejection, Typed
      <4>2. Approvals(D \cup {req[p]}) = Approvals(D)
        BY <4>1 DEF Approvals
      <4>3. "REJECT" \in {r.decision : r \in D \cup {req[p]}}
        BY <4>1
      <4> HIDE DEF s, D
      <4> QED
        BY <2>2, <4>1, <4>2, <4>3 DEF Counts
    <3> QED
      BY <1>3, <3>1, <3>2
  <2>4. \A t \in Suggestion \ {s} : applied'[t] = applied[t] /\ status'[t] = status[t]
    BY <1>3 DEF CommitApproval, CommitRejection, Typed
  <2>5. \A t \in Suggestion \ {s} : Counts(applied'[t], status'[t], DecisionsIn(recorded', t))
    BY <1>1, <1>3, <2>4, Zenon
  <2>6. Counts(applied'[s], status'[s], DecisionsIn(recorded', s))
    <3>1. DecisionsIn(recorded', req[p].suggestion) = D \cup {req[p]}
      BY <1>3
    <3> QED BY <2>3, <3>1
  <2>7. \A t \in Suggestion : Counts(applied'[t], status'[t], DecisionsIn(recorded', t))
    BY <2>5, <2>6
  <2> QED
    BY <2>7 DEF AppliedOnce, Counts, Approvals, DecisionsOf, DecisionsIn
<1> QED
  BY <1>2, <1>3, Deciding

-------------------------------------------------------------------------------
(***************************************************************************)
(* Organizations and contacts.                                             *)
(***************************************************************************)

\* The import that p commits.
LEMMA Committed ==
  ASSUME Typed, Sessions, Keys, Organizations, NEW p \in Proc, pc[p] = "compared"
  PROVE  /\ req[p] \in Request /\ req[p] \in sending /\ req[p].op = "import"
         /\ Len(req[p].rows) \in Nat /\ done[p] = Len(req[p].rows)
         /\ done[p] \in 0 .. Len(req[p].rows)
         /\ \A r \in recorded : r.op = "import" => r.key # req[p].key
         /\ Holds(p) = FirmsOf(req[p].rows, done[p])
<1>1. req[p] \in Request /\ req[p] \in sending /\ req[p].op = "import"
  BY Sent DEF Sessions, Session
<1>2. Len(req[p].rows) \in Nat /\ done[p] = Len(req[p].rows)
  BY <1>1, Kinds DEF Sessions, Session
<1>3. \A r \in recorded : r.op = "import" => r.key # req[p].key
  BY <1>1 DEF Keys, Registered, Recorded
<1> QED
  BY <1>1, <1>2, <1>3 DEF Holds

\* Contacts keep their organizations, ids and imports.
LEMMA ContactIs ==
  ASSUME Typed, Keys, Contacts, NEW c \in contacts
  PROVE  \E r \in recorded : \E i \in 1 .. Len(r.rows) :
           /\ r.op = "import" /\ r \in Request /\ ImportOf(c) = r
           /\ c = [id |-> <<r.key, i>>, firm |-> FirmOf[r.rows[i].org], row |-> r.rows[i]]
           /\ c.firm \in FirmsOf(r.rows, Len(r.rows))
<1>1. PICK r \in recorded : r.op = "import" /\ c \in Created(r, Len(r.rows))
  BY DEF Contacts
<1>2. PICK i \in 1 .. Len(r.rows) :
        c = [id |-> <<r.key, i>>, firm |-> FirmOf[r.rows[i].org], row |-> r.rows[i]]
  BY <1>1 DEF Created
<1>3. c.id[1] = r.key
  BY <1>2
<1>4. ImportOf(c) = r
  BY <1>1, <1>3 DEF ImportOf, Keys
<1>5. c.firm \in FirmsOf(r.rows, Len(r.rows))
  BY <1>2 DEF FirmsOf
<1> QED
  BY <1>1, <1>2, <1>4, <1>5, ProspectsAssumption DEF Typed

\* What an import creates.
LEMMA CreatedIs ==
  ASSUME NEW r, NEW n, NEW c \in Created(r, n)
  PROVE  \E i \in 1 .. n :
           /\ c = [id |-> <<r.key, i>>, firm |-> FirmOf[r.rows[i].org], row |-> r.rows[i]]
           /\ c.id[1] = r.key /\ c.firm \in FirmsOf(r.rows, n)
<1>1. PICK i \in 1 .. n :
        c = [id |-> <<r.key, i>>, firm |-> FirmOf[r.rows[i].org], row |-> r.rows[i]]
  BY DEF Created
<1> QED
  BY <1>1 DEF FirmsOf

\* A step commits an import, or leaves organizations, contacts and candidates.
LEMMA Importing ==
  ASSUME Typed, Sessions, NEW p \in Proc, Step(p)
  PROVE  \/ /\ UNCHANGED <<organizations, contacts, candidates>>
            /\ {r \in recorded' : r.op = "import"} = {r \in recorded : r.op = "import"}
         \/ CommitImport(p)
<1>1. CASE CommitApproval(p) \/ CommitRejection(p)
  <2>1. /\ recorded' = recorded \cup {req[p]} /\ pc[p] \in {"pending", "applied"}
        /\ UNCHANGED <<organizations, contacts, candidates>>
    BY <1>1 DEF CommitApproval, CommitRejection
  <2>2. req[p].op = "decide"
    BY <2>1 DEF Sessions, Session
  <2> QED
    BY <2>1, <2>2
<1>2. CASE UNCHANGED tables
  BY <1>2 DEF tables
<1> QED
  BY <1>1, <1>2 DEF Step, Begin, Replay, Register, ImportRow, Compare, Consider,
     Apply, Fail

\* Organizations keep their firms and their names.
LEMMA OrganizationsKept ==
  ASSUME Typed, Sessions, Keys, Organizations, NEW p \in Proc, Step(p)
  PROVE  Organizations' /\ organizations \subseteq organizations'
<1>1. CASE CommitImport(p)
  <2>1. pc[p] = "compared" /\ organizations' = Upserted(req[p], done[p])
    BY <1>1 DEF CommitImport
  <2> QED
    BY <2>1, Committed, UpsertedIs DEF Organizations
<1>2. CASE UNCHANGED organizations
  BY <1>2 DEF Organizations
<1> QED
  BY <1>1, <1>2, Importing

\* The pairs that Compare writes down.
LEMMA PairsIs ==
  ASSUME Typed, NEW p \in Proc, Compare(p)
  PROVE  LET new == Created(req[p], done[p]) IN
         /\ \A c \in new : \A d \in contacts \cup new :
              Duplicates(c, d, Upserted(req[p], done[p])) => {c.id, d.id} \in pairs'[p]
         /\ UNION pairs'[p] \subseteq Ids(contacts \cup new)
<1> DEFINE new == Created(req[p], done[p])
           orgs == Upserted(req[p], done[p])
<1>1. pairs'[p] = UNION {{{c.id, d.id} : d \in {x \in contacts \cup new : Duplicates(c, x, orgs)}} :
                         c \in new}
  BY DEF Compare, Typed
<1> HIDE DEF new, orgs
<1>2. \A c \in new : \A d \in contacts \cup new :
        Duplicates(c, d, orgs) => {c.id, d.id} \in pairs'[p]
  <2> TAKE c \in new
  <2> DEFINE of == {{c.id, d.id} : d \in {x \in contacts \cup new : Duplicates(c, x, orgs)}}
  <2>1. of \subseteq pairs'[p]
    BY <1>1
  <2>2. \A d \in contacts \cup new : Duplicates(c, d, orgs) => {c.id, d.id} \in of
    OBVIOUS
  <2> QED
    BY <2>1, <2>2
<1>3. \A z \in pairs'[p] : \E c \in new : \E d \in contacts \cup new : z = {c.id, d.id}
  BY <1>1
<1>4. UNION pairs'[p] \subseteq Ids(contacts \cup new)
  BY <1>3 DEF Ids
<1> QED
  BY <1>2, <1>4 DEF new, orgs

\* Contacts, and what transactions know of them, stay.
LEMMA ContactsKept ==
  ASSUME Typed, Sessions, Keys, Organizations, Contacts, NEW p \in Proc, Step(p)
  PROVE  Contacts'
<1>1. organizations \subseteq organizations' /\ contacts \subseteq contacts'
  BY OrganizationsKept, Importing DEF CommitImport
<1>2. \A A, B : A \subseteq B => Ids(A) \subseteq Ids(B)
  BY DEF Ids
<1>3. \A A, B : A \subseteq B => Firms(A) \subseteq Firms(B)
  BY DEF Firms
<1>4. recorded \subseteq recorded'
  BY DEF Step, Begin, Replay, Register, ImportRow, Compare, CommitImport, Consider,
     Apply, CommitApproval, CommitRejection, Fail, tables
<1>5. \A c \in contacts' :
        /\ c.firm \in Firms(organizations')
        /\ \E r \in recorded' : r.op = "import" /\ c \in Created(r, Len(r.rows))
  <2>1. \A c \in contacts :
          /\ c.firm \in Firms(organizations')
          /\ \E r \in recorded' : r.op = "import" /\ c \in Created(r, Len(r.rows))
    BY <1>1, <1>3, <1>4 DEF Contacts
  <2>2. CASE CommitImport(p)
    <3>1. /\ pc[p] = "compared" /\ organizations' = Upserted(req[p], done[p])
          /\ contacts' = contacts \cup Created(req[p], done[p])
          /\ req[p] \in recorded'
      BY <2>2 DEF CommitImport
    <3>2. /\ req[p] \in Request /\ req[p].op = "import" /\ done[p] = Len(req[p].rows)
          /\ done[p] \in 0 .. Len(req[p].rows)
      BY <3>1, Committed
    <3>3. FirmsOf(req[p].rows, done[p]) \subseteq Firms(organizations')
      BY <3>1, <3>2, UpsertedIs
    <3>4. \A c \in Created(req[p], done[p]) : c.firm \in FirmsOf(req[p].rows, done[p])
      BY CreatedIs
    <3> QED
      BY <2>1, <3>1, <3>2, <3>3, <3>4
  <2> QED
    BY <2>1, <2>2, Importing
<1>6. UNION candidates' \subseteq Ids(contacts')
  <2>1. CASE CommitImport(p)
    <3>1. /\ candidates' = candidates \cup pairs[p]
          /\ contacts' = contacts \cup Created(req[p], done[p])
      BY <2>1 DEF CommitImport
    <3>2. UNION candidates \subseteq Ids(contacts') /\ UNION pairs[p] \subseteq Ids(contacts')
      BY <1>1, <1>2, <3>1 DEF Contacts
    <3> QED
      BY <3>1, <3>2
  <2> QED
    BY <2>1, Importing DEF Contacts
<1>7. decisionMakers' \subseteq Ids(contacts')
  <2>1. decisionMakers' \subseteq decisionMakers \cup target[p]
    BY DEF Step, Begin, Replay, Register, ImportRow, Compare, CommitImport, Consider,
       Apply, CommitApproval, CommitRejection, Fail, tables
  <2> QED
    BY <1>1, <1>2, <2>1 DEF Contacts
<1>8. ASSUME NEW q \in Proc
      PROVE  UNION pairs'[q] \subseteq Ids(contacts' \cup Created(req'[q], done'[q]))
  <2>1. CASE pairs'[q] = pairs[q] /\ req'[q] = req[q] /\ done'[q] = done[q]
    <3>1. UNION pairs[q] \subseteq Ids(contacts \cup Created(req[q], done[q]))
      BY DEF Contacts
    <3>2. contacts \cup Created(req[q], done[q]) \subseteq contacts' \cup Created(req[q], done[q])
      BY <1>1
    <3> QED
      BY <1>2, <2>1, <3>1, <3>2
  <2>2. CASE pairs'[q] = {}
    BY <2>2
  <2>3. CASE q = p /\ Compare(p)
    <3>1. req' = req /\ done' = done /\ contacts' = contacts
      BY <2>3 DEF Compare, tables
    <3> QED
      BY <2>3, <3>1, PairsIs
  <2>4. q = p \/ (pairs'[q] = pairs[q] /\ req'[q] = req[q] /\ done'[q] = done[q])
    BY StepIs DEF Others
  <2>5. pc[p] # "compared" => pairs[p] = {}
    BY DEF Sessions, Session
  <2>6. Compare(p) \/ pairs'[p] = {}
    BY <2>5, StepIs DEF Moved, Ended, work
  <2> QED
    BY <2>1, <2>2, <2>3, <2>4, <2>6
<1>9. ASSUME NEW q \in Proc
      PROVE  target'[q] \subseteq Ids(contacts')
  <2>1. CASE target'[q] = target[q]
    BY <1>1, <1>2, <2>1 DEF Contacts
  <2>2. CASE q = p /\ Apply(p)
    <3>1. target' = target \/ \E c \in contacts : target' = [target EXCEPT ![p] = {c.id}]
      BY <2>2 DEF Apply, Matching
    <3>2. target'[p] = target[p] \/ \E c \in contacts : target'[p] = {c.id}
      BY <3>1 DEF Typed
    <3> QED
      BY <1>1, <1>2, <2>2, <3>2 DEF Contacts, Ids
  <2>3. target'[q] = target[q] \/ target'[q] = {} \/ (q = p /\ Apply(p))
    BY StepIs DEF Others, Ended, work
  <2> QED
    BY <2>1, <2>2, <2>3
<1> QED
  BY <1>5, <1>6, <1>7, <1>8, <1>9 DEF Contacts

-------------------------------------------------------------------------------
(***************************************************************************)
(* Duplicates.                                                             *)
(***************************************************************************)

\* Whether two contacts are candidates depends on their organizations' names.
LEMMA SameOrgs ==
  ASSUME NEW A, NEW B, NEW c, NEW d,
         Org(A, c.firm) = Org(B, c.firm), Org(A, d.firm) = Org(B, d.firm)
  PROVE  Duplicates(c, d, A) <=> Duplicates(c, d, B)
BY DEF Org, Duplicates

\* The order of the two does not matter.
LEMMA Symmetric ==
  ASSUME NEW c, NEW d, NEW orgs, Duplicates(c, d, orgs)
  PROVE  Duplicates(d, c, orgs)
<1> DEFINE x == c.row  xWords == Words[Org(orgs, c.firm).name]
           y == d.row  yWords == Words[Org(orgs, d.firm).name]
<1>1. c.id # d.id /\ IsCandidate(x, xWords, y, yWords)
  BY DEF Duplicates, Org
<1>2. IsCandidate(y, yWords, x, xWords)
  <2> HIDE DEF xWords, yWords, x, y
  <2>1. \A a, b : a \cap b = b \cap a /\ a \cup b = b \cup a
    OBVIOUS
  <2>2. \A a, b : Common(a, b) = Common(b, a) /\ Together(a, b) = Together(b, a)
    BY <2>1 DEF Common, Together
  <2>3. \A a, b : Similar(a, b) => Similar(b, a)
    BY <2>1, <2>2 DEF Similar
  <2>4. \A p, q, a, b : Convincing(p, q, a, b) => Convincing(q, p, b, a)
    BY <2>2 DEF Convincing
  <2>5. \A v, w : SameSignal(v, w) => SameSignal(w, v)
    BY DEF SameSignal
  <2> QED
    BY <1>1, <2>3, <2>4, <2>5 DEF IsCandidate
<1> QED
  BY <1>1, <1>2 DEF Duplicates, Org

\* The organization of a firm there is stays what it is when others are added.
LEMMA OrgStays ==
  ASSUME NEW A, NEW B, A \subseteq B, OneEach(B), NEW f \in Firms(A)
  PROVE  Org(B, f) = Org(A, f)
<1>1. PICK o \in A : o.firm = f
  BY DEF Firms
<1>2. OneEach(A) /\ o \in B
  BY DEF OneEach
<1> QED
  BY <1>1, <1>2, OrgIs

\* Nobody else names the organizations that p has locked.
LEMMA NamesStay ==
  ASSUME Typed, Sessions, Keys, Organizations, HoldsApart,
         NEW p \in Proc, pc[p] = "compared",
         NEW q \in Proc, q # p, CommitImport(q)
  PROVE  \A f \in Firms(organizations) \cup FirmsOf(req[p].rows, done[p]) :
           Org(Upserted(req[p], done[p]), f)
             = Org((organizations' \cup
                     {[firm |-> g, name |-> NameIn(req[p], done[p], g)] :
                        g \in FirmsOf(req[p].rows, done[p]) \ Firms(organizations')}), f)
<1> DEFINE r == req[p]
           n == done[p]
           Later == organizations' \cup
                      {[firm |-> g, name |-> NameIn(r, n, g)] :
                         g \in FirmsOf(r.rows, n) \ Firms(organizations')}
<1>1. Organizations' /\ organizations \subseteq organizations'
  <2>1. Step(q)
    BY DEF Step
  <2> QED BY <2>1, OrganizationsKept
<1>2. r \in Request /\ r.op = "import" /\ n \in 0 .. Len(r.rows)
      /\ Holds(p) = FirmsOf(r.rows, n)
  BY Committed
<1>3. /\ OneEach(Upserted(r, n)) /\ organizations \subseteq Upserted(r, n)
      /\ \A f \in FirmsOf(r.rows, n) \ Firms(organizations) :
           [firm |-> f, name |-> NameIn(r, n, f)] \in Upserted(r, n)
  BY <1>2, UpsertedIs
<1>4. OneEach(Later)
  <2> DEFINE New == {[firm |-> g, name |-> NameIn(r, n, g)] :
                       g \in FirmsOf(r.rows, n) \ Firms(organizations')}
  <2>1. \A o \in New : o.firm \notin Firms(organizations')
                       /\ o = [firm |-> o.firm, name |-> NameIn(r, n, o.firm)]
    OBVIOUS
  <2>2. OneEach(New)
    BY <2>1 DEF OneEach
  <2>3. Later = organizations' \cup New
    OBVIOUS
  <2> HIDE DEF New, Later
  <2> QED
    BY <1>1, <2>1, <2>2, <2>3 DEF Organizations, OneEach, Firms
<1>5. ASSUME NEW f \in Firms(organizations)
      PROVE  Org(Upserted(r, n), f) = Org(Later, f)
  <2>1. organizations \subseteq Later
    BY <1>1
  <2> HIDE DEF Later
  <2> QED
    BY <1>3, <1>4, <1>5, <2>1, OrgStays
<1>6. ASSUME NEW f \in FirmsOf(r.rows, n) \ Firms(organizations)
      PROVE  Org(Upserted(r, n), f) = Org(Later, f)
  <2>1. pc[q] = "compared" /\ organizations' = Upserted(req[q], done[q])
    BY DEF CommitImport
  <2>2. Firms(organizations') = Firms(organizations) \cup Holds(q)
    BY <2>1, Committed, UpsertedIs
  <2>3. f \notin Firms(organizations')
    BY <1>2, <1>6, <2>2 DEF HoldsApart
  <2> DEFINE o == [firm |-> f, name |-> NameIn(r, n, f)]
  <2>4. o \in Later /\ o \in Upserted(r, n) /\ o.firm = f
    BY <1>3, <1>6, <2>3
  <2> HIDE DEF Later, o
  <2> QED
    BY <1>3, <1>4, <2>4, OrgIs
<1> QED
  BY <1>5, <1>6

\* What a later commit leaves of the import a contact came with.
LEMMA ImportOfStays ==
  ASSUME Typed, Sessions, Keys, Contacts, NEW p \in Proc, Step(p), UNCHANGED sending
  PROVE  \A c \in contacts : ImportOf(c)' = ImportOf(c)
<1>1. Keys' /\ recorded \subseteq recorded'
  BY KeysKept DEF Step, Begin, Replay, Register, ImportRow, Compare, CommitImport, Consider,
     Apply, CommitApproval, CommitRejection, Fail, tables
<1> SUFFICES ASSUME NEW c \in contacts PROVE ImportOf(c)' = ImportOf(c)
  OBVIOUS
<1>2. PICK r \in recorded : r.op = "import" /\ ImportOf(c) = r /\ r.key = c.id[1]
  BY ContactIs
<1>3. r \in recorded' /\ \A s \in recorded' : s.op = "import" /\ s.key = c.id[1] => s = r
  BY <1>1, <1>2 DEF Keys
<1>4. (CHOOSE s \in recorded' : s.op = "import" /\ s.key = c.id[1]) = r
  BY <1>2, <1>3
<1> QED
  BY <1>2, <1>4 DEF ImportOf

\* Upserted, with the organizations that are there.
UpsertedTo(orgs, r, n) ==
  orgs \cup {[firm |-> f, name |-> NameIn(r, n, f)] : f \in FirmsOf(r.rows, n) \ Firms(orgs)}

\* Found by the pairs ps, or apart: what Compared says of two contacts.
Known(c, d, r, ps, cs, over, s) ==
  \/ {c.id, d.id} \in ps
  \/ /\ d \in cs /\ {r, s} \in over
     /\ FirmsOf(r.rows, Len(r.rows)) \cap FirmsOf(s.rows, Len(s.rows)) = {}

\* Compared, of one transaction.
ComparedIn(r, n, ps, cs, orgs, over) ==
  \A c \in Created(r, n) : \A d \in cs \cup Created(r, n) :
    Duplicates(c, d, UpsertedTo(orgs, r, n)) => Known(c, d, r, ps, cs, over, ImportOf(d))

\* Compared, stated for each transaction.
LEMMA ComparedIs ==
  Compared <=>
    \A p \in Proc : pc[p] = "compared" =>
      ComparedIn(req[p], done[p], pairs[p], contacts, organizations, overlapped)
BY DEF Compared, ComparedIn, Known, Apart, Upserted, UpsertedTo, NameIn, Firms

\* Nothing changes, and a transaction that has compared knows what it knew.
LEMMA ComparedStays ==
  ASSUME Compared, UNCHANGED vars
  PROVE  Compared'
<1> SUFFICES ASSUME NEW p \in Proc, pc'[p] = "compared",
                    NEW c \in Created(req'[p], done'[p]),
                    NEW d \in contacts' \cup Created(req'[p], done'[p]),
                    Duplicates(c, d, UpsertedTo(organizations', req'[p], done'[p]))
             PROVE  Known(c, d, req'[p], pairs'[p], contacts', overlapped', ImportOf(d)')
  BY DEF Compared, ComparedIn, Known, Apart, Upserted, UpsertedTo, NameIn, Firms
<1>1. UNCHANGED <<organizations, contacts, recorded, pc, req, done, pairs, overlapped>>
  BY DEF vars, tables, work
<1>2. ComparedIn(req[p], done[p], pairs[p], contacts, organizations, overlapped)
  BY <1>1, ComparedIs
<1>3. Known(c, d, req[p], pairs[p], contacts, overlapped, ImportOf(d))
  BY <1>1, <1>2 DEF ComparedIn
<1>4. ImportOf(d)' = ImportOf(d)
  BY <1>1 DEF ImportOf
<1> QED
  BY <1>1, <1>3, <1>4

\* Transactions that have compared still know of all duplicates.
LEMMA ComparedKept ==
  ASSUME Typed, Sessions, Keys, HoldsApart, InFlight, Organizations, Contacts, Compared,
         NEW p \in Proc, Step(p), UNCHANGED sending
  PROVE  Compared'
<1> SUFFICES ASSUME NEW q \in Proc, pc'[q] = "compared",
                    NEW c \in Created(req'[q], done'[q]),
                    NEW d \in contacts' \cup Created(req'[q], done'[q]),
                    Duplicates(c, d, UpsertedTo(organizations', req'[q], done'[q]))
             PROVE  Known(c, d, req'[q], pairs'[q], contacts', overlapped', ImportOf(d)')
  BY DEF Compared, ComparedIn, Known, Apart, Upserted, UpsertedTo, NameIn, Firms
<1>1. overlapped \subseteq overlapped' /\ contacts \subseteq contacts'
  BY InFlightKept, Importing DEF CommitImport
<1>2. CASE q = p
  <2>1. Compare(p)
    BY <1>2, StepIs DEF Moved, Ended
  <2>2. UNCHANGED <<organizations, contacts, req, done>>
    BY <2>1 DEF Compare, tables
  <2>5. UpsertedTo(organizations, req[p], done[p]) = Upserted(req[p], done[p])
    BY DEF UpsertedTo, Upserted, NameIn, Firms
  <2>3. UpsertedTo(organizations', req'[q], done'[q]) = Upserted(req[p], done[p])
    BY <1>2, <2>2, <2>5
  <2>4. {c.id, d.id} \in pairs'[p]
    BY <1>2, <2>1, <2>2, <2>3, PairsIs
  <2> QED
    BY <1>2, <2>4 DEF Known
<1>3. CASE q # p
  <2> DEFINE r == req[q]
             n == done[q]
  <2>1. /\ pc[q] = "compared" /\ req'[q] = r /\ done'[q] = n /\ pairs'[q] = pairs[q]
    BY <1>3, StepIs DEF Others
  <2>2. /\ r \in Request /\ r.op = "import" /\ n = Len(r.rows) /\ n \in 0 .. Len(r.rows)
        /\ Holds(q) = FirmsOf(r.rows, n)
    BY <2>1, Committed
  <2>3. UpsertedTo(organizations, r, n) = Upserted(r, n)
    BY DEF UpsertedTo, Upserted, NameIn, Firms
  <2>4. c.firm \in FirmsOf(r.rows, n)
    BY <2>1, CreatedIs
  <2>5. ASSUME d \in contacts \cup Created(r, n),
               Duplicates(c, d, Upserted(r, n))
        PROVE  Known(c, d, r, pairs[q], contacts', overlapped', ImportOf(d)')
    <3>1. Known(c, d, r, pairs[q], contacts, overlapped, ImportOf(d))
      BY <2>1, <2>3, <2>5 DEF Compared, Known, Apart
    <3>2. d \in contacts => ImportOf(d)' = ImportOf(d)
      BY ImportOfStays
    <3> QED
      BY <1>1, <3>1, <3>2 DEF Known
  <2>6. CASE UNCHANGED <<organizations, contacts>>
    BY <2>1, <2>3, <2>5, <2>6
  <2>7. CASE CommitImport(p)
    <3>1. /\ pc[p] = "compared" /\ contacts' = contacts \cup Created(req[p], done[p])
          /\ recorded' = recorded \cup {req[p]}
      BY <2>7 DEF CommitImport
    <3>2. /\ req[p].op = "import" /\ done[p] = Len(req[p].rows)
          /\ \A s \in recorded : s.op = "import" => s.key # req[p].key
          /\ Holds(p) = FirmsOf(req[p].rows, done[p])
      BY <3>1, Committed
    <3>3. CASE d \in contacts \cup Created(r, n)
      <4>1. d.firm \in Firms(organizations) \cup FirmsOf(r.rows, n)
        BY <3>3, CreatedIs DEF Contacts
      <4>2. \A f \in Firms(organizations) \cup FirmsOf(r.rows, n) :
              Org(Upserted(r, n), f) = Org(UpsertedTo(organizations', r, n), f)
        BY <1>3, <2>1, <2>7, NamesStay DEF UpsertedTo
      <4>3. Duplicates(c, d, UpsertedTo(organizations', r, n))
        BY <2>1
      <4>4. /\ Org(Upserted(r, n), c.firm) = Org(UpsertedTo(organizations', r, n), c.firm)
            /\ Org(Upserted(r, n), d.firm) = Org(UpsertedTo(organizations', r, n), d.firm)
        BY <2>4, <4>1, <4>2
      <4>5. Duplicates(c, d, Upserted(r, n))
        BY <4>3, <4>4, SameOrgs
      <4> QED
        BY <2>1, <2>5, <3>3, <4>5
    <3>4. CASE d \in Created(req[p], done[p])
      <4>1. d.id[1] = req[p].key
        BY <3>4, CreatedIs
      <4>2. ImportOf(d)' = req[p]
        <5>1. (CHOOSE s \in recorded' : s.op = "import" /\ s.key = d.id[1]) = req[p]
          BY <3>1, <3>2, <4>1
        <5> QED
          BY <5>1 DEF ImportOf
      <4>3. {r, req[p]} \in overlapped
        <5>1. Running(p) /\ Running(q) /\ Compete(r, req[p])
          BY <2>1, <2>2, <3>1, <3>2 DEF Running, Compete
        <5> QED
          BY <1>3, <5>1 DEF InFlight
      <4>4. FirmsOf(r.rows, Len(r.rows)) \cap FirmsOf(req[p].rows, Len(req[p].rows)) = {}
        BY <1>3, <2>2, <3>2 DEF HoldsApart
      <4> QED
        BY <1>1, <2>1, <3>1, <3>4, <4>2, <4>3, <4>4 DEF Known
    <3> QED
      BY <2>1, <3>1, <3>3, <3>4
  <2> QED
    BY <2>6, <2>7, Importing
<1> QED
  BY <1>2, <1>3

\* Duplicates that were found are still on record, and those a commit brings
\* are, unless their imports were apart.
LEMMA DuplicatesKept ==
  ASSUME Typed, Sessions, Keys, HoldsApart, InFlight, Organizations, Contacts, Compared,
         DuplicatesFound, NEW p \in Proc, Step(p), UNCHANGED sending
  PROVE  DuplicatesFound'
<1> SUFFICES ASSUME NEW c \in contacts', NEW d \in contacts',
                    Duplicates(c, d, organizations')
             PROVE  \/ {c.id, d.id} \in candidates'
                    \/ Apart(ImportOf(c), ImportOf(d))'
  BY DEF DuplicatesFound, Apart
<1>1. overlapped \subseteq overlapped' /\ candidates \subseteq candidates'
  BY InFlightKept, Importing DEF CommitImport
<1>2. ASSUME c \in contacts, d \in contacts, Duplicates(c, d, organizations)
      PROVE  \/ {c.id, d.id} \in candidates'
             \/ Apart(ImportOf(c), ImportOf(d))'
  <2>1. ImportOf(c)' = ImportOf(c) /\ ImportOf(d)' = ImportOf(d)
    BY <1>2, ImportOfStays
  <2>2. {c.id, d.id} \in candidates \/ Apart(ImportOf(c), ImportOf(d))
    BY <1>2 DEF DuplicatesFound, Apart
  <2> QED
    BY <1>1, <2>1, <2>2 DEF Apart
<1>3. CASE UNCHANGED <<organizations, contacts>>
  BY <1>2, <1>3
<1>4. CASE CommitImport(p)
  <2> DEFINE r == req[p]
             new == Created(r, done[p])
  <2>1. /\ pc[p] = "compared" /\ organizations' = Upserted(r, done[p])
        /\ contacts' = contacts \cup new /\ candidates' = candidates \cup pairs[p]
        /\ recorded' = recorded \cup {r}
    BY <1>4 DEF CommitImport
  <2>2. /\ r \in Request /\ r.op = "import" /\ done[p] = Len(r.rows)
        /\ done[p] \in 0 .. Len(r.rows)
        /\ \A s \in recorded : s.op = "import" => s.key # r.key
    BY <2>1, Committed
  <2>3. ASSUME NEW x \in new, NEW y \in contacts', Duplicates(x, y, organizations')
        PROVE  \/ {x.id, y.id} \in candidates'
               \/ Apart(ImportOf(x), ImportOf(y))'
    <3>1. {x.id, y.id} \in pairs[p] \/ (y \in contacts /\ Apart(r, ImportOf(y)))
      BY <2>1, <2>3 DEF Compared
    <3>2. y \in contacts => ImportOf(y)' = ImportOf(y)
      BY ImportOfStays
    <3>3. ImportOf(x)' = r
      <4>1. x.id[1] = r.key
        BY CreatedIs
      <4>2. (CHOOSE s \in recorded' : s.op = "import" /\ s.key = x.id[1]) = r
        BY <2>1, <2>2, <4>1
      <4> QED
        BY <4>2 DEF ImportOf
    <3> QED
      BY <1>1, <2>1, <3>1, <3>2, <3>3 DEF Apart
  <2>4. CASE c \in new
    BY <2>3, <2>4
  <2>5. CASE d \in new
    <3>1. Duplicates(d, c, organizations')
      BY Symmetric
    <3>2. \/ {d.id, c.id} \in candidates'
          \/ Apart(ImportOf(d), ImportOf(c))'
      BY <2>3, <2>5, <3>1
    <3>3. \A s, t : {s, t} = {t, s} /\ s \cap t = t \cap s
      OBVIOUS
    <3> QED
      BY <3>2, <3>3 DEF Apart
  <2>6. CASE c \in contacts /\ d \in contacts
    <3>1. c.firm \in Firms(organizations) /\ d.firm \in Firms(organizations)
      BY <2>6 DEF Contacts
    <3>2. OneEach(organizations') /\ organizations \subseteq organizations'
      BY OrganizationsKept DEF Organizations
    <3>3. /\ Org(organizations', c.firm) = Org(organizations, c.firm)
          /\ Org(organizations', d.firm) = Org(organizations, d.firm)
      BY <3>1, <3>2, OrgStays
    <3>4. Duplicates(c, d, organizations)
      BY <3>3, SameOrgs
    <3> QED
      BY <1>2, <2>6, <3>4
  <2> QED
    BY <2>1, <2>4, <2>5, <2>6
<1> QED
  BY <1>3, <1>4, Importing

-------------------------------------------------------------------------------
(***************************************************************************)
(* The theorems.                                                           *)
(***************************************************************************)

\* The empty tables satisfy the invariant.
LEMMA InitIInv ==
  ASSUME Init
  PROVE  IInv
<1>1. Typed
  BY FS_EmptySet DEF Init, Typed, States
<1>2. Sessions
  BY DEF Init, Sessions, Session
<1>3. Keys
  BY DEF Init, Keys, Registered
<1>4. HoldsApart
  BY DEF Init, HoldsApart, Holds
<1>5. InFlight
  BY DEF Init, InFlight, Running
<1>6. Organizations
  BY DEF Init, Organizations, OneEach
<1>7. Contacts
  BY DEF Init, Contacts
<1>8. Decided /\ DecidedOnce
  BY DEF Init, Decided, DecidedOnce, DecisionsOf
<1>9. AppliedOnce
  <2>1. \A s \in Suggestion : DecisionsOf(s) = {}
    BY DEF Init, DecisionsOf
  <2>2. \A s \in Suggestion : {r \in DecisionsOf(s) : r.decision = "APPROVE"} = {}
    BY <2>1
  <2>3. \A s \in Suggestion : {r.decision : r \in DecisionsOf(s)} = {}
    BY <2>1
  <2>4. \A s \in Suggestion : applied[s] = 0 /\ status[s] = "PENDING"
    BY DEF Init
  <2> QED
    BY <2>2, <2>3, <2>4, FS_EmptySet DEF AppliedOnce
<1>10. Compared /\ DuplicatesFound
  BY DEF Init, Compared, DuplicatesFound
<1> QED
  BY <1>1, <1>2, <1>3, <1>4, <1>5, <1>6, <1>7, <1>8, <1>9, <1>10 DEF IInv

\* Every step preserves the inductive invariant.
LEMMA NextIInv ==
  ASSUME IInv, [Next]_vars
  PROVE  IInv'
<1>1. CASE Next
  <2>1. PICK p \in Proc : Step(p)
    BY <1>1 DEF Next
  <2>2. UNCHANGED sending
    BY <1>1 DEF Next
  <2>3. Typed' /\ Sessions'
    BY <2>1, <2>2, TypedKept, SessionsKept DEF IInv
  <2>4. Keys' /\ HoldsApart' /\ InFlight'
    BY <2>1, KeysKept, HoldsKept, InFlightKept DEF IInv
  <2>5. Organizations' /\ Contacts'
    BY <2>1, OrganizationsKept, ContactsKept DEF IInv
  <2>6. Decided' /\ DecidedOnce' /\ AppliedOnce'
    BY <2>1, DecidedKept, AppliedKept DEF IInv
  <2>7. Compared' /\ DuplicatesFound'
    BY <2>1, <2>2, ComparedKept, DuplicatesKept DEF IInv
  <2> QED
    BY <2>3, <2>4, <2>5, <2>6, <2>7 DEF IInv
<1>2. CASE UNCHANGED vars
  <2> USE <1>2 DEF vars, tables, work
  <2>1. Typed' /\ Sessions'
    BY DEF IInv, Typed, Sessions, Session
  <2>2. Keys' /\ InFlight'
    BY DEF IInv, Keys, Registered, Recorded, InFlight, Running
  <2>3. HoldsApart'
    <3>1. \A p \in Proc : Holds(p)' = Holds(p)
      BY DEF Holds
    <3> QED BY <3>1 DEF IInv, HoldsApart
  <2>4. Organizations' /\ Contacts'
    BY DEF IInv, Organizations, Contacts
  <2>5. Decided' /\ DecidedOnce'
    BY DEF IInv, Decided, DecidedOnce, DecisionsOf
  <2>6. AppliedOnce'
    BY DEF IInv, AppliedOnce, DecisionsOf
  <2>7. \A d : ImportOf(d)' = ImportOf(d)
    BY DEF ImportOf
  <2>8. DuplicatesFound'
    BY <2>7 DEF IInv, DuplicatesFound
  <2>9. Compared'
    BY ComparedStays DEF IInv
  <2> QED
    BY <2>1, <2>2, <2>3, <2>4, <2>5, <2>6, <2>8, <2>9 DEF IInv
<1> QED
  BY <1>1, <1>2

\* The inductive invariant holds throughout.
THEOREM ProspectsInvariant == Spec => []IInv
<1>1. Init => IInv
  BY InitIInv
<1>2. IInv /\ [Next]_vars => IInv'
  BY NextIInv
<1> QED
  BY <1>1, <1>2, PTL DEF Spec

\* The tables of prospects keep their keys and references, whatever imports
\* and decisions race, and no organization's row is locked twice.
THEOREM ProspectTypes == Spec => []TypeOK
<1>1. IInv => TypeOK
  <2> SUFFICES ASSUME IInv PROVE TypeOK
    OBVIOUS
  <2> USE DEF IInv
  <2>1. \A c, d \in contacts : c.id = d.id => c = d
    <3> SUFFICES ASSUME NEW c \in contacts, NEW d \in contacts, c.id = d.id PROVE c = d
      OBVIOUS
    <3>1. PICK r \in recorded : r.op = "import" /\ c \in Created(r, Len(r.rows))
      BY DEF Contacts
    <3>5. PICK i \in 1 .. Len(r.rows) :
            c = [id |-> <<r.key, i>>, firm |-> FirmOf[r.rows[i].org], row |-> r.rows[i]]
      BY <3>1 DEF Created
    <3>2. PICK s \in recorded : s.op = "import" /\ d \in Created(s, Len(s.rows))
      BY DEF Contacts
    <3>6. PICK j \in 1 .. Len(s.rows) :
            d = [id |-> <<s.key, j>>, firm |-> FirmOf[s.rows[j].org], row |-> s.rows[j]]
      BY <3>2 DEF Created
    <3>3. <<r.key, i>> = <<s.key, j>>
      BY <3>5, <3>6
    <3>4. r = s /\ i = j
      BY <3>1, <3>2, <3>3 DEF Keys
    <3> QED
      BY <3>4, <3>5, <3>6
  <2>2. \A c \in contacts : \E o \in organizations : o.firm = c.firm
    BY DEF Contacts, Firms
  <2>3. recorded \subseteq Request /\ req \in [Proc -> Request \cup {NoRequest}]
    BY ProspectsAssumption DEF Typed
  <2>4. \A p \in Proc : ~Running(p) =>
          req[p] = NoRequest /\ done[p] = 0 /\ pairs[p] = {} /\ target[p] = {}
    BY DEF Running, Sessions, Session
  <2>5. (UNION candidates) \cup decisionMakers \subseteq Ids(contacts)
    <3>1. UNION candidates \subseteq Ids(contacts)
      BY DEF Contacts
    <3>2. decisionMakers \subseteq Ids(contacts)
      BY DEF Contacts
    <3> QED BY <3>1, <3>2
  <2>6. \A o, u \in organizations : o.firm = u.firm => o = u
    BY DEF Organizations, OneEach
  <2>7. \A p, q \in Proc : p # q => Holds(p) \cap Holds(q) = {}
    BY DEF HoldsApart
  <2>8. /\ sending \in Scenarios /\ organizations \subseteq [firm : Firm, name : Name]
        /\ status \in [Suggestion -> {"PENDING", "APPROVED", "REJECTED"}]
        /\ applied \in [Suggestion -> Nat]
        /\ \A r, s \in recorded : r.op = s.op /\ r.key = s.key => r = s
    BY DEF Typed, Organizations, Keys
  <2>9. pc \in [Proc -> {"idle", "begun", "importing", "compared",
                          "deciding", "pending", "applied"}]
    BY DEF Typed, States
  <2> QED
    BY <2>1, <2>2, <2>3, <2>4, <2>5, <2>6, <2>7, <2>8, <2>9 DEF TypeOK
<1> QED
  BY <1>1, ProspectsInvariant, PTL

\* Possible duplicates are reported, unless their imports were in flight
\* together and name no common organization.
THEOREM DuplicatesAreFound == Spec => []DuplicatesFound
BY ProspectsInvariant, PTL DEF IInv

\* A suggestion is decided twice only by decisions in flight together.
THEOREM DecidedOnceUnlessRacing == Spec => []DecidedOnce
BY ProspectsInvariant, PTL DEF IInv

\* A suggestion is applied as often as approvals of it were answered.
THEOREM AppliedOncePerApproval == Spec => []AppliedOnce
BY ProspectsInvariant, PTL DEF IInv

===============================================================================
