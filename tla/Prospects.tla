------------------------------ MODULE Prospects ------------------------------
(***************************************************************************)
(* Two operations on a tenant's prospects: importProspects                 *)
(* (import-service.ts) creates organizations and contacts from the rows of *)
(* a file and records the pairs of contacts that may be duplicates;        *)
(* decideAiSuggestion (approval-service.ts) applies a suggestion of the AI *)
(* pipeline to an organization, a deal or a contact, or rejects it.        *)
(*                                                                         *)
(* Both are transactions at READ COMMITTED: a statement sees what is       *)
(* committed when it starts and what its own transaction has written.  The *)
(* row of an organization that a transaction has inserted or updated stays *)
(* locked until it ends, and so does the value of a unique key: others     *)
(* wait.  An audit event ends each transaction (AuditChain).               *)
(*                                                                         *)
(* A contact is identified by the key of its import and the number of its  *)
(* row.  A note is never edited, so a suggestion never becomes STALE.      *)
(***************************************************************************)
EXTENDS Integers, FiniteSets, Sequences

CONSTANTS
  Proc,        \* transactions in flight
  Name,        \* the names of organizations, as they are written
  Firm,        \* normalized names, the key of an organization
  FirmOf,      \* FirmOf[n]: normalize(n)
  Words,       \* Words[n]: the set of words of an organization's name
  Row,         \* rows of the files: [org, person, email, phone]
  None,        \* no e-mail address, no telephone number
  Suggestion,  \* suggestions of the AI pipeline
  KindOf,      \* their kinds
  FirmAbout,   \* the organization of the deal a suggestion is about
  PersonIn,    \* the words of the person a DECISION_MAKER suggestion names
  Request,     \* the requests users may send
  Scenarios,   \* the sets of requests that they send together
  NoRequest    \* the request of an idle connection

ImportRequest == [op : {"import"}, key : STRING, rows : Seq(Row)]
DecideRequest ==
  [op : {"decide"}, key : STRING, suggestion : Suggestion, decision : {"APPROVE", "REJECT"}]

ASSUME ProspectsAssumption ==
  /\ FirmOf \in [Name -> Firm]
  /\ \A n \in Name : IsFiniteSet(Words[n])
  /\ \A row \in Row : row.org \in Name /\ IsFiniteSet(row.person)
  /\ \A r \in Request : (r \in ImportRequest /\ r.rows # <<>>) \/ r \in DecideRequest
  /\ Scenarios \subseteq SUBSET Request
  /\ NoRequest \notin Request

VARIABLES
  sending,         \* the requests of this behaviour
  organizations,   \* Organization rows: [firm, name]
  contacts,        \* Contact rows: [id, firm, row]
  candidates,      \* DuplicateCandidate rows: the ids of the two contacts
  decisionMakers,  \* the contacts with isDecisionMaker
  status,          \* status[s]: the column of AiSuggestion
  applied,         \* applied[s]: how often s has been applied to its target
  recorded,        \* ImportRun and IdempotencyRecord rows: their requests
  pc,              \* pc[p]: how far transaction p has come
  req,             \* req[p]: the request p serves
  done,            \* done[p]: the rows p has imported
  pairs,           \* pairs[p]: the duplicate candidates p has inserted
  target,          \* target[p]: the contacts p has made decision makers
  overlapped       \* history: the requests that were in flight together

tables == <<organizations, contacts, candidates, decisionMakers, status, applied, recorded>>
work == <<req, done, pairs, target>>
vars == <<sending, tables, pc, work, overlapped>>

-------------------------------------------------------------------------------
(***************************************************************************)
(* scoreContactDuplicate.                                                  *)
(***************************************************************************)

\* similarity(a, b) is Common(a, b) / Together(a, b), or 0 without words.
Common(a, b) == Cardinality(a \cap b)
Together(a, b) == Cardinality(a \cup b)
Similar(a, b) == a \cup b # {} /\ 5 * Common(a, b) >= 4 * Together(a, b)

\* The weighted score, rounded to thousandths, reaches 0.85.
Convincing(p, q, a, b) ==
  1000 * (7 * Common(p, q) * Together(a, b) + 3 * Common(a, b) * Together(p, q))
    >= 8495 * Together(p, q) * Together(a, b)

SameSignal(x, y) == x # None /\ x = y

\* isCandidate of two rows whose organizations are named xWords and yWords.
IsCandidate(x, xWords, y, yWords) ==
  \/ SameSignal(x.email, y.email)
  \/ SameSignal(x.phone, y.phone)
  \/ /\ Similar(x.person, y.person)
     /\ Similar(xWords, yWords)
     /\ Convincing(x.person, y.person, xWords, yWords)

\* Whether two contacts of a tenant with these organizations are candidates.
Duplicates(c, d, orgs) ==
  LET NamedAs(f) == (CHOOSE o \in orgs : o.firm = f).name
  IN  /\ c.id # d.id
      /\ IsCandidate(c.row, Words[NamedAs(c.firm)], d.row, Words[NamedAs(d.firm)])

-------------------------------------------------------------------------------
(***************************************************************************)
(* What a transaction holds and has written.                               *)
(***************************************************************************)

Running(p) == pc[p] # "idle"
Registered(p) == pc[p] \notin {"idle", "begun"}

Recorded(r) == \E s \in recorded : s.op = r.op /\ s.key = r.key

\* The firms of the first n rows.
FirmsOf(rows, n) == {FirmOf[rows[i].org] : i \in 1..n}

\* The organizations whose rows transaction p has locked.
Holds(p) ==
  IF pc[p] \in {"importing", "compared"} THEN FirmsOf(req[p].rows, done[p])
  ELSE IF pc[p] = "applied"
          /\ KindOf[req[p].suggestion] \in {"SECURITY_CONCERN", "INTEGRATION_REQUIREMENT"}
       THEN {FirmAbout[req[p].suggestion]}
       ELSE {}

LockedByOther(p, f) == \E q \in Proc \ {p} : f \in Holds(q)

\* The rows import r has upserted and inserted, next to those committed.
Upserted(r, n) ==
  organizations \cup
    {[firm |-> f, name |-> r.rows[CHOOSE i \in 1..n :
        FirmOf[r.rows[i].org] = f /\ \A j \in 1..(i - 1) : FirmOf[r.rows[j].org] # f].org] :
     f \in FirmsOf(r.rows, n) \ {o.firm : o \in organizations}}

Created(r, n) ==
  {[id |-> <<r.key, i>>, firm |-> FirmOf[r.rows[i].org], row |-> r.rows[i]] : i \in 1..n}

-------------------------------------------------------------------------------

Moves(p, from, to) == pc[p] = from /\ pc' = [pc EXCEPT ![p] = to]

\* Mutant of Ends: the rows counted for the last import are kept.
EndsKeepingDone(p) ==
  /\ pc' = [pc EXCEPT ![p] = "idle"]
  /\ req' = [req EXCEPT ![p] = NoRequest]
  /\ pairs' = [pairs EXCEPT ![p] = {}]
  /\ target' = [target EXCEPT ![p] = {}]
  /\ UNCHANGED done

Ends(p) ==
  /\ pc' = [pc EXCEPT ![p] = "idle"]
  /\ req' = [req EXCEPT ![p] = NoRequest]
  /\ done' = [done EXCEPT ![p] = 0]
  /\ pairs' = [pairs EXCEPT ![p] = {}]
  /\ target' = [target EXCEPT ![p] = {}]

\* Two imports, or two decisions of one suggestion.
Compete(r, s) ==
  \/ r.op = "import" /\ s.op = "import"
  \/ r.op = "decide" /\ s.op = "decide" /\ r.suggestion = s.suggestion

Begin(p) ==
  \E r \in sending :
    /\ Moves(p, "idle", "begun")
    /\ req' = [req EXCEPT ![p] = r]
    /\ overlapped' = overlapped \cup
         {{r, req[q]} : q \in {s \in Proc : Running(s) /\ Compete(r, req[s])}}
    /\ UNCHANGED <<tables, done, pairs, target>>

\* A request that is recorded is answered with the run, or the suggestion.
Replay(p) ==
  /\ pc[p] = "begun"
  /\ req[p] \in recorded
  /\ Ends(p)
  /\ UNCHANGED <<tables, overlapped>>

\* Mutant of MayRegister: the record is looked up, but its key is not unique.
MayRegisterUnlessRecorded(p) == ~Recorded(req[p])

\* The key is free: no record has it, nor has a transaction in flight
\* inserted one, which would be waited for.
MayRegister(p) ==
  /\ ~Recorded(req[p])
  /\ \A q \in Proc \ {p} :
       Registered(q) => req[q].op # req[p].op \/ req[q].key # req[p].key

\* The row with the key is inserted before anything else.
Register(p) ==
  /\ Moves(p, "begun", IF req[p].op = "import" THEN "importing" ELSE "deciding")
  /\ MayRegister(p)
  /\ UNCHANGED <<tables, work, overlapped>>

-------------------------------------------------------------------------------
(***************************************************************************)
(* importProspects.                                                        *)
(***************************************************************************)

\* Mutant of FirmIsFree: the upsert does not wait for a row in use.
FirmIsFreeAlways(p, f) == TRUE

\* The upsert of a row that another transaction has written waits for it.
FirmIsFree(p, f) == ~LockedByOther(p, f)

\* The organization is upserted and the contact inserted.
ImportRow(p) ==
  /\ pc[p] = "importing"
  /\ done[p] < Len(req[p].rows)
  /\ FirmIsFree(p, FirmOf[req[p].rows[done[p] + 1].org])
  /\ done' = [done EXCEPT ![p] = @ + 1]
  /\ UNCHANGED <<tables, pc, req, pairs, target, overlapped>>

\* All contacts of the tenant are read, and the new ones compared with all.
Compare(p) ==
  /\ Moves(p, "importing", "compared")
  /\ done[p] = Len(req[p].rows)
  /\ LET new == Created(req[p], done[p])
         orgs == Upserted(req[p], done[p])
     IN  pairs' = [pairs EXCEPT ![p] =
           UNION {{{c.id, d.id} : d \in {x \in contacts \cup new : Duplicates(c, x, orgs)}} :
                  c \in new}]
  /\ UNCHANGED <<tables, req, done, target, overlapped>>

\* The run is COMPLETED, and all of it committed.
CommitImport(p) ==
  /\ pc[p] = "compared"
  /\ organizations' = Upserted(req[p], done[p])
  /\ contacts' = contacts \cup Created(req[p], done[p])
  /\ candidates' = candidates \cup pairs[p]
  /\ recorded' = recorded \cup {req[p]}
  /\ Ends(p)
  /\ UNCHANGED <<decisionMakers, status, applied, overlapped>>

-------------------------------------------------------------------------------
(***************************************************************************)
(* decideAiSuggestion.                                                     *)
(***************************************************************************)

\* Mutant of MayDecide: a suggestion is decided whatever its status.
MayDecideAlways(s) == TRUE

MayDecide(s) == status[s] = "PENDING"

\* The suggestion is read.
Consider(p) ==
  /\ Moves(p, "deciding", "pending")
  /\ MayDecide(req[p].suggestion)
  /\ UNCHANGED <<tables, work, overlapped>>

\* The people of an organization a name stands for.
Matching(s) == {c \in contacts : c.firm = FirmAbout[s] /\ c.row.person = PersonIn[s]}

\* An approved suggestion is applied.  A GENERAL_FIELD_UPDATE throws, and so
\* does a decision maker who is not a contact of the organization.
Apply(p) ==
  LET s == req[p].suggestion IN
  /\ Moves(p, "pending", "applied")
  /\ req[p].decision = "APPROVE"
  /\ \/ /\ KindOf[s] \in {"SECURITY_CONCERN", "INTEGRATION_REQUIREMENT"}
        /\ FirmIsFree(p, FirmAbout[s])
        /\ UNCHANGED target
     \/ KindOf[s] = "FOLLOW_UP_DATE" /\ UNCHANGED target
     \/ /\ KindOf[s] = "DECISION_MAKER"
        /\ \E c \in Matching(s) : target' = [target EXCEPT ![p] = {c.id}]
  /\ UNCHANGED <<tables, req, done, pairs, overlapped>>

\* The suggestion gets its status and all is committed.
CommitApproval(p) ==
  LET s == req[p].suggestion IN
  /\ pc[p] = "applied"
  /\ status' = [status EXCEPT ![s] = "APPROVED"]
  /\ applied' = [applied EXCEPT ![s] = @ + 1]
  /\ decisionMakers' = decisionMakers \cup target[p]
  /\ recorded' = recorded \cup {req[p]}
  /\ Ends(p)
  /\ UNCHANGED <<organizations, contacts, candidates, overlapped>>

CommitRejection(p) ==
  /\ pc[p] = "pending"
  /\ req[p].decision = "REJECT"
  /\ status' = [status EXCEPT ![req[p].suggestion] = "REJECTED"]
  /\ recorded' = recorded \cup {req[p]}
  /\ Ends(p)
  /\ UNCHANGED <<organizations, contacts, candidates, decisionMakers, applied, overlapped>>

-------------------------------------------------------------------------------

\* A check throws, a key turns out to be taken, the database ends a deadlock
\* of two imports, the transaction times out or the process dies.
Fail(p) ==
  /\ Running(p)
  /\ Ends(p)
  /\ UNCHANGED <<tables, overlapped>>

\* The organizations of the deals that suggestions are about exist.
Init ==
  /\ sending \in Scenarios
  /\ organizations \in
       {orgs \in SUBSET [firm : Firm, name : Name] :
          /\ \A o \in orgs : FirmOf[o.name] = o.firm
          /\ \A o, u \in orgs : o.firm = u.firm => o = u
          /\ {o.firm : o \in orgs} = {FirmAbout[s] : s \in Suggestion}}
  /\ contacts = {}
  /\ candidates = {}
  /\ decisionMakers = {}
  /\ status = [s \in Suggestion |-> "PENDING"]
  /\ applied = [s \in Suggestion |-> 0]
  /\ recorded = {}
  /\ pc = [p \in Proc |-> "idle"]
  /\ req = [p \in Proc |-> NoRequest]
  /\ done = [p \in Proc |-> 0]
  /\ pairs = [p \in Proc |-> {}]
  /\ target = [p \in Proc |-> {}]
  /\ overlapped = {}

Step(p) ==
  \/ Begin(p)
  \/ Replay(p)
  \/ Register(p)
  \/ ImportRow(p)
  \/ Compare(p)
  \/ CommitImport(p)
  \/ Consider(p)
  \/ Apply(p)
  \/ CommitApproval(p)
  \/ CommitRejection(p)
  \/ Fail(p)

Next == (\E p \in Proc : Step(p)) /\ UNCHANGED sending

Spec == Init /\ [][Next]_vars

-------------------------------------------------------------------------------
(***************************************************************************)
(* Properties.                                                             *)
(***************************************************************************)

Ids(cs) == {c.id : c \in cs}

\* The tables are well typed and keep their keys and references; no two
\* transactions in flight have an organization's row locked; an idle
\* connection has nothing left of its last request.
TypeOK ==
  /\ sending \in Scenarios
  /\ organizations \subseteq [firm : Firm, name : Name]
  /\ \A o, u \in organizations : o.firm = u.firm => o = u
  /\ \A c \in contacts : \E o \in organizations : o.firm = c.firm
  /\ \A c, d \in contacts : c.id = d.id => c = d
  /\ (UNION candidates) \cup decisionMakers \subseteq Ids(contacts)
  /\ status \in [Suggestion -> {"PENDING", "APPROVED", "REJECTED"}]
  /\ applied \in [Suggestion -> Nat]
  /\ recorded \subseteq Request
  /\ \A r, s \in recorded : r.op = s.op /\ r.key = s.key => r = s
  /\ pc \in [Proc -> {"idle", "begun", "importing", "compared",
                      "deciding", "pending", "applied"}]
  /\ req \in [Proc -> Request \cup {NoRequest}]
  /\ \A p, q \in Proc : p # q => Holds(p) \cap Holds(q) = {}
  /\ \A p \in Proc : ~Running(p) =>
       req[p] = NoRequest /\ done[p] = 0 /\ pairs[p] = {} /\ target[p] = {}

\* The request that imported a contact.
ImportOf(c) == CHOOSE r \in recorded : r.op = "import" /\ r.key = c.id[1]

\* Two contacts that may be the same person are reported, unless they were
\* imported at the same time by files that name no common organization:
\* imports that share one wait for each other, those that do not may each
\* look at the contacts before the other commits.
DuplicatesFound ==
  \A c, d \in contacts :
    Duplicates(c, d, organizations) =>
      \/ {c.id, d.id} \in candidates
      \/ LET r == ImportOf(c)  s == ImportOf(d) IN
         /\ {r, s} \in overlapped
         /\ FirmsOf(r.rows, Len(r.rows)) \cap FirmsOf(s.rows, Len(s.rows)) = {}

\* The decisions of s that were taken.
DecisionsOf(s) == {r \in recorded : r.op = "decide" /\ r.suggestion = s}

\* A suggestion is decided twice only by two requests that were in flight
\* together: both found it PENDING.
DecidedOnce ==
  \A s \in Suggestion : \A r, t \in DecisionsOf(s) : r # t => {r, t} \in overlapped

\* A suggestion is applied once for every approval that was answered, retries
\* included, and has the status of one of the decisions taken.
AppliedOnce ==
  \A s \in Suggestion :
    LET taken == {r.decision : r \in DecisionsOf(s)} IN
    /\ applied[s] = Cardinality({r \in DecisionsOf(s) : r.decision = "APPROVE"})
    /\ IF taken = {} THEN status[s] = "PENDING"
       ELSE \/ status[s] = "APPROVED" /\ "APPROVE" \in taken
            \/ status[s] = "REJECTED" /\ "REJECT" \in taken

===============================================================================
