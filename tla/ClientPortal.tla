----------------------------- MODULE ClientPortal -----------------------------
(***************************************************************************)
(* client-portal-service.ts: administrators share matters and their        *)
(* documents with client members and revoke the shares; members read what  *)
(* is shared with them.  Every operation is a transaction at READ          *)
(* COMMITTED whose statements each see what is committed by then (Admit,   *)
(* FirstRead, SecondRead) and whose writes become visible when it commits. *)
(* No locks are taken.                                                     *)
(*                                                                         *)
(* A row of ClientMatterShare or ClientDocumentShare is identified by the  *)
(* request that inserted it.  A matter or document to share exists, is not *)
(* archived and, for a document, has been scanned CLEAN.                   *)
(***************************************************************************)
EXTENDS Integers, FiniteSets

CONSTANTS
  Proc,       \* transactions in flight
  Member,     \* memberships with the role CLIENT
  Matter,
  Document,
  MatterOf,   \* MatterOf[d]: the matter of document d
  Key,        \* idempotency keys
  Request,    \* the requests administrators and members send
  NoRequest,  \* the request of an idle connection
  NoShare     \* no share row read

Target == Matter \cup Document

GrantRequest == [op : {"grant"}, key : Key, member : Member, target : Target]
RevokeRequest == [op : {"revoke"}, key : Key, member : Member, target : Target]
ListRequest == [op : {"list"}, member : Member]
GetRequest == [op : {"get"}, member : Member, target : Document]

ManageRequest == GrantRequest \cup RevokeRequest
RequestType == ManageRequest \cup ListRequest \cup GetRequest

ASSUME PortalAssumption ==
  /\ Matter \cap Document = {}
  /\ MatterOf \in [Document -> Matter]
  /\ Request \subseteq RequestType
  /\ NoRequest \notin RequestType
  /\ NoShare \notin Request

VARIABLES
  shares,     \* the rows of both share tables: [member, target, id]
  idem,       \* IdempotencyRecord rows: the request and its share's id
  pc,         \* pc[p]: how far transaction p has come
  req,        \* req[p]: the request p serves
  found,      \* found[p]: the id of the share row p has read
  shown,      \* shown[p]: what p has read for its member
  during,     \* history: the shares that existed while p was running
  overlapped  \* history: crossing grants and revocations that were in flight together

work == <<pc, req, found, shown>>
history == <<during, overlapped>>
vars == <<shares, idem, work, history>>

-------------------------------------------------------------------------------

Shared(m, t) == \E row \in shares : row.member = m /\ row.target = t
IdsOf(m, t) == {row.id : row \in {s \in shares : s.member = m /\ s.target = t}}

Manages(r) == r.op \in {"grant", "revoke"}

\* The matter and document operations keep their keys apart.
SameKind(t, u) == t \in Matter <=> u \in Matter

Recorded(r) ==
  \E row \in idem :
    /\ row.req.op = r.op /\ row.req.key = r.key
    /\ SameKind(row.req.target, r.target)

\* Mutant of MayGrant: the share of the matter is not asked for.
MayGrantAnyway(r) == TRUE

MayGrant(r) == r.target \in Document => Shared(r.member, MatterOf[r.target])

\* No document of the matter is still shared.
MayRevoke(r) ==
  r.target \in Matter =>
    ~ \E d \in Document : MatterOf[d] = r.target /\ Shared(r.member, d)

\* Mutant of MetadataVisible: only the share of the document is looked at.
MetadataVisibleAlone(m, d) == Shared(m, d)

\* What getClientPortalDocumentMetadata selects, in one statement.
MetadataVisible(m, d) == Shared(m, d) /\ Shared(m, MatterOf[d])

-------------------------------------------------------------------------------
(***************************************************************************)
(* The transactions.                                                       *)
(***************************************************************************)

Running(q) == pc[q] # "idle"

Moves(p, from, to) == pc[p] = from /\ pc' = [pc EXCEPT ![p] = to]

\* Mutant of Ends: what was read for the last member is kept.
EndsKeepingFound(p) ==
  /\ pc' = [pc EXCEPT ![p] = "idle"]
  /\ req' = [req EXCEPT ![p] = NoRequest]
  /\ shown' = [shown EXCEPT ![p] = {}]
  /\ UNCHANGED found

Ends(p) ==
  /\ pc' = [pc EXCEPT ![p] = "idle"]
  /\ req' = [req EXCEPT ![p] = NoRequest]
  /\ found' = [found EXCEPT ![p] = NoShare]
  /\ shown' = [shown EXCEPT ![p] = {}]

\* The shares that have existed since a reading transaction began.
Witness ==
  during' = [q \in Proc |->
    IF pc'[q] = "idle" \/ Manages(req'[q]) THEN {} ELSE during[q] \cup shares']

\* g shares a document whose matter v takes away.
Crossing(g, v) ==
  /\ g.op = "grant" /\ g.target \in Document
  /\ v.op = "revoke" /\ v.target = MatterOf[g.target] /\ v.member = g.member

\* The pairs of r with a request in flight.
Pairs(r) ==
  LET others == {req[q] : q \in {s \in Proc : Running(s)}}
  IN  ({r} \X others) \cup (others \X {r})

Begin(p) ==
  \E r \in Request :
    /\ Moves(p, "idle", "begun")
    /\ req' = [req EXCEPT ![p] = r]
    /\ overlapped' = overlapped \cup
         {pair \in Pairs(r) : Crossing(pair[1], pair[2])}
    /\ UNCHANGED <<shares, idem, found, shown>>

\* A recorded request is answered with the row it made: a revocation with
\* its response, a grant with the share, which throws if the share is gone.
Replay(p) ==
  /\ pc[p] = "begun"
  /\ \E row \in idem :
       /\ row.req = req[p]
       /\ row.req.op = "grant" => \E s \in shares : s.id = row.id
  /\ Ends(p)
  /\ UNCHANGED <<shares, idem, overlapped>>

\* The caller is authorized, and the member an active client.
Admit(p) ==
  /\ Moves(p, "begun", "admitted")
  /\ Manages(req[p]) => ~Recorded(req[p])
  /\ UNCHANGED <<shares, idem, req, found, shown, overlapped>>

\* The row there is for the member and the target of p's request, if any.
Finds(p) ==
  found' = [found EXCEPT ![p] =
    LET ids == IdsOf(req[p].member, req[p].target)
    IN  IF ids = {} THEN NoShare ELSE CHOOSE id \in ids : TRUE]

\* The statement that may refuse a grant comes before the lookup of its upsert;
\* a revocation looks for its share before it counts the documents.
FirstRead(p) ==
  /\ Moves(p, "admitted", "reading")
  /\ \/ req[p].op = "grant" /\ MayGrant(req[p]) /\ UNCHANGED found
     \/ req[p].op = "revoke" /\ Shared(req[p].member, req[p].target) /\ Finds(p)
  /\ UNCHANGED <<shares, idem, req, shown, overlapped>>

SecondRead(p) ==
  /\ Moves(p, "reading", "checked")
  /\ \/ req[p].op = "grant" /\ Finds(p)
     \/ req[p].op = "revoke" /\ MayRevoke(req[p]) /\ UNCHANGED found
  /\ UNCHANGED <<shares, idem, req, shown, overlapped>>

Record(r, id) == idem' = idem \cup {[req |-> r, id |-> id]}

\* The upsert of a grant leaves an existing row alone.  Whether it is one
\* statement, or a lookup and then an insert, is up to Prisma: with the latter
\* it may return a row that has just been deleted.
CommitGrant(p) ==
  LET r == req[p] IN
  /\ pc[p] = "checked" /\ r.op = "grant"
  /\ ~Recorded(r)
  /\ \/ \E id \in IdsOf(r.member, r.target) : Record(r, id) /\ UNCHANGED shares
     \/ /\ ~Shared(r.member, r.target)
        /\ shares' = shares \cup {[member |-> r.member, target |-> r.target, id |-> r]}
        /\ Record(r, r)
     \/ found[p] # NoShare /\ Record(r, found[p]) /\ UNCHANGED shares
  /\ Ends(p)
  /\ UNCHANGED overlapped

\* Mutant of Deleted: the share of the member is deleted, whichever it is.
DeletedByTarget(r, id) == {s \in shares : s.member = r.member /\ s.target = r.target}

\* The row a revocation deletes, by its id.
Deleted(r, id) == {s \in shares : s.id = id}

\* Deleting a row that is gone throws.
CommitRevoke(p) ==
  LET r == req[p] IN
  /\ pc[p] = "checked" /\ r.op = "revoke"
  /\ ~Recorded(r)
  /\ Deleted(r, found[p]) # {}
  /\ shares' = shares \ Deleted(r, found[p])
  /\ Record(r, found[p])
  /\ Ends(p)
  /\ UNCHANGED overlapped

\* listClientPortalMatters loads the shared matters first and their shared
\* documents with the next statement.
ListMatters(p) ==
  /\ Moves(p, "admitted", "listing")
  /\ req[p].op = "list"
  /\ shown' = [shown EXCEPT ![p] = {m \in Matter : Shared(req[p].member, m)}]
  /\ UNCHANGED <<shares, idem, req, found, overlapped>>

ListDocuments(p) ==
  /\ Moves(p, "listing", "answering")
  /\ shown' = [shown EXCEPT ![p] = @ \cup
       {d \in Document : MatterOf[d] \in shown[p] /\ Shared(req[p].member, d)}]
  /\ UNCHANGED <<shares, idem, req, found, overlapped>>

Get(p) ==
  /\ Moves(p, "admitted", "answering")
  /\ req[p].op = "get"
  /\ MetadataVisible(req[p].member, req[p].target)
  /\ shown' = [shown EXCEPT ![p] = {req[p].target}]
  /\ UNCHANGED <<shares, idem, req, found, overlapped>>

Answer(p) ==
  /\ pc[p] = "answering"
  /\ Ends(p)
  /\ UNCHANGED <<shares, idem, overlapped>>

\* A check throws (the caller is no administrator, the membership is not
\* active), the connection or the process dies.
Fail(p) ==
  /\ pc[p] # "idle"
  /\ Ends(p)
  /\ UNCHANGED <<shares, idem, overlapped>>

-------------------------------------------------------------------------------

Init ==
  /\ shares = {}
  /\ idem = {}
  /\ pc = [p \in Proc |-> "idle"]
  /\ req = [p \in Proc |-> NoRequest]
  /\ found = [p \in Proc |-> NoShare]
  /\ shown = [p \in Proc |-> {}]
  /\ during = [p \in Proc |-> {}]
  /\ overlapped = {}

Step(p) ==
  \/ Begin(p)
  \/ Replay(p)
  \/ Admit(p)
  \/ FirstRead(p)
  \/ SecondRead(p)
  \/ CommitGrant(p)
  \/ CommitRevoke(p)
  \/ ListMatters(p)
  \/ ListDocuments(p)
  \/ Get(p)
  \/ Answer(p)
  \/ Fail(p)

Next == (\E p \in Proc : Step(p)) /\ Witness

Spec == Init /\ [][Next]_vars

-------------------------------------------------------------------------------
(***************************************************************************)
(* Properties.                                                             *)
(***************************************************************************)

\* The tables and transactions are well typed; a member has a target shared
\* at most once.
TypeOK ==
  /\ shares \subseteq [member : Member, target : Target, id : Request]
  /\ \A s, t \in shares : s.member = t.member /\ s.target = t.target => s = t
  /\ idem \subseteq [req : Request, id : Request]
  /\ pc \in [Proc ->
       {"idle", "begun", "admitted", "reading", "checked", "listing", "answering"}]
  /\ req \in [Proc -> Request \cup {NoRequest}]
  /\ found \in [Proc -> Request \cup {NoShare}]
  /\ \A p \in Proc : pc[p] = "idle" =>
       req[p] = NoRequest /\ found[p] = NoShare /\ shown[p] = {}
  /\ shown \in [Proc -> SUBSET Target]

\* Every share there is was granted, to that member and of that target, by a
\* request that was answered; and every grant that was answered is either still
\* in force or undone by one revocation that was answered, and a revoked share
\* never comes back: retried grants, grants and revocations that race, and a
\* share that is granted again while it is being revoked included.
SharesAccounted ==
  /\ \A s \in shares : \E row \in idem :
       /\ row.req.op = "grant" /\ row.id = s.id
       /\ row.req.member = s.member /\ row.req.target = s.target
  /\ \A row \in idem :
       LET undone == {r \in idem : r.req.op = "revoke" /\ r.id = row.id} IN
       /\ (\E s \in shares : s.id = row.id) <=> undone = {}
       /\ Cardinality(undone) <= 1

\* A document is shared without its matter only if its grant and a
\* revocation of the matter were in flight together, each not seeing what the
\* other was about to commit.
OrphansNeedOverlap ==
  \A s \in shares :
    s.target \in Document /\ ~Shared(s.member, MatterOf[s.target]) =>
      \E pair \in overlapped : pair[1].target = s.target /\ pair[1].member = s.member

\* What a member is shown was shared with that member, the document and its
\* matter, at some time while the request was served, although a document's
\* share may outlive its matter's.
ShownWasShared ==
  \A p \in Proc : \A d \in shown[p] \cap Document :
    \A t \in {d, MatterOf[d]} :
      \E s \in during[p] : s.target = t /\ s.member = req[p].member

===============================================================================
