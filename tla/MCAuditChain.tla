----------------------------- MODULE MCAuditChain -----------------------------
(***************************************************************************)
(* An instance of AuditChain: the ledger, period, reconciliation and       *)
(* payment transactions of finance-service.ts, which take at most one      *)
(* business lock before they append, and prospect imports, which lock      *)
(* organization rows in the order of the file.                             *)
(***************************************************************************)
EXTENDS AuditChain

CONSTANTS ledger, invoice, firmA, firmB

MCLocks == {ledger, invoice, firmA, firmB}

\* One ledger entry; a verified payment (payment and invoice events); an
\* operation without a lock of its own, such as a document scan result; and
\* two imports that upsert the same two organizations in opposite order.
MCFlows ==
  { [locks |-> <<ledger>>, appends |-> 1],
    [locks |-> <<invoice>>, appends |-> 2],
    [locks |-> <<>>, appends |-> 1],
    [locks |-> <<firmA, firmB>>, appends |-> 1],
    [locks |-> <<firmB, firmA>>, appends |-> 1] }
===============================================================================
