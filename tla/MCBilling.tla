------------------------------ MODULE MCBilling -------------------------------
(***************************************************************************)
(* A small tenant for model checking Billing: one matter that is opened,   *)
(* put on hold and closed, two time entries, one of which is claimed by    *)
(* two invoices and the other comes to whole cents or not, depending on    *)
(* which of two requests with one key records it, and payments of which    *)
(* not all fit.                                                            *)
(***************************************************************************)
EXTENDS Billing, TLC

CreateOf(key, units) == [op |-> "create", key |-> key, matter |-> "m", units |-> units]
ApproveOf(key, entry) == [op |-> "approve", key |-> key, entry |-> entry]
IssueOf(key, number, es) ==
  [op |-> "issue", key |-> key, matter |-> "m", number |-> number, entries |-> es]
PayOf(key, invoice, lawPay, cents) ==
  [op |-> "pay", key |-> key, invoice |-> invoice, lawPay |-> lawPay, cents |-> cents]
UpdateOf(status, hold) ==
  [op |-> "update", matter |-> "m", status |-> status, hold |-> hold]

MCRequests ==
  { [op |-> "open", matter |-> "m", status |-> "ACTIVE"],
    UpdateOf("CLOSED", TRUE),
    UpdateOf(Unchanged, FALSE),
    CreateOf("e1", 120),
    CreateOf("e2", 60),
    CreateOf("e2", 90),
    ApproveOf("a1", "e1"),
    ApproveOf("a2", "e1"),
    ApproveOf("a3", "e2"),
    IssueOf("i1", "n1", {"e1", "e2"}),
    IssueOf("i2", "n2", {"e1"}),
    PayOf("y1", "i1", "l1", 2),
    PayOf("y2", "i1", "l2", 1),
    PayOf("y3", "i1", "l2", 2) }

===============================================================================
