----------------------------- MODULE Receivables ------------------------------
(***************************************************************************)
(* What billing promises, without transactions, keys or locks: recorded    *)
(* time is approved, approved time is billed, each piece of time by one    *)
(* invoice and all the time of an invoice together, and what an invoice    *)
(* leaves to pay only falls, to zero at the least.  Billing is shown to    *)
(* implement this specification.                                           *)
(***************************************************************************)
EXTENDS Integers

CONSTANTS
  Entry,    \* identities of time entries
  Invoice,  \* identities of invoices
  Unissued  \* what is due of an invoice that does not exist

VARIABLES
  stage,  \* stage[e]: how far time entry e has come
  due     \* due[i]: the cents of invoice i not yet paid

Stages == {"none", "recorded", "approved", "billed"}

Init ==
  /\ stage = [e \in Entry |-> "none"]
  /\ due = [i \in Invoice |-> Unissued]

Advance(S, from, to) ==
  /\ \A e \in S : stage[e] = from
  /\ stage' = [e \in Entry |-> IF e \in S THEN to ELSE stage[e]]

Record(e) == Advance({e}, "none", "recorded") /\ UNCHANGED due

Approve(e) == Advance({e}, "recorded", "approved") /\ UNCHANGED due

\* Only invoice i changes, to a number of cents.
Sets(i) == due'[i] \in Nat /\ due' = [due EXCEPT ![i] = due'[i]]

Bill(i, S) ==
  /\ due[i] = Unissued
  /\ S # {}
  /\ Advance(S, "approved", "billed")
  /\ Sets(i)

Settle(i) ==
  /\ due[i] # Unissued
  /\ Sets(i)
  /\ due'[i] < due[i]
  /\ UNCHANGED stage

Next ==
  \/ \E e \in Entry : Record(e) \/ Approve(e)
  \/ \E i \in Invoice :
       \/ \E S \in SUBSET {e \in Entry : stage[e] = "approved"} : Bill(i, S)
       \/ Settle(i)

Spec == Init /\ [][Next]_<<stage, due>>

-------------------------------------------------------------------------------
\* No step takes billed time back, so that it could be billed again, or makes
\* an issued invoice disappear or leave more to pay than before.
OnlySettles ==
  /\ \A e \in Entry : stage[e] = "billed" => stage'[e] = "billed"
  /\ \A i \in Invoice :
       due[i] # Unissued => due'[i] # Unissued /\ due'[i] <= due[i]

===============================================================================
