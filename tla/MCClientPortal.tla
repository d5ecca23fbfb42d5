---------------------------- MODULE MCClientPortal ----------------------------
(***************************************************************************)
(* A client with a matter and a document that are shared, revoked and      *)
(* shared again, with retries, while the client reads.                     *)
(***************************************************************************)
EXTENDS ClientPortal, TLC

CONSTANTS client, matter, contract

MCMatterOf == contract :> matter

Grant(key, t) == [op |-> "grant", key |-> key, member |-> client, target |-> t]
Revoke(key, t) == [op |-> "revoke", key |-> key, member |-> client, target |-> t]

MCRequests ==
  { Grant("k1", matter),
    Grant("k2", matter),
    Grant("k3", contract),
    Grant("k4", contract),
    Revoke("k5", matter),
    Revoke("k6", contract),
    Revoke("k7", contract),
    [op |-> "list", member |-> client],
    [op |-> "get", member |-> client, target |-> contract] }

===============================================================================
