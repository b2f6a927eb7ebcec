---------------------------- MODULE MCApprovals ----------------------------
(***************************************************************************)
(* A larger instance of AccessRequests for TLC, explored in two parts: up  *)
(* to two requests for two sites while policies and approvals change, but  *)
(* without the parent's list, and three requests for one site while the    *)
(* policy stays as it is.  AccessRequests.cfg has all of it on one site.   *)
(***************************************************************************)
EXTENDS MCAccessRequests

VARIABLE part

Made == {i \in Ids : requests[i] # NoRequest}
Coming == {p \in Handlers : IsCreating(op[p])}

\* The profile's row exists; AccessRequests.cfg also begins without it.
MCInit == Init /\ config.revision = 1 /\ part \in {"two sites", "three requests"}

MCNext ==
    /\ Next /\ UNCHANGED part
    /\ \/ /\ part = "two sites" /\ Cardinality(Made') + Cardinality(Coming') <= 2
          /\ \A p \in Handlers : op'[p].step # "list"
       \/ /\ part = "three requests" /\ config' = config
          /\ \A p \in Handlers : op'[p].step = "config" => op'[p].key.site = s1

MCSpec == MCInit /\ [][MCNext]_<<vars, part>>
=============================================================================
