--------------------------- MODULE AccessDecision ---------------------------
(***************************************************************************)
(* What the access-request API promises of each blocked-site request, with *)
(* nothing about handlers, statements or profile policies: a request is    *)
(* asked once, is settled once, an approval is recorded only after the     *)
(* policy grants exactly that decision, a parent decides inside the        *)
(* request's lifetime, and a request expires only when it is over.         *)
(***************************************************************************)
EXTENDS Integers

CONSTANTS Ids,              \* request identifiers
          Decision,         \* decisions a parent may take
          NoDecision,
          PendingLifetime

VARIABLES now,              \* wall clock
          request,          \* request[i]: what has become of request i
          grants            \* grants[i]: decisions the policy holds for i's sake

vars == <<now, request, grants>>

Unasked == [state |-> "unasked", asked |-> 0, decision |-> NoDecision, decided |-> 0]

Deadline(i) == request[i].asked + PendingLifetime

\* Moments at which request i could be decided.
InTime(i) == {t \in request[i].asked .. now : t < Deadline(i)}

Init == /\ now \in Nat
        /\ request = [i \in Ids |-> Unasked]
        /\ grants = [i \in Ids |-> {}]

Tick == /\ now' > now
        /\ now' \in Nat
        /\ UNCHANGED <<request, grants>>

Ask(i) == /\ request[i].state = "unasked"
          /\ \E t \in 0 .. now :
                request' = [request EXCEPT ![i] = [state |-> "pending", asked |-> t,
                                                  decision |-> NoDecision, decided |-> 0]]
          /\ UNCHANGED <<now, grants>>

Grant(i, d) == /\ request[i].state # "unasked"
               /\ grants' = [grants EXCEPT ![i] = @ \cup {d}]
               /\ UNCHANGED <<now, request>>

Settle(i, outcome, d, t) ==
    /\ request[i].state = "pending"
    /\ request' = [request EXCEPT ![i] = [state |-> outcome, asked |-> @.asked,
                                          decision |-> d, decided |-> t]]
    /\ UNCHANGED <<now, grants>>

Approve(i, d) == d \in grants[i] /\ \E t \in InTime(i) : Settle(i, "approved", d, t)

Reject(i) == \E t \in InTime(i) : Settle(i, "rejected", NoDecision, t)

Expire(i) == now >= Deadline(i) /\ Settle(i, "expired", NoDecision, 0)

Next == \/ Tick
        \/ \E i \in Ids : \/ Ask(i) \/ Reject(i) \/ Expire(i)
                          \/ \E d \in Decision : Grant(i, d) \/ Approve(i, d)

Spec == Init /\ [][Next]_vars
=============================================================================
