-------------------------- MODULE PairingProtocol --------------------------
(***************************************************************************)
(* What pairing promises the parent and the device, with nothing about     *)
(* codes, heartbeats, deadlines and statements: a session is claimed by    *)
(* one device for good, a device is registered exactly when the parent     *)
(* confirms the session it claimed, what was decided stays decided, and a  *)
(* session disappears only when its customer opens another one.            *)
(***************************************************************************)
CONSTANTS Customers, Devices, Ids, NoDevice

VARIABLES session,     \* session[i]: phase, customer and device of session i
          registered   \* pairs of a customer and a device

vars == <<session, registered>>

Unborn == [phase |-> "unborn"]

Gone == [phase |-> "gone"]

Alive == {i \in Ids : session[i] \notin {Unborn, Gone}}

In(phase) == {i \in Alive : session[i].phase = phase}

Init == /\ session = [i \in Ids |-> Unborn]
        /\ registered = {}

\* The customer's earlier session makes room for the new one.
Open(i, c) ==
    /\ session[i] = Unborn
    /\ session' = [j \in Ids |->
          IF j = i THEN [phase |-> "waiting", customer |-> c, device |-> NoDevice]
          ELSE IF j \in Alive /\ session[j].customer = c THEN Gone
          ELSE session[j]]
    /\ UNCHANGED registered

Claim(i, d) ==
    /\ i \in In("waiting")
    /\ session' = [session EXCEPT ![i] = [phase |-> "pending", customer |-> @.customer,
                                          device |-> d]]
    /\ UNCHANGED registered

Decide(i, phase) ==
    /\ i \in In("pending")
    /\ session' = [session EXCEPT ![i] = [phase |-> phase, customer |-> @.customer,
                                          device |-> @.device]]

Confirm(i) == /\ Decide(i, "confirmed")
              /\ registered' = registered \cup {<<session[i].customer, session[i].device>>}

Cancel(i) == Decide(i, "cancelled") /\ UNCHANGED registered

Next == \E i \in Ids : \/ Confirm(i) \/ Cancel(i)
                       \/ \E c \in Customers : Open(i, c)
                       \/ \E d \in Devices : Claim(i, d)

Spec == Init /\ [][Next]_vars
=============================================================================
