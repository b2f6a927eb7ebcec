------------------------------ MODULE Pairing ------------------------------
(***************************************************************************)
(* Device pairing in the control service (internal/service/pairing*.go).   *)
(*                                                                         *)
(* A parent's app opens a session with a short code and keeps it alive by  *)
(* heartbeats, which rotate the code shortly before it expires.  A device  *)
(* claims the code, the parent confirms or cancels the device, and the     *)
(* device asks for the outcome with the proof its claim returned.          *)
(*                                                                         *)
(* Claim, confirm and cancel are one transaction each and one step here.   *)
(* Create and heartbeat look for a free code, and read rows and clocks,    *)
(* before their transaction, so op[p] keeps what they hold meanwhile.  The *)
(* unique indexes on the code and on the customer make an insert or update *)
(* fail, and its transaction roll back.                                    *)
(***************************************************************************)
EXTENDS Integers

CONSTANTS Customers, Devices, Codes,
          Ids,                 \* the random session identifiers
          Parents,             \* concurrent calls of parents' apps
          NoCode, NoDevice,
          WaitingLifetime,     \* pairingWaitingLifetime
          RotationThreshold,   \* pairingRotationThreshold
          ConfirmationTimeout, \* pairingPendingConfirmationTimeout
          CompletionTimeout,   \* pairingCompletionTimeout
          MaxTime              \* bound on the clock

ASSUME ValuesAssumption == NoCode \notin Codes /\ NoDevice \notin Devices
ASSUME TimesAssumption == /\ WaitingLifetime \in Nat \ {0}
                          /\ RotationThreshold \in Nat
                          /\ ConfirmationTimeout \in Nat \ {0}
                          /\ CompletionTimeout \in Nat \ {0}
                          /\ MaxTime \in Nat

VARIABLES now,       \* the store's clock
          sessions,  \* pairing_sessions by id
          devices,   \* devices: registered pairs of customer and device
          op,        \* op[p]: where a parent's call is and what it holds
          claims,    \* claims made so far; the n-th one draws proof n
          shown      \* history: shown[i], devices that heartbeats of i answered

vars == <<now, sessions, devices, op, claims, shown>>

NoProof == 0

NoSession == [state |-> "none"]   \* identifier not drawn yet
Gone == [state |-> "gone"]        \* row deleted

Session == [state     : {"waiting", "pending", "confirmed", "cancelled"},
            customer  : Customers,
            code      : Codes \cup {NoCode},
            device    : Devices \cup {NoDevice},
            proof     : Nat,
            expiresAt : Nat]

Rows == {i \in Ids : sessions[i] \notin {NoSession, Gone}}

In(state) == {i \in Rows : sessions[i].state = state}

Live(i) == now < sessions[i].expiresAt

\* Rows that hold a code; one that has expired still does.
Holding(code) == {i \in Rows : sessions[i].code = code}

-----------------------------------------------------------------------------
Idle == [step |-> "idle"]
Creating == [step : {"create"}, customer : Customers, code : Codes, at : Nat]
Beating == [step : {"heartbeat"}, id : Ids, until : Nat, at : Nat]
Rotating == [step : {"rotate"}, id : Ids, code : Codes, until : Nat, at : Nat]

Op == {Idle} \cup Creating \cup Beating \cup Rotating

Goto(p, o) == op' = [op EXCEPT ![p] = o]

Init == /\ now = 0
        /\ sessions = [i \in Ids |-> NoSession]
        /\ devices = {}
        /\ op = [p \in Parents |-> Idle]
        /\ claims = 0
        /\ shown = [i \in Ids |-> {}]

-----------------------------------------------------------------------------
\* nextAvailableCode draws codes until the table holds no row with the drawn
\* one; the call fails after ten.
FreeCodes == {code \in Codes : Holding(code) = {}}

StartCreate(p, c) ==
    /\ op[p] = Idle
    /\ \E code \in FreeCodes :
          Goto(p, [step |-> "create", customer |-> c, code |-> code, at |-> now])
    /\ UNCHANGED <<now, sessions, devices, claims, shown>>

\* CreatePairingSession deletes the customer's session and inserts the new one
\* in one transaction, with an expiry computed before it.
CreateSession(p) ==
    LET o     == op[p]
        taken == \E j \in Holding(o.code) : sessions[j].customer # o.customer
    IN  /\ o.step = "create"
        /\ IF taken
           THEN UNCHANGED sessions
           ELSE \E i \in Ids, t \in o.at .. now :
                   /\ sessions[i] = NoSession
                   /\ sessions' = [j \in Ids |->
                         IF j = i
                         THEN [state     |-> "waiting",
                               customer  |-> o.customer,
                               code      |-> o.code,
                               device    |-> NoDevice,
                               proof     |-> NoProof,
                               expiresAt |-> t + WaitingLifetime]
                         ELSE IF j \in Rows /\ sessions[j].customer = o.customer THEN Gone
                         ELSE sessions[j]]
        /\ Goto(p, Idle)
        /\ UNCHANGED <<now, devices, claims, shown>>

\* A heartbeat of a waiting session reads it; one of any other session that
\* is still alive is answered from the row, see Show.
StartHeartbeat(p, i) ==
    /\ op[p] = Idle
    /\ i \in In("waiting")
    /\ Live(i)
    /\ Goto(p, [step |-> "heartbeat", id |-> i, until |-> sessions[i].expiresAt, at |-> now])
    /\ UNCHANGED <<now, sessions, devices, claims, shown>>

\* The session it read is close to its expiry, so a free code is looked for.
ChooseCode(p) ==
    LET o == op[p]
    IN  /\ o.step = "heartbeat"
        /\ \E t \in o.at .. now :
              IF o.until - t > RotationThreshold
              THEN Goto(p, Idle)
              ELSE \E code \in FreeCodes :
                      Goto(p, [step |-> "rotate", id |-> o.id, code |-> code,
                               until |-> t + WaitingLifetime, at |-> now])
        /\ UNCHANGED <<now, sessions, devices, claims, shown>>

\* Slip: the transaction trusts the state that the heartbeat read.
RotateAnyway(p) ==
    LET o == op[p]
        i == o.id
    IN  /\ o.step = "rotate"
        /\ sessions' = IF i \in Rows /\ Holding(o.code) = {}
                       THEN [sessions EXCEPT ![i].code = o.code, ![i].expiresAt = o.until]
                       ELSE sessions
        /\ Goto(p, Idle)
        /\ UNCHANGED <<now, devices, claims, shown>>

\* RotatePairingSessionCode reads the row again, in its transaction, and
\* compares it with a clock that was read before.
RotateCode(p) ==
    LET o == op[p]
        i == o.id
        Rotates(t) == /\ t < o.until
                      /\ i \in In("waiting")
                      /\ t < sessions[i].expiresAt
                      /\ Holding(o.code) \subseteq {i}
    IN  /\ o.step = "rotate"
        /\ \E t \in o.at .. now :
              sessions' = IF Rotates(t)
                          THEN [sessions EXCEPT ![i].code = o.code, ![i].expiresAt = o.until]
                          ELSE sessions
        /\ Goto(p, Idle)
        /\ UNCHANGED <<now, devices, claims, shown>>

\* A heartbeat of a session that was claimed answers the device to confirm.
Show(i) ==
    /\ i \in In("pending")
    /\ Live(i)
    /\ shown' = [shown EXCEPT ![i] = @ \cup {sessions[i].device}]
    /\ UNCHANGED <<now, sessions, devices, op, claims>>

-----------------------------------------------------------------------------
\* Slip: the code stays in the row, and a row is found by its code alone.
ClaimKeepingCode(code, d) ==
    /\ \E i \in Holding(code) :
          /\ Live(i)
          /\ sessions' = [sessions EXCEPT ![i].state = "pending",
                                          ![i].device = d,
                                          ![i].proof = claims + 1,
                                          ![i].expiresAt = now + ConfirmationTimeout]
    /\ claims' = claims + 1
    /\ UNCHANGED <<now, devices, op, shown>>

\* ClaimPairingSession: the device that presents the code of a live waiting
\* session takes it; the code is given up.
Claim(code, d) ==
    /\ \E i \in Holding(code) \cap In("waiting") :
          /\ Live(i)
          /\ sessions' = [sessions EXCEPT ![i] =
                [state     |-> "pending",
                 customer  |-> @.customer,
                 code      |-> NoCode,
                 device    |-> d,
                 proof     |-> claims + 1,
                 expiresAt |-> now + ConfirmationTimeout]]
    /\ claims' = claims + 1
    /\ UNCHANGED <<now, devices, op, shown>>

\* A claimed session that still waits for the parent is decided; the row stays
\* for a while so that the device can learn the outcome.
Decide(i, outcome) ==
    /\ i \in In("pending")
    /\ Live(i)
    /\ sessions' = [sessions EXCEPT ![i].state = outcome,
                                    ![i].expiresAt = now + CompletionTimeout]

\* Slip: the deadline of the claim is not looked at.
ConfirmLate(i) ==
    /\ i \in In("pending")
    /\ sessions' = [sessions EXCEPT ![i].state = "confirmed",
                                    ![i].expiresAt = now + CompletionTimeout]
    /\ devices' = devices \cup {<<sessions[i].customer, sessions[i].device>>}
    /\ UNCHANGED <<now, op, claims, shown>>

Confirm(i) ==
    /\ Decide(i, "confirmed")
    /\ devices' = devices \cup {<<sessions[i].customer, sessions[i].device>>}
    /\ UNCHANGED <<now, op, claims, shown>>

Cancel(i) ==
    /\ Decide(i, "cancelled")
    /\ UNCHANGED <<now, devices, op, claims, shown>>

\* A parent's call stops between two steps.
Abort(p) ==
    /\ op[p] # Idle
    /\ Goto(p, Idle)
    /\ UNCHANGED <<now, sessions, devices, claims, shown>>

Tick ==
    /\ now < MaxTime
    /\ now' = now + 1
    /\ UNCHANGED <<sessions, devices, op, claims, shown>>

\* Steps of parents and of time.
ParentNext ==
    \/ Tick
    \/ \E p \in Parents : \/ CreateSession(p) \/ ChooseCode(p) \/ RotateCode(p) \/ Abort(p)
                          \/ \E c \in Customers : StartCreate(p, c)
                          \/ \E i \in Ids : StartHeartbeat(p, i)
    \/ \E i \in Ids : Show(i) \/ Confirm(i) \/ Cancel(i)

Next == ParentNext \/ \E code \in Codes, d \in Devices : Claim(code, d)

Spec == Init /\ [][Next]_vars

-----------------------------------------------------------------------------
\* Every variable has its type.
TypeOK ==
    /\ now \in Nat
    /\ sessions \in [Ids -> Session \cup {NoSession, Gone}]
    /\ devices \subseteq Customers \X Devices
    /\ op \in [Parents -> Op]
    /\ claims \in Nat
    /\ shown \in [Ids -> SUBSET Devices]

\* A row holds a code as long as nobody has claimed it, and a device with its
\* own proof from then on.
RowsConsistent ==
    \A i \in Rows :
        LET s == sessions[i]
        IN  IF s.state = "waiting"
            THEN s.code # NoCode /\ s.device = NoDevice /\ s.proof = NoProof
            ELSE s.code = NoCode /\ s.device # NoDevice /\ s.proof \in 1 .. claims

\* No code leads to two sessions, no customer has two, no proof opens two.
Unambiguous ==
    \A i, j \in Rows :
        i # j => /\ sessions[i].customer # sessions[j].customer
                 /\ sessions[i].code = sessions[j].code => sessions[i].code = NoCode
                 /\ sessions[i].proof = sessions[j].proof => sessions[i].proof = NoProof

\* The device that a heartbeat showed the parent is the one the row names.
ShownIsClaimed == \A i \in Ids : \A d \in shown[i] :
                     sessions[i] = Gone \/ (i \in Rows /\ sessions[i].device = d)

\* The inductive invariant.
SessionsSound == TypeOK /\ RowsConsistent /\ Unambiguous /\ ShownIsClaimed

\* The abstract view of a row drops its code, proof and deadline.
Abstracted(s) ==
    IF s = NoSession THEN [phase |-> "unborn"]
    ELSE IF s = Gone THEN [phase |-> "gone"]
    ELSE [phase |-> s.state, customer |-> s.customer, device |-> s.device]

AbstractSessions == [i \in Ids |-> Abstracted(sessions[i])]

PP == INSTANCE PairingProtocol WITH session <- AbstractSessions, registered <- devices

\* However heartbeats that hold stale rows, claims, decisions and replacements
\* interleave, a session is claimed once and decided once, its device is
\* registered exactly by the confirmation, and only a new session of the same
\* customer removes it.
PairsOnce == PP!Spec

RegistersInTime ==
    \A pair \in devices' \ devices :
        \E i \in In("pending") : /\ pair = <<sessions[i].customer, sessions[i].device>>
                                 /\ shown[i] \subseteq {pair[2]}
                                 /\ Live(i)

\* A device is registered only while its claim may still be confirmed, and it
\* is the only one the parent was ever shown for that session.
RegistersWhatWasShown == [][RegistersInTime]_vars
=============================================================================
