--------------------------- MODULE Pairing_proofs ---------------------------
(***************************************************************************)
(* Proofs about device pairing, for every number of customers, devices,    *)
(* codes and concurrent calls, every lifetime and every length of play:    *)
(* first the service alone, then the agent that pairs with it, which says  *)
(* it is paired only when a parent registered its device, whatever answers *)
(* are late, lost or about an older attempt.                               *)
(***************************************************************************)
EXTENDS PairingAgent, TLAPS

\* The identifiers that hold a row are those with a full session.
LEMMA RowsAreSessions ==
    ASSUME TypeOK
    PROVE  /\ \A i \in Ids : i \in Rows <=> sessions[i] \in Session
           /\ \A i \in Rows : i \in Ids
BY DEF TypeOK, Rows, Session, NoSession, Gone

\* The identifiers that hold a row are told by the state of their session.
LEMMA RowsByState ==
    ASSUME TypeOK
    PROVE  \A i \in Ids : i \in Rows <=> sessions[i].state \notin {"none", "gone"}
<1>1. \A i \in Ids : sessions[i] \in Session => sessions[i].state \notin {"none", "gone"}
  BY DEF Session
<1>2. \A i \in Ids : i \notin Rows => sessions[i].state \in {"none", "gone"}
  BY DEF Rows, NoSession, Gone
<1> QED  BY <1>1, <1>2, RowsAreSessions

\* An empty table is sound.
LEMMA InitSound == Init => SessionsSound
<1> SUFFICES ASSUME Init PROVE SessionsSound
  OBVIOUS
<1>1. TypeOK
  BY DEF Init, TypeOK, Op
<1>2. Rows = {}
  BY DEF Init, Rows
<1> QED
  BY <1>1, <1>2 DEF Init, SessionsSound, RowsConsistent, Unambiguous, ShownIsClaimed

\* A step that leaves the sessions, the claims and what was shown alone.
LEMMA SessionsUntouched ==
    ASSUME SessionsSound, UNCHANGED <<sessions, claims, shown>>, TypeOK'
    PROVE  SessionsSound'
BY DEF SessionsSound, RowsConsistent, Unambiguous, ShownIsClaimed, Rows

\* A parent's call learns or forgets something.
LEMMA GotoSound ==
    ASSUME SessionsSound, NEW p \in Parents, NEW o \in Op, Goto(p, o),
           UNCHANGED <<now, sessions, devices, claims, shown>>
    PROVE  SessionsSound'
<1>1. TypeOK'
  BY DEF SessionsSound, TypeOK, Goto
<1> QED  BY <1>1, SessionsUntouched

\* A call that holds a free code, and the time it was found.
LEMMA StartCreateSound ==
    ASSUME SessionsSound, NEW p \in Parents, NEW c \in Customers, StartCreate(p, c)
    PROVE  SessionsSound'
<1>1. PICK code \in FreeCodes :
          Goto(p, [step |-> "create", customer |-> c, code |-> code, at |-> now])
  BY DEF StartCreate
<1>2. [step |-> "create", customer |-> c, code |-> code, at |-> now] \in Op
  BY DEF SessionsSound, TypeOK, FreeCodes, Op, Creating
<1> QED  BY <1>1, <1>2, GotoSound DEF StartCreate

\* A heartbeat that holds the deadline of the row it read.
LEMMA StartHeartbeatSound ==
    ASSUME SessionsSound, NEW p \in Parents, NEW i \in Ids, StartHeartbeat(p, i)
    PROVE  SessionsSound'
<1> DEFINE o == [step |-> "heartbeat", id |-> i, until |-> sessions[i].expiresAt, at |-> now]
<1>1. sessions[i] \in Session /\ now \in Nat
  BY RowsAreSessions DEF StartHeartbeat, In, SessionsSound, TypeOK
<1>2. o \in Op
  BY <1>1 DEF Op, Beating, Session
<1>3. Goto(p, o) /\ UNCHANGED <<now, sessions, devices, claims, shown>>
  BY DEF StartHeartbeat
<1> HIDE DEF o
<1> QED  BY <1>2, <1>3, GotoSound

\* What a call holds is told by the step it is at.
LEMMA CallTypes ==
    ASSUME TypeOK, NEW p \in Parents
    PROVE  /\ op[p].step = "create" => op[p] \in Creating
           /\ op[p].step = "heartbeat" => op[p] \in Beating
           /\ op[p].step = "rotate" => op[p] \in Rotating
BY DEF TypeOK, Op, Idle, Creating, Beating, Rotating

\* A heartbeat that holds a free code and the deadline that goes with it.
LEMMA ChooseCodeSound ==
    ASSUME SessionsSound, NEW p \in Parents, ChooseCode(p)
    PROVE  SessionsSound'
<1>1. op[p] \in Beating /\ now \in Nat
  BY CallTypes DEF ChooseCode, SessionsSound, TypeOK
<1>2. PICK t \in op[p].at .. now :
          IF op[p].until - t > RotationThreshold
          THEN Goto(p, Idle)
          ELSE \E code \in FreeCodes :
                  Goto(p, [step |-> "rotate", id |-> op[p].id, code |-> code,
                           until |-> t + WaitingLifetime, at |-> now])
  BY DEF ChooseCode
<1>3. t + WaitingLifetime \in Nat
  BY <1>1, <1>2, TimesAssumption DEF Beating
<1>4. UNCHANGED <<now, sessions, devices, claims, shown>>
  BY DEF ChooseCode
<1>5. CASE Goto(p, Idle)
  BY <1>4, <1>5, GotoSound DEF Op
<1>6. ASSUME NEW code \in FreeCodes,
             Goto(p, [step |-> "rotate", id |-> op[p].id, code |-> code,
                      until |-> t + WaitingLifetime, at |-> now])
      PROVE  SessionsSound'
  <2> DEFINE o == [step |-> "rotate", id |-> op[p].id, code |-> code,
                   until |-> t + WaitingLifetime, at |-> now]
  <2>1. o \in Op
    BY <1>1, <1>3 DEF Op, Rotating, Beating, FreeCodes
  <2>2. Goto(p, o)
    BY <1>6
  <2> HIDE DEF o
  <2> QED  BY <1>4, <2>1, <2>2, GotoSound
<1> QED  BY <1>2, <1>5, <1>6

\* A call that stops forgets what it held.
LEMMA AbortSound ==
    ASSUME SessionsSound, NEW p \in Parents, Abort(p)
    PROVE  SessionsSound'
BY GotoSound DEF Abort, Op

\* Time disturbs no row.
LEMMA TickSound == SessionsSound /\ Tick => SessionsSound'
<1> SUFFICES ASSUME SessionsSound, Tick PROVE SessionsSound'
  OBVIOUS
<1>1. TypeOK'
  BY DEF SessionsSound, TypeOK, Tick
<1> QED  BY <1>1, SessionsUntouched DEF Tick

\* A heartbeat shows the device that the row names.
LEMMA ShowSound ==
    ASSUME SessionsSound, NEW i \in Ids, Show(i)
    PROVE  SessionsSound'
<1>1. i \in Rows /\ sessions[i] \in Session /\ sessions[i].state = "pending"
  BY RowsAreSessions DEF Show, In, SessionsSound
<1>2. sessions[i].device \in Devices
  BY <1>1 DEF SessionsSound, RowsConsistent, Session
<1>3. UNCHANGED <<now, sessions, devices, op, claims>>
      /\ shown' = [shown EXCEPT ![i] = @ \cup {sessions[i].device}]
  BY DEF Show
<1>4. TypeOK'
  BY <1>2, <1>3 DEF SessionsSound, TypeOK
<1>5. RowsConsistent' /\ Unambiguous' /\ Rows' = Rows
  BY <1>3 DEF SessionsSound, RowsConsistent, Unambiguous, Rows
<1>6. ShownIsClaimed'
  BY <1>1, <1>3, <1>5 DEF SessionsSound, ShownIsClaimed, TypeOK
<1> QED  BY <1>4, <1>5, <1>6 DEF SessionsSound

\* Rows after one row was replaced by another session.
LEMMA RowsAfterUpdate ==
    ASSUME TypeOK, NEW i \in Rows, NEW s \in Session,
           sessions' = [sessions EXCEPT ![i] = s]
    PROVE  Rows' = Rows
<1>1. s \notin {NoSession, Gone}
  BY DEF Session, NoSession, Gone
<1> QED  BY <1>1 DEF TypeOK, Rows

\* A row that keeps its customer, and takes only a code and a proof that no
\* other row has, leaves the table sound.
LEMMA UpdateSound ==
    ASSUME SessionsSound, NEW i \in Rows, NEW s \in Session,
           sessions' = [sessions EXCEPT ![i] = s], shown' = shown,
           TypeOK', claims' >= claims,
           s.customer = sessions[i].customer,
           s.code = NoCode \/ Holding(s.code) \subseteq {i},
           s.proof = sessions[i].proof \/ s.proof > claims,
           s.device = sessions[i].device \/ sessions[i].device = NoDevice,
           IF s.state = "waiting"
           THEN s.code # NoCode /\ s.device = NoDevice /\ s.proof = NoProof
           ELSE s.code = NoCode /\ s.device # NoDevice /\ s.proof \in 1 .. claims'
    PROVE  SessionsSound'
<1>1. TypeOK /\ RowsConsistent /\ Unambiguous /\ ShownIsClaimed
  BY DEF SessionsSound
<1>2. Rows' = Rows /\ Rows \subseteq Ids
  BY <1>1, RowsAfterUpdate DEF Rows
<1>3. sessions'[i] = s /\ \A j \in Ids \ {i} : sessions'[j] = sessions[j]
  BY <1>1, <1>2 DEF TypeOK
<1>4. \A j \in Rows : sessions[j].proof \in Nat /\ sessions[j].proof <= claims
  BY <1>1, RowsAreSessions DEF RowsConsistent, Session, TypeOK, NoProof
<1>5. claims \in Nat /\ claims' \in Nat
  BY <1>1 DEF TypeOK
<1>6. RowsConsistent'
  BY <1>1, <1>2, <1>3, <1>5 DEF RowsConsistent
<1>7. \A j \in Rows \ {i} : /\ s.customer # sessions[j].customer
                            /\ s.code = sessions[j].code => s.code = NoCode
                            /\ s.proof = sessions[j].proof => s.proof = NoProof
  BY <1>1, <1>4, <1>5 DEF Unambiguous, Holding, Session
<1>8. Unambiguous'
  BY <1>1, <1>2, <1>3, <1>7 DEF Unambiguous
<1>9. ShownIsClaimed'
  <2> SUFFICES ASSUME NEW j \in Ids, NEW d \in shown[j]
               PROVE  sessions'[j] = Gone \/ (j \in Rows /\ sessions'[j].device = d)
    BY <1>2 DEF ShownIsClaimed
  <2>1. CASE j # i
    BY <2>1, <1>1, <1>3 DEF ShownIsClaimed
  <2>2. CASE j = i
    <3>1. sessions[i].device = d
      BY <2>2, <1>1 DEF ShownIsClaimed, Rows
    <3>2. d # NoDevice
      BY <1>1, ValuesAssumption DEF TypeOK
    <3> QED  BY <2>2, <3>1, <3>2, <1>3
  <2> QED  BY <2>1, <2>2
<1> QED  BY <1>6, <1>8, <1>9 DEF SessionsSound

\* The row a heartbeat rotates, unless its transaction fails.
LEMMA RotatedRow ==
    ASSUME SessionsSound, NEW p \in Parents, RotateCode(p), sessions' # sessions
    PROVE  \E i \in In("waiting"), s \in Session :
              /\ sessions' = [sessions EXCEPT ![i] = s]
              /\ s.state = "waiting" /\ s.customer = sessions[i].customer
              /\ s.device = sessions[i].device /\ s.proof = sessions[i].proof
              /\ s.code \in Codes /\ Holding(s.code) \subseteq {i}
<1> DEFINE i == op[p].id
           s == [sessions[i] EXCEPT !.code = op[p].code, !.expiresAt = op[p].until]
<1>1. op[p] \in Rotating
  BY CallTypes DEF RotateCode, SessionsSound
<1>2. /\ i \in In("waiting") /\ Holding(op[p].code) \subseteq {i}
      /\ sessions' = [sessions EXCEPT ![i].code = op[p].code, ![i].expiresAt = op[p].until]
  BY DEF RotateCode
<1>3. sessions[i] \in Session /\ sessions[i].state = "waiting"
  BY <1>1, <1>2, RowsAreSessions DEF In, SessionsSound
<1>4. /\ s \in Session /\ s.state = "waiting" /\ s.code = op[p].code
      /\ s.customer = sessions[i].customer /\ s.proof = sessions[i].proof
      /\ s.device = sessions[i].device
  BY <1>1, <1>3 DEF Session, Rotating
<1>5. sessions' = [sessions EXCEPT ![i] = s]
  BY <1>2, <1>3
<1>6. op[p].code \in Codes
  BY <1>1 DEF Rotating
<1> HIDE DEF s, i
<1> QED  BY <1>2, <1>4, <1>5, <1>6

\* A rotation gives a waiting row a code that no other row holds.
LEMMA RotateCodeSound ==
    ASSUME SessionsSound, NEW p \in Parents, RotateCode(p)
    PROVE  SessionsSound'
<1>1. UNCHANGED <<now, devices, claims, shown>> /\ Goto(p, Idle) /\ TypeOK
  BY DEF RotateCode, SessionsSound
<1>2. CASE sessions' = sessions
  BY <1>1, <1>2, GotoSound DEF Op
<1>3. CASE sessions' # sessions
  <2>1. PICK i \in In("waiting"), s \in Session :
              /\ sessions' = [sessions EXCEPT ![i] = s]
              /\ s.state = "waiting" /\ s.customer = sessions[i].customer
              /\ s.device = sessions[i].device /\ s.proof = sessions[i].proof
              /\ s.code \in Codes /\ Holding(s.code) \subseteq {i}
    BY <1>3, RotatedRow
  <2>2. i \in Rows /\ sessions[i].state = "waiting"
    BY DEF In
  <2>3. s.code # NoCode /\ s.device = NoDevice /\ s.proof = NoProof
    BY <2>1, <2>2, ValuesAssumption DEF SessionsSound, RowsConsistent
  <2>4. TypeOK'
    BY <1>1, <2>1, <2>2 DEF TypeOK, Goto, Op
  <2>5. claims' >= claims /\ shown' = shown
    BY <1>1 DEF TypeOK
  <2> QED  BY <2>1, <2>2, <2>3, <2>4, <2>5, UpdateSound
<1> QED  BY <1>2, <1>3

\* The row a device claims.
LEMMA ClaimedRow ==
    ASSUME SessionsSound, NEW code \in Codes, NEW d \in Devices, Claim(code, d)
    PROVE  \E i \in In("waiting"), s \in Session :
              /\ sessions' = [sessions EXCEPT ![i] = s]
              /\ s.state = "pending" /\ s.customer = sessions[i].customer
              /\ s.device = d /\ s.proof = claims + 1 /\ s.code = NoCode
<1> DEFINE s(i) == [state |-> "pending", customer |-> sessions[i].customer, code |-> NoCode,
                    device |-> d, proof |-> claims + 1, expiresAt |-> now + ConfirmationTimeout]
<1>1. PICK i \in Holding(code) \cap In("waiting") : sessions' = [sessions EXCEPT ![i] = s(i)]
  BY DEF Claim
<1>2. sessions[i] \in Session /\ TypeOK
  BY <1>1, RowsAreSessions DEF In, Rows, SessionsSound
<1>3. s(i) \in Session
  BY <1>2, TimesAssumption DEF Session, TypeOK
<1> QED  BY <1>1, <1>3

\* A claim gives a waiting row its device and a proof that no other row has.
LEMMA ClaimSound ==
    ASSUME SessionsSound, NEW code \in Codes, NEW d \in Devices, Claim(code, d)
    PROVE  SessionsSound'
<1>1. PICK i \in In("waiting"), s \in Session :
              /\ sessions' = [sessions EXCEPT ![i] = s]
              /\ s.state = "pending" /\ s.customer = sessions[i].customer
              /\ s.device = d /\ s.proof = claims + 1 /\ s.code = NoCode
  BY ClaimedRow
<1>2. i \in Rows /\ sessions[i].state = "waiting" /\ TypeOK
  BY DEF In, SessionsSound
<1>3. /\ claims' = claims + 1 /\ claims \in Nat /\ claims' \in Nat
      /\ now' = now /\ devices' = devices /\ op' = op /\ shown' = shown
  BY <1>2 DEF Claim, TypeOK
<1>4. TypeOK'
  <2>1. sessions' \in [Ids -> Session \cup {NoSession, Gone}]
    BY <1>1, <1>2 DEF TypeOK
  <2> QED  BY <1>2, <1>3, <2>1 DEF TypeOK
<1>5. sessions[i].device = NoDevice /\ d # NoDevice
  BY <1>2, ValuesAssumption DEF SessionsSound, RowsConsistent
<1>6. claims' >= claims /\ s.proof > claims /\ s.proof \in 1 .. claims'
  BY <1>1, <1>3
<1> QED  BY <1>1, <1>2, <1>3, <1>4, <1>5, <1>6, UpdateSound

\* The row a parent decides.
LEMMA DecidedRow ==
    ASSUME SessionsSound, NEW i \in Ids, NEW outcome \in {"confirmed", "cancelled"},
           Decide(i, outcome)
    PROVE  /\ i \in In("pending")
           /\ \E s \in Session :
              /\ sessions' = [sessions EXCEPT ![i] = s]
              /\ s.state = outcome /\ s.customer = sessions[i].customer
              /\ s.device = sessions[i].device /\ s.proof = sessions[i].proof
              /\ s.code = sessions[i].code
<1> DEFINE s == [sessions[i] EXCEPT !.state = outcome, !.expiresAt = now + CompletionTimeout]
<1>1. i \in In("pending") /\ sessions[i] \in Session /\ TypeOK
  BY RowsAreSessions DEF Decide, In, SessionsSound
<1>2. now + CompletionTimeout \in Nat
  BY <1>1, TimesAssumption DEF TypeOK
<1>3. /\ s \in Session /\ s.state = outcome /\ s.code = sessions[i].code
      /\ s.customer = sessions[i].customer /\ s.proof = sessions[i].proof
      /\ s.device = sessions[i].device
  BY <1>1, <1>2 DEF Session
<1>4. sessions' = [sessions EXCEPT ![i] = s]
  BY <1>1 DEF Decide
<1> HIDE DEF s
<1> QED  BY <1>1, <1>3, <1>4

\* A decision keeps the device and the proof of its row.
LEMMA DecideSound ==
    ASSUME SessionsSound, NEW i \in Ids, NEW outcome \in {"confirmed", "cancelled"},
           Decide(i, outcome), devices' \subseteq Customers \X Devices,
           UNCHANGED <<now, op, claims, shown>>
    PROVE  SessionsSound'
<1>1. PICK s \in Session :
              /\ sessions' = [sessions EXCEPT ![i] = s]
              /\ s.state = outcome /\ s.customer = sessions[i].customer
              /\ s.device = sessions[i].device /\ s.proof = sessions[i].proof
              /\ s.code = sessions[i].code
  BY DecidedRow
<1>2. i \in Rows /\ sessions[i].state = "pending" /\ TypeOK
  BY DecidedRow DEF In, SessionsSound
<1>3. TypeOK'
  BY <1>1, <1>2 DEF TypeOK
<1>4. s.code = NoCode /\ s.device # NoDevice /\ s.proof \in 1 .. claims
  BY <1>1, <1>2 DEF SessionsSound, RowsConsistent
<1>5. claims' = claims /\ claims' >= claims /\ shown' = shown /\ outcome # "waiting"
  BY <1>2 DEF TypeOK
<1> QED  BY <1>1, <1>2, <1>3, <1>4, <1>5, UpdateSound

\* The pair that a confirmation registers.
LEMMA ClaimedPair ==
    ASSUME SessionsSound, NEW i \in In("pending")
    PROVE  <<sessions[i].customer, sessions[i].device>> \in Customers \X Devices
<1>1. i \in Rows /\ sessions[i] \in Session /\ sessions[i].state = "pending"
  BY RowsAreSessions DEF In, SessionsSound
<1> QED  BY <1>1 DEF SessionsSound, RowsConsistent, Session

\* A confirmation registers a customer and a device.
LEMMA ConfirmSound ==
    ASSUME SessionsSound, NEW i \in Ids, Confirm(i)
    PROVE  SessionsSound'
<1>1. devices' \subseteq Customers \X Devices
  BY ClaimedPair DEF Confirm, Decide, SessionsSound, TypeOK
<1> QED  BY <1>1, DecideSound DEF Confirm

\* A cancellation registers nothing.
LEMMA CancelSound ==
    ASSUME SessionsSound, NEW i \in Ids, Cancel(i)
    PROVE  SessionsSound'
<1>1. devices' \subseteq Customers \X Devices
  BY DEF Cancel, SessionsSound, TypeOK
<1> QED  BY <1>1, DecideSound DEF Cancel

\* The row that a new session gets, and the rows it makes room for.
LEMMA CreateSessionSound ==
    ASSUME SessionsSound, NEW p \in Parents, CreateSession(p)
    PROVE  SessionsSound'
<1> DEFINE o == op[p]
           s(t) == [state |-> "waiting", customer |-> o.customer, code |-> o.code,
                    device |-> NoDevice, proof |-> NoProof, expiresAt |-> t + WaitingLifetime]
           Replaced(j) == j \in Rows /\ sessions[j].customer = o.customer
<1>1. o \in Creating /\ TypeOK
  BY CallTypes DEF CreateSession, SessionsSound
<1>2. UNCHANGED <<now, devices, claims, shown>> /\ Goto(p, Idle)
  BY DEF CreateSession
<1>3. CASE sessions' = sessions
  BY <1>2, <1>3, GotoSound DEF Op
<1>4. ASSUME \A j \in Holding(o.code) : sessions[j].customer = o.customer,
             NEW i \in Ids, NEW t \in o.at .. now, sessions[i] = NoSession,
             sessions' = [j \in Ids |-> IF j = i THEN s(t)
                                        ELSE IF Replaced(j) THEN Gone ELSE sessions[j]]
      PROVE  SessionsSound'
  <2>1. RowsConsistent /\ Unambiguous /\ ShownIsClaimed
    BY DEF SessionsSound
  <2>2. s(t) \in Session /\ s(t) \notin {NoSession, Gone}
    BY <1>1, <1>4, TimesAssumption DEF TypeOK, Creating, Session, NoProof, NoSession, Gone
  <2>3. /\ s(t).state = "waiting" /\ s(t).customer = o.customer /\ s(t).code = o.code
        /\ s(t).device = NoDevice /\ s(t).proof = NoProof /\ o.code # NoCode
    BY <1>1, ValuesAssumption DEF Creating
  <2>4. i \notin Rows /\ Rows \subseteq Ids
    BY <1>4 DEF Rows
  <2>5. /\ sessions'[i] = s(t)
        /\ \A j \in Ids \ {i} : sessions'[j] = IF Replaced(j) THEN Gone ELSE sessions[j]
    BY <1>4
  <2>6. TypeOK'
    BY <1>1, <1>2, <1>4, <2>2 DEF TypeOK, Goto, Op
  <2> HIDE DEF s
  <2>7. Rows' = {i} \cup {j \in Rows : ~Replaced(j)}
    BY <2>2, <2>4, <2>5 DEF Rows
  <2>8. \A j \in Rows' \ {i} : j \in Rows /\ ~Replaced(j) /\ sessions'[j] = sessions[j]
    BY <2>4, <2>5, <2>7
  <2>9. \A j \in Rows' \ {i} : /\ sessions[j].customer # o.customer
                               /\ sessions[j].code # o.code
    BY <1>4, <2>8 DEF Holding
  <2>10. RowsConsistent'
    BY <1>2, <2>1, <2>3, <2>5, <2>8 DEF RowsConsistent
  <2>11. Unambiguous'
    BY <2>1, <2>3, <2>5, <2>8, <2>9 DEF Unambiguous
  <2>12. shown[i] = {}
    BY <1>1, <1>4, <2>1, <2>4 DEF ShownIsClaimed, NoSession, Gone
  <2>13. ShownIsClaimed'
    <3> SUFFICES ASSUME NEW j \in Ids, NEW d \in shown[j]
                 PROVE  sessions'[j] = Gone \/ (j \in Rows' /\ sessions'[j].device = d)
      BY <1>2 DEF ShownIsClaimed
    <3>1. j # i
      BY <2>12
    <3> QED  BY <3>1, <2>1, <2>5, <2>7 DEF ShownIsClaimed
  <2> QED  BY <2>6, <2>10, <2>11, <2>13 DEF SessionsSound
<1> QED  BY <1>3, <1>4 DEF CreateSession

\* Every step of the specification keeps the rows sound.
LEMMA StepSound == SessionsSound /\ [Next]_vars => SessionsSound'
<1> SUFFICES ASSUME SessionsSound, [Next]_vars PROVE SessionsSound'
  OBVIOUS
<1>1. CASE UNCHANGED vars
  BY <1>1 DEF vars, SessionsSound, TypeOK, RowsConsistent, Unambiguous, ShownIsClaimed, Rows
<1>2. CASE ParentNext
  BY <1>2, TickSound, CreateSessionSound, ChooseCodeSound, RotateCodeSound, AbortSound,
     StartCreateSound, StartHeartbeatSound, ShowSound, ConfirmSound, CancelSound
  DEF ParentNext
<1>3. CASE \E code \in Codes, d \in Devices : Claim(code, d)
  BY <1>3, ClaimSound
<1> QED  BY <1>1, <1>2, <1>3 DEF Next

\* Codes, customers and proofs tell sessions apart, rows are consistent, and a
\* parent is only ever shown the device that claimed the session, whatever
\* rows and clocks the calls of parents' apps hold.
THEOREM Sound == Spec => []SessionsSound
<1> QED  BY InitSound, StepSound, PTL DEF Spec

\* A confirmation registers the pair of a claim that is still open.
LEMMA StepRegisters == SessionsSound /\ [Next]_vars => [RegistersInTime]_vars
<1> SUFFICES ASSUME SessionsSound, [Next]_vars, NEW pair \in devices' \ devices
             PROVE  \E i \in In("pending") : /\ pair = <<sessions[i].customer, sessions[i].device>>
                                             /\ shown[i] \subseteq {pair[2]}
                                             /\ Live(i)
  BY DEF RegistersInTime
<1>1. \E i \in Ids : Confirm(i)
  BY DEF Next, ParentNext, vars, Tick, CreateSession, ChooseCode, RotateCode, Abort,
         StartCreate, StartHeartbeat, Show, Cancel, Claim
<1>2. PICK i \in Ids : Confirm(i)
  BY <1>1
<1>3. i \in In("pending") /\ Live(i) /\ pair = <<sessions[i].customer, sessions[i].device>>
  BY <1>2 DEF Confirm, Decide
<1>4. shown[i] \subseteq {sessions[i].device}
  BY <1>3 DEF SessionsSound, ShownIsClaimed, In, Rows
<1> QED  BY <1>3, <1>4

\* No device is registered after its claim has expired, and none but the one
\* the parent was shown.
THEOREM Registration == Spec => RegistersWhatWasShown
<1> QED  BY Sound, StepRegisters, PTL DEF Spec, RegistersWhatWasShown

-----------------------------------------------------------------------------
\* The abstract view of the rows.
LEMMA ViewOfRows ==
    ASSUME TypeOK
    PROVE  /\ \A i \in Rows : Abstracted(sessions[i]) =
                  [phase |-> sessions[i].state, customer |-> sessions[i].customer,
                   device |-> sessions[i].device]
           /\ \A i \in Ids : sessions[i] = NoSession => Abstracted(sessions[i]) = PP!Unborn
           /\ Abstracted(Gone) = PP!Gone
<1>1. NoSession # Gone
  BY DEF NoSession, Gone
<1>2. \A i \in Rows : sessions[i] # NoSession /\ sessions[i] # Gone
  BY DEF Rows
<1> QED  BY <1>1, <1>2 DEF Abstracted, PP!Unborn, PP!Gone

\* A row lives in the abstract view in the phase of its state.
LEMMA ViewAlive ==
    ASSUME TypeOK
    PROVE  PP!Alive = Rows /\ \A phase : PP!In(phase) = In(phase)
<1>1. \A i \in Rows : sessions[i] \in Session
  BY RowsAreSessions
<1>2. \A i \in Ids : AbstractSessions[i] = Abstracted(sessions[i])
  BY DEF AbstractSessions
<1>3. \A i \in Rows : i \in Ids /\ AbstractSessions[i].phase = sessions[i].state
                    /\ AbstractSessions[i] \notin {PP!Unborn, PP!Gone}
  <2> SUFFICES ASSUME NEW i \in Rows
               PROVE  i \in Ids /\ AbstractSessions[i].phase = sessions[i].state
                      /\ AbstractSessions[i] \notin {PP!Unborn, PP!Gone}
    OBVIOUS
  <2>1. i \in Ids /\ sessions[i].state \notin {"unborn", "none", "gone"}
    BY <1>1 DEF Rows, Session
  <2>2. AbstractSessions[i] = [phase |-> sessions[i].state, customer |-> sessions[i].customer,
                               device |-> sessions[i].device]
    BY <1>2, <2>1, ViewOfRows
  <2>3. AbstractSessions[i].phase = sessions[i].state
    BY <2>2
  <2> QED  BY <2>1, <2>3 DEF PP!Unborn, PP!Gone
<1>4. \A i \in Ids \ Rows : AbstractSessions[i] \in {PP!Unborn, PP!Gone}
  BY <1>2, ViewOfRows DEF Rows
<1>5. PP!Alive = Rows
  BY <1>3, <1>4 DEF PP!Alive, Rows
<1> QED  BY <1>3, <1>5 DEF PP!In, In

\* No row is an unborn session.
LEMMA RefinesInit == Init => PP!Init
<1> SUFFICES ASSUME Init PROVE PP!Init
  OBVIOUS
<1>1. AbstractSessions = [i \in Ids |-> PP!Unborn]
  BY DEF Init, AbstractSessions, Abstracted, PP!Unborn
<1> QED  BY <1>1 DEF Init, PP!Init

\* A step that leaves the sessions and the devices alone is a stutter.
LEMMA RefinesStutter ==
    ASSUME UNCHANGED <<sessions, devices>>
    PROVE  UNCHANGED PP!vars
BY DEF PP!vars, AbstractSessions, Abstracted

\* A row that is rewritten in a phase, by a claim or a decision or a rotation.
LEMMA ViewOfUpdate ==
    ASSUME TypeOK, NEW i \in Rows, NEW s \in Session,
           sessions' = [sessions EXCEPT ![i] = s], s.customer = sessions[i].customer
    PROVE  AbstractSessions' = [AbstractSessions EXCEPT ![i] =
               [phase |-> s.state, customer |-> @.customer, device |-> s.device]]
<1>1. i \in Ids /\ s \notin {NoSession, Gone}
  BY DEF Rows, Session, NoSession, Gone
<1>2. Abstracted(s) = [phase |-> s.state, customer |-> s.customer, device |-> s.device]
  BY <1>1 DEF Abstracted
<1>3. AbstractSessions[i].customer = s.customer
  <2>1. AbstractSessions[i] = Abstracted(sessions[i])
    BY <1>1 DEF AbstractSessions
  <2>2. Abstracted(sessions[i]) = [phase |-> sessions[i].state, customer |-> sessions[i].customer,
                                   device |-> sessions[i].device]
    BY ViewOfRows
  <2> QED  BY <2>1, <2>2
<1>4. \A j \in Ids : sessions'[j] = IF j = i THEN s ELSE sessions[j]
  BY <1>1 DEF TypeOK
<1>5. AbstractSessions' = [j \in Ids |-> IF j = i THEN Abstracted(s) ELSE AbstractSessions[j]]
  BY <1>4 DEF AbstractSessions
<1> QED  BY <1>2, <1>3, <1>5 DEF AbstractSessions

\* A rotation leaves the phase, the customer and the device of its row alone.
LEMMA RefinesRotate ==
    ASSUME SessionsSound, NEW p \in Parents, RotateCode(p)
    PROVE  UNCHANGED PP!vars
<1>1. UNCHANGED devices /\ TypeOK
  BY DEF RotateCode, SessionsSound
<1>2. CASE sessions' = sessions
  BY <1>1, <1>2, RefinesStutter
<1>3. CASE sessions' # sessions
  <2>1. PICK i \in In("waiting"), s \in Session :
              /\ sessions' = [sessions EXCEPT ![i] = s]
              /\ s.state = "waiting" /\ s.customer = sessions[i].customer
              /\ s.device = sessions[i].device
    BY <1>3, RotatedRow
  <2>2. i \in Rows /\ i \in Ids /\ sessions[i].state = "waiting"
    BY DEF In, Rows
  <2>3. AbstractSessions[i] = [phase |-> s.state, customer |-> s.customer, device |-> s.device]
    BY <1>1, <2>1, <2>2, ViewOfRows DEF AbstractSessions
  <2>4. AbstractSessions[i] =
           [phase |-> s.state, customer |-> AbstractSessions[i].customer, device |-> s.device]
    BY <2>3
  <2>5. AbstractSessions' = [AbstractSessions EXCEPT ![i] =
           [phase |-> s.state, customer |-> @.customer, device |-> s.device]]
    BY <1>1, <2>1, <2>2, ViewOfUpdate
  <2>6. AbstractSessions' = AbstractSessions
    <3>1. AbstractSessions' = [AbstractSessions EXCEPT ![i] = AbstractSessions[i]]
      BY <2>4, <2>5
    <3> QED  BY <3>1 DEF AbstractSessions
  <2> QED  BY <1>1, <2>6 DEF PP!vars
<1> QED  BY <1>2, <1>3

\* A claim is a claim of the abstract protocol.
LEMMA RefinesClaim ==
    ASSUME SessionsSound, NEW code \in Codes, NEW d \in Devices, Claim(code, d)
    PROVE  PP!Next
<1>1. PICK i \in In("waiting"), s \in Session :
              /\ sessions' = [sessions EXCEPT ![i] = s]
              /\ s.state = "pending" /\ s.customer = sessions[i].customer
              /\ s.device = d
  BY ClaimedRow
<1>2. i \in Rows /\ i \in Ids /\ TypeOK
  BY DEF In, Rows, SessionsSound
<1>3. AbstractSessions' = [AbstractSessions EXCEPT ![i] =
               [phase |-> "pending", customer |-> @.customer, device |-> d]]
  BY <1>1, <1>2, ViewOfUpdate
<1>4. UNCHANGED devices
  BY DEF Claim
<1>5. PP!Claim(i, d)
  BY <1>1, <1>2, <1>3, <1>4, ViewAlive DEF PP!Claim
<1> QED  BY <1>2, <1>5 DEF PP!Next

\* A decision is the same decision of the abstract protocol.
LEMMA RefinesDecide ==
    ASSUME SessionsSound, NEW i \in Ids, NEW outcome \in {"confirmed", "cancelled"},
           Decide(i, outcome)
    PROVE  /\ PP!Decide(i, outcome)
           /\ AbstractSessions[i].customer = sessions[i].customer
           /\ AbstractSessions[i].device = sessions[i].device
<1>1. PICK s \in Session :
              /\ sessions' = [sessions EXCEPT ![i] = s]
              /\ s.state = outcome /\ s.customer = sessions[i].customer
              /\ s.device = sessions[i].device
  BY DecidedRow
<1>2. i \in In("pending") /\ i \in Rows /\ TypeOK
  BY DecidedRow DEF In, SessionsSound
<1>3. AbstractSessions[i] = [phase |-> sessions[i].state, customer |-> sessions[i].customer,
                             device |-> sessions[i].device]
  BY <1>2, ViewOfRows DEF AbstractSessions
<1>4. /\ AbstractSessions[i].customer = sessions[i].customer
      /\ AbstractSessions[i].device = sessions[i].device
  BY <1>3
<1>5. AbstractSessions' = [AbstractSessions EXCEPT ![i] =
               [phase |-> outcome, customer |-> @.customer, device |-> @.device]]
  <2>1. AbstractSessions' = [AbstractSessions EXCEPT ![i] =
               [phase |-> s.state, customer |-> @.customer, device |-> s.device]]
    BY <1>1, <1>2, ViewOfUpdate
  <2>2. s.state = outcome /\ s.device = AbstractSessions[i].device
    BY <1>1, <1>4
  <2> QED  BY <2>1, <2>2
<1> QED  BY <1>2, <1>4, <1>5, ViewAlive DEF PP!Decide

\* A new session is opened in the place of its customer's earlier one.
LEMMA RefinesCreate ==
    ASSUME SessionsSound, NEW p \in Parents, CreateSession(p)
    PROVE  PP!Next \/ UNCHANGED PP!vars
<1> DEFINE o == op[p]
           s(t) == [state |-> "waiting", customer |-> o.customer, code |-> o.code,
                    device |-> NoDevice, proof |-> NoProof, expiresAt |-> t + WaitingLifetime]
           Replaced(j) == j \in Rows /\ sessions[j].customer = o.customer
<1>1. o.customer \in Customers /\ TypeOK /\ UNCHANGED devices
  BY CallTypes DEF CreateSession, SessionsSound, Creating
<1>2. CASE sessions' = sessions
  BY <1>1, <1>2, RefinesStutter
<1>3. ASSUME NEW i \in Ids, NEW t \in o.at .. now, sessions[i] = NoSession,
             sessions' = [j \in Ids |-> IF j = i THEN s(t)
                                        ELSE IF Replaced(j) THEN Gone ELSE sessions[j]]
      PROVE  PP!Next
  <2>1. Abstracted(s(t)) = [phase |-> "waiting", customer |-> o.customer, device |-> NoDevice]
    BY DEF Abstracted, NoSession, Gone
  <2>2. AbstractSessions[i] = PP!Unborn
    BY <1>1, <1>3, ViewOfRows DEF AbstractSessions
  <2>3. Abstracted(Gone) = PP!Gone
    BY <1>1, ViewOfRows
  <2>4. \A j \in Ids : Replaced(j) <=> j \in PP!Alive /\ AbstractSessions[j].customer = o.customer
    <3>1. \A j \in Rows : AbstractSessions[j].customer = sessions[j].customer
      <4> SUFFICES ASSUME NEW j \in Rows
                   PROVE  AbstractSessions[j].customer = sessions[j].customer
        OBVIOUS
      <4>1. AbstractSessions[j] = [phase |-> sessions[j].state, device |-> sessions[j].device,
                                   customer |-> sessions[j].customer]
        BY <1>1, ViewOfRows DEF AbstractSessions, Rows
      <4> QED  BY <4>1
    <3> QED  BY <1>1, <3>1, ViewAlive
  <2>5. \A j \in Ids : Abstracted(sessions'[j]) =
           IF j = i THEN [phase |-> "waiting", customer |-> o.customer, device |-> NoDevice]
           ELSE IF Replaced(j) THEN PP!Gone ELSE AbstractSessions[j]
    <3> HIDE DEF s, Replaced
    <3> QED  BY <1>3, <2>1, <2>3 DEF AbstractSessions
  <2>6. AbstractSessions' = [j \in Ids |->
           IF j = i THEN [phase |-> "waiting", customer |-> o.customer, device |-> NoDevice]
           ELSE IF Replaced(j) THEN PP!Gone ELSE AbstractSessions[j]]
    BY <2>5 DEF AbstractSessions
  <2>7. PP!Open(i, o.customer)
    <3> HIDE DEF Replaced
    <3> QED  BY <1>1, <2>2, <2>4, <2>6 DEF PP!Open
  <2> QED  BY <1>1, <2>7 DEF PP!Next
<1> QED  BY <1>2, <1>3 DEF CreateSession

\* Every step is a step of the abstract protocol or a stutter.
LEMMA RefinesStep == SessionsSound /\ [Next]_vars => [PP!Next]_(PP!vars)
<1> SUFFICES ASSUME SessionsSound, [Next]_vars PROVE PP!Next \/ UNCHANGED PP!vars
  OBVIOUS
<1>1. CASE UNCHANGED vars
  BY <1>1, RefinesStutter DEF vars
<1>2. ASSUME NEW p \in Parents,
             \/ ChooseCode(p) \/ Abort(p)
             \/ \E c \in Customers : StartCreate(p, c)
             \/ \E i \in Ids : StartHeartbeat(p, i)
      PROVE  UNCHANGED PP!vars
  BY <1>2, RefinesStutter DEF ChooseCode, Abort, StartCreate, StartHeartbeat
<1>3. CASE Tick \/ \E i \in Ids : Show(i)
  BY <1>3, RefinesStutter DEF Tick, Show
<1>4. ASSUME NEW i \in Ids, Confirm(i) PROVE PP!Next
  <2>1. PP!Confirm(i)
    BY <1>4, RefinesDecide DEF Confirm, PP!Confirm
  <2> QED  BY <2>1 DEF PP!Next
<1>5. ASSUME NEW i \in Ids, Cancel(i) PROVE PP!Next
  <2>1. PP!Cancel(i)
    BY <1>5, RefinesDecide DEF Cancel, PP!Cancel
  <2> QED  BY <2>1 DEF PP!Next
<1> QED
  BY <1>1, <1>2, <1>3, <1>4, <1>5, RefinesRotate, RefinesClaim, RefinesCreate DEF Next, ParentNext

\* Pairing implements the abstract protocol: one claim and one decision for a
\* session, and a registration exactly when it is confirmed.
THEOREM Refinement == Spec => PairsOnce
<1> QED  BY Sound, RefinesInit, RefinesStep, PTL DEF Spec, PairsOnce, PP!Spec

-----------------------------------------------------------------------------
\* The agent (PairingAgent).

\* A device whose session was confirmed is registered.
ConfirmedAreRegistered ==
    \A i \in In("confirmed") : <<sessions[i].customer, sessions[i].device>> \in devices

AgentSound ==
    SessionsSound /\ ConfirmedAreRegistered /\ AnswersAreSound /\ PairedIsRegistered

-----------------------------------------------------------------------------
\* What a step of the service does to a session: nothing, a deletion, something
\* before a device has claimed it, or the parent's decision.
Decided(i) ==
    /\ i \in In("pending") /\ sessions'[i] \in Session
    /\ sessions'[i].state \in {"confirmed", "cancelled"}
    /\ sessions'[i].device = sessions[i].device /\ sessions'[i].proof = sessions[i].proof
    /\ sessions'[i].customer = sessions[i].customer
    /\ sessions'[i].state = "confirmed" =>
          <<sessions[i].customer, sessions[i].device>> \in devices'

Follows(i) ==
    \/ sessions'[i] = sessions[i] \/ sessions'[i] = Gone
    \/ /\ sessions[i] = NoSession \/ i \in In("waiting")
       /\ sessions'[i] \in Session /\ sessions'[i].state # "confirmed"
    \/ Decided(i)

ServiceMoves ==
    /\ \A i \in Ids : Follows(i) /\ (sessions[i] # NoSession => sessions'[i] # NoSession)
    /\ devices \subseteq devices' /\ claims <= claims' /\ now <= now'

\* A session is neither of the values that stand for none.
LEMMA NotNone == \A s \in Session : s # NoSession /\ s # Gone
BY DEF Session, NoSession, Gone

\* One row is replaced by a session.
LEMMA UpdateMoves ==
    ASSUME SessionsSound, NEW i \in Rows, NEW s \in Session,
           sessions' = [sessions EXCEPT ![i] = s], Follows(i),
           devices \subseteq devices', claims <= claims', now' = now
    PROVE  ServiceMoves
<1>1. sessions' = [j \in Ids |-> IF j = i THEN s ELSE sessions[j]] /\ now \in Nat
  BY DEF SessionsSound, TypeOK
<1>2. \A j \in Ids : Follows(j) /\ (sessions[j] # NoSession => sessions'[j] # NoSession)
  BY <1>1, NotNone DEF Follows
<1> QED
  BY <1>1, <1>2 DEF ServiceMoves

\* Every step of the service moves each session in one of these ways, and
\* takes back no registration.
LEMMA ServiceStep ==
    ASSUME SessionsSound, [Next]_vars
    PROVE  ServiceMoves
<1>1. TypeOK /\ now \in Nat /\ claims \in Nat
  BY DEF SessionsSound, TypeOK
<1>2. ASSUME UNCHANGED <<sessions, devices, claims>>, now <= now' PROVE ServiceMoves
  BY <1>1, <1>2 DEF ServiceMoves, Follows
<1>3. ASSUME NEW p \in Parents, RotateCode(p) PROVE ServiceMoves
  <2>1. UNCHANGED <<now, devices, claims>>
    BY <1>3 DEF RotateCode
  <2>2. devices \subseteq devices' /\ claims <= claims' /\ now' = now
    BY <1>1, <2>1
  <2>3. CASE sessions' = sessions
    BY <1>1, <1>2, <2>1, <2>3
  <2>4. CASE sessions' # sessions
    <3>1. PICK i \in In("waiting"), s \in Session :
             sessions' = [sessions EXCEPT ![i] = s] /\ s.state = "waiting"
      BY <1>3, <2>4, RotatedRow
    <3>2. i \in Rows /\ Follows(i)
      BY <1>1, <3>1 DEF Follows, In, Rows, TypeOK
    <3> QED
      BY <2>2, <3>1, <3>2, UpdateMoves
  <2> QED
    BY <2>3, <2>4
<1>4. ASSUME NEW code \in Codes, NEW d \in Devices, Claim(code, d) PROVE ServiceMoves
  <2>1. UNCHANGED <<now, devices>> /\ claims <= claims'
    BY <1>1, <1>4 DEF Claim
  <2>2. PICK i \in In("waiting"), s \in Session :
           sessions' = [sessions EXCEPT ![i] = s] /\ s.state = "pending"
    BY <1>4, ClaimedRow
  <2>3. i \in Rows /\ Follows(i)
    BY <1>1, <2>2 DEF Follows, In, Rows, TypeOK
  <2> QED
    BY <1>1, <2>1, <2>2, <2>3, UpdateMoves
<1>5. ASSUME NEW i \in Ids, Confirm(i) \/ Cancel(i) PROVE ServiceMoves
  <2>1. PICK outcome \in {"confirmed", "cancelled"} :
           /\ Decide(i, outcome)
           /\ outcome = "confirmed" => <<sessions[i].customer, sessions[i].device>> \in devices'
    BY <1>5 DEF Confirm, Cancel
  <2>2. PICK s \in Session :
           /\ sessions' = [sessions EXCEPT ![i] = s] /\ i \in In("pending")
           /\ s.state = outcome /\ s.device = sessions[i].device /\ s.proof = sessions[i].proof
           /\ s.customer = sessions[i].customer
    BY <2>1, DecidedRow
  <2>3. i \in Rows /\ sessions'[i] = s
    BY <1>1, <2>2 DEF In, Rows, TypeOK
  <2>4. Follows(i)
    BY <2>1, <2>2, <2>3 DEF Follows, Decided
  <2>5. devices \subseteq devices' /\ now' = now /\ claims' = claims
    BY <1>5 DEF Confirm, Cancel
  <2>6. claims <= claims'
    BY <1>1, <2>5
  <2> QED
    BY <2>2, <2>3, <2>4, <2>5, <2>6, UpdateMoves
<1>6. ASSUME NEW p \in Parents, CreateSession(p) PROVE ServiceMoves
  <2>1. UNCHANGED <<now, devices, claims>>
    BY <1>6 DEF CreateSession
  <2>2. ASSUME NEW j \in Ids
        PROVE  Follows(j) /\ (sessions[j] # NoSession => sessions'[j] # NoSession)
    <3>1. \/ sessions'[j] = sessions[j] \/ sessions'[j] = Gone
          \/ /\ sessions[j] = NoSession /\ sessions'[j].state = "waiting"
             /\ sessions'[j] # NoSession /\ sessions'[j] # Gone
      BY <1>6 DEF CreateSession, NoSession, Gone
    <3>2. Gone # NoSession
      BY DEF Gone, NoSession
    <3>3. sessions'[j] \in Session \cup {NoSession, Gone}
      BY <1>6, CreateSessionSound DEF SessionsSound, TypeOK
    <3> QED
      BY <3>1, <3>2, <3>3 DEF Follows
  <2> QED
    BY <1>1, <2>1, <2>2 DEF ServiceMoves
<1>7. ASSUME NEW p \in Parents,
             \/ ChooseCode(p) \/ Abort(p) \/ (\E c \in Customers : StartCreate(p, c))
             \/ \E i \in Ids : StartHeartbeat(p, i)
      PROVE  ServiceMoves
  <2>1. UNCHANGED <<now, sessions, devices, claims>>
    BY <1>7 DEF ChooseCode, Abort, StartCreate, StartHeartbeat
  <2> QED
    BY <1>1, <1>2, <2>1
<1>8. ASSUME Tick \/ UNCHANGED vars \/ \E i \in Ids : Show(i) PROVE ServiceMoves
  BY <1>1, <1>2, <1>8 DEF Tick, Show, vars
<1> QED
  BY <1>3, <1>4, <1>5, <1>6, <1>7, <1>8 DEF Next, ParentNext

-----------------------------------------------------------------------------
\* What a call holds stays sound when the service goes on.

\* Without a row there never is one again, and a row of this device changes only
\* by the parent's decision.
LEMMA OurRowMoves ==
    ASSUME SessionsSound, ServiceMoves, NEW i \in Ids, sessions[i] # NoSession,
           i \in Rows => sessions[i].device = Me, i \in Rows'
    PROVE  i \in Rows /\ (sessions'[i] = sessions[i] \/ Decided(i))
<1>1. sessions[i] # Gone /\ i \in Rows
  BY NotNone DEF ServiceMoves, Follows, Rows, Decided, In
<1>2. sessions[i].device # NoDevice
  BY <1>1, AgentAssumption, ValuesAssumption
<1>3. i \notin In("waiting")
  BY <1>1, <1>2 DEF SessionsSound, RowsConsistent, In
<1> QED
  BY <1>1, <1>3 DEF ServiceMoves, Follows, Rows

\* Once registered, the device stays so.
LEMMA RegisteredStays == ServiceMoves /\ Registered => Registered'
BY DEF ServiceMoves, Registered

\* A session this device has claimed stays its own until it is deleted.
LEMMA OurProofStays ==
    ASSUME SessionsSound, ServiceMoves, claims' \in Nat, NEW i \in Ids, NEW proof \in Nat,
           OurProof(i, proof)
    PROVE  OurProof(i, proof)'
<1>1. proof \in 1 .. claims' /\ sessions'[i] # NoSession
  BY DEF OurProof, ServiceMoves, SessionsSound, TypeOK
<1>2. ASSUME i \in Rows' PROVE sessions'[i].device = Me /\ sessions'[i].proof = proof
  BY <1>2, OurRowMoves DEF OurProof, Decided
<1> QED
  BY <1>1, <1>2 DEF OurProof

\* What a call has read of it stays true.
LEMMA StillTrueStays ==
    ASSUME SessionsSound, ServiceMoves, TypeOK', NEW i \in Ids, NEW state \in Outcome,
           StillTrue(i, state)
    PROVE  StillTrue(i, state)'
<1>1. sessions'[i] # NoSession
  BY DEF StillTrue, ServiceMoves
<1>2. ASSUME i \in Rows'
      PROVE  /\ i \in Rows /\ sessions[i].device = Me /\ sessions'[i].device = Me
             /\ sessions'[i] = sessions[i] \/ Decided(i)
  BY <1>2, OurRowMoves DEF StillTrue, Decided
<1>3. state \in {"confirmed", "cancelled"} /\ i \in Rows' => sessions'[i].state = state
  BY <1>2 DEF StillTrue, Decided, In
<1>4. state = "expired" /\ i \in In("pending")' => ~Live(i)'
  <2> SUFFICES ASSUME state = "expired", i \in In("pending")' PROVE ~Live(i)'
    OBVIOUS
  <2>1. sessions'[i] = sessions[i] /\ i \in In("pending")
    BY <1>2 DEF In, Decided
  <2>2. ~Live(i) /\ now <= now' /\ now \in Nat /\ now' \in Nat
    BY <2>1 DEF StillTrue, ServiceMoves, SessionsSound, TypeOK
  <2>3. sessions[i].expiresAt \in Nat
    BY <2>1, RowsAreSessions DEF In, SessionsSound, Session
  <2> QED
    BY <2>1, <2>2, <2>3 DEF Live
<1> QED
  BY <1>1, <1>2, <1>3, <1>4, RegisteredStays DEF StillTrue

\* What a call holds is determined by the step it is at.
LEMMA CallKinds ==
    ASSUME NEW o \in Call
    PROVE  /\ o.step = "claimed" => o \in Claimed
           /\ o.step \in {"ask", "proven"} => o \in Asking
           /\ o.step = "judge" => o \in Judging
           /\ o.step = "answer" => o \in Answering
BY DEF Call, Idle, Claimed, Asking, Judging, Answering

\* What a call holds survives every step of the service.
LEMMA HeldStays ==
    ASSUME SessionsSound, SessionsSound', ServiceMoves, NEW o \in Call, CallSound(o)
    PROVE  CallSound(o)'
<1> USE DEF SessionsSound
<1>1. CASE o.step \in {"claimed", "ask", "proven"}
  <2>1. o.session \in Ids /\ o.proof \in Nat
    BY <1>1, CallKinds DEF Claimed, Asking
  <2> QED
    BY <1>1, <2>1, OurProofStays DEF CallSound, TypeOK
<1>2. CASE o.step = "judge"
  <2>1. o.session \in Ids /\ o.state \in Outcome
    BY <1>2, CallKinds DEF Judging
  <2>2. StillTrue(o.session, o.state)'
    BY <1>2, <2>1, StillTrueStays DEF CallSound
  <2>3. ASSUME o.session \in Rows'
        PROVE  /\ o.session \in Rows
               /\ sessions'[o.session] = sessions[o.session] \/ Decided(o.session)
    BY <1>2, <2>1, <2>3, OurRowMoves DEF CallSound, StillTrue
  <2>4. o.session \in In("pending")' => o.until = sessions'[o.session].expiresAt
    BY <1>2, <2>3 DEF CallSound, In, Decided
  <2>5. o.session \notin In("waiting")'
    BY <1>2, <2>3 DEF CallSound, In, Decided
  <2> QED
    BY <1>2, <2>2, <2>4, <2>5 DEF CallSound
<1>3. CASE o.step = "answer"
  <2>1. o.session \in Ids /\ o.state \in Outcome
    BY <1>3, CallKinds DEF Answering
  <2> QED
    BY <1>3, <2>1, StillTrueStays DEF CallSound
<1> QED
  BY <1>1, <1>2, <1>3 DEF CallSound

\* Confirmed sessions stay registered.
LEMMA ConfirmedStay ==
    ASSUME SessionsSound, ServiceMoves, ConfirmedAreRegistered
    PROVE  ConfirmedAreRegistered'
<1> SUFFICES ASSUME NEW i \in In("confirmed")'
             PROVE  <<sessions'[i].customer, sessions'[i].device>> \in devices'
  BY DEF ConfirmedAreRegistered
<1>1. i \in Ids /\ sessions'[i] \notin {NoSession, Gone} /\ sessions'[i].state = "confirmed"
  BY DEF In, Rows
<1>2. CASE sessions'[i] = sessions[i]
  BY <1>1, <1>2 DEF ConfirmedAreRegistered, In, Rows, ServiceMoves
<1>3. CASE Decided(i)
  BY <1>1, <1>3 DEF Decided
<1> QED
  BY <1>1, <1>2, <1>3 DEF ServiceMoves, Follows

-----------------------------------------------------------------------------
\* Every step of the agent and its calls.

\* What every step of the service keeps, all together.
LEMMA ServiceSteps ==
    ASSUME AgentSound, [Next]_vars
    PROVE  /\ SessionsSound' /\ ConfirmedAreRegistered' /\ ServiceMoves
           /\ \A o \in Call : CallSound(o) => CallSound(o)'
           /\ agent' = agent => PairedIsRegistered'
<1>1. SessionsSound' /\ ServiceMoves /\ ConfirmedAreRegistered'
  BY StepSound, ServiceStep, ConfirmedStay DEF AgentSound
<1>2. \A o \in Call : CallSound(o) => CallSound(o)'
  BY <1>1, HeldStays DEF AgentSound
<1>3. ASSUME agent' = agent PROVE PairedIsRegistered'
  <2>1. agent \in Agent /\ PairedIsRegistered /\ claims' \in Nat
    BY <1>1 DEF AgentSound, AnswersAreSound, SessionsSound, TypeOK
  <2>2. ASSUME agent.proof # NoProof
        PROVE  agent.session # NoId /\ OurProof(agent.session, agent.proof)'
    <3>1. agent.session \in Ids /\ agent.proof \in Nat
      BY <2>1, <2>2 DEF PairedIsRegistered, Agent
    <3>2. \A i \in Ids, proof \in Nat : OurProof(i, proof) => OurProof(i, proof)'
      BY <1>1, <2>1, OurProofStays DEF AgentSound
    <3>3. OurProof(agent.session, agent.proof)
      BY <2>1, <2>2 DEF PairedIsRegistered
    <3> QED
      BY <1>3, <2>1, <2>2, <3>1, <3>2, <3>3 DEF PairedIsRegistered, OurProof
  <2> QED
    BY <1>1, <1>3, <2>1, <2>2, RegisteredStays DEF PairedIsRegistered
<1> QED
  BY <1>1, <1>2, <1>3

\* One call goes on with something sound.
LEMMA CallMoves ==
    ASSUME AgentSound, [Next]_vars, agent' \in Agent, PairedIsRegistered',
           NEW u \in Calls, NEW o \in Call, CallSound(o)', GotoCall(u, o)
    PROVE  AgentSound'
<1>1. call \in [Calls -> Call] /\ \A w \in Calls : CallSound(call[w])
  BY DEF AgentSound, AnswersAreSound
<1>2. call' \in [Calls -> Call]
  BY <1>1 DEF GotoCall
<1>3. ASSUME NEW w \in Calls PROVE CallSound(call[w])'
  <2>1. CASE w = u
    <3>1. call'[w] = o
      BY <1>1, <2>1 DEF GotoCall
    <3> QED
      BY <3>1 DEF CallSound, OurProof, StillTrue
  <2>2. CASE w # u
    <3>1. call'[w] = call[w] /\ call[w] \in Call /\ CallSound(call[w])
      BY <1>1, <2>2 DEF GotoCall
    <3>2. \A x \in Call : CallSound(x) => CallSound(x)'
      BY ServiceSteps
    <3> QED
      BY <3>1, <3>2 DEF CallSound, OurProof, StillTrue
  <2> QED
    BY <2>1, <2>2
<1> QED
  BY <1>2, <1>3, ServiceSteps DEF AgentSound, AnswersAreSound

\* A call ends, or goes on, with nothing new.
LEMMA CallOnly ==
    ASSUME AgentSound, UNCHANGED <<vars, agent>>,
           NEW u \in Calls, NEW o \in Call, CallSound(o), GotoCall(u, o)
    PROVE  AgentSound'
<1>1. /\ [Next]_vars /\ agent' = agent
      /\ agent' \in Agent
  BY DEF AgentSound, AnswersAreSound
<1>2. PairedIsRegistered' /\ CallSound(o)'
  BY <1>1, ServiceSteps
<1> QED
  BY <1>1, <1>2, CallMoves

\* A call that is over claims nothing.
LEMMA IdleSound == Idle \in Call /\ CallSound(Idle) /\ CallSound(Idle)'
BY DEF Call, CallSound, Idle

\* The agent changes, and a call ends.
LEMMA CallEnds ==
    ASSUME AgentSound, UNCHANGED vars, agent' \in Agent, PairedIsRegistered',
           NEW u \in Calls, GotoCall(u, Idle)
    PROVE  AgentSound'
BY IdleSound, CallMoves

\* The service commits a claim of this device: its proof is ours.
LEMMA SendClaimSound ==
    ASSUME AgentSound, NEW u \in Calls, NEW code \in Codes, SendClaim(u, code)
    PROVE  AgentSound'
<1>1. Claim(code, Me) /\ SessionsSound /\ agent' = agent
  BY DEF SendClaim, AgentSound
<1>2. PICK i \in Ids : /\ sessions'[i] # sessions[i]
                       /\ GotoCall(u, [step |-> "claimed", session |-> i, proof |-> claims'])
  BY DEF SendClaim
<1>3. PICK j \in In("waiting"), s \in Session :
              /\ sessions' = [sessions EXCEPT ![j] = s]
              /\ s.device = Me /\ s.proof = claims + 1
  BY <1>1, ClaimedRow, AgentAssumption
<1>4. sessions'[i] = s
  BY <1>2, <1>3 DEF SessionsSound, TypeOK
<1>5. PICK proof \in Nat : proof = claims + 1 /\ claims' = proof /\ proof \in 1 .. proof
  BY <1>1 DEF Claim, SessionsSound, TypeOK
<1> DEFINE o == [step |-> "claimed", session |-> i, proof |-> proof]
<1>6. o \in Call /\ GotoCall(u, o)
  BY <1>2, <1>5 DEF Call, Claimed
<1>7. OurProof(i, proof)'
  BY <1>3, <1>4, <1>5, NotNone DEF OurProof
<1>8. CallSound(o)'
  BY <1>7 DEF CallSound
<1>9. [Next]_vars /\ agent' \in Agent
  BY <1>1, AgentAssumption DEF Next, AgentSound, AnswersAreSound
<1>10. PairedIsRegistered'
  BY <1>1, <1>9, ServiceSteps
<1> HIDE DEF o
<1> QED
  BY <1>6, <1>8, <1>9, <1>10, CallMoves

\* The answer to a claim makes the agent wait for that session.
LEMMA ApplyClaimSound ==
    ASSUME AgentSound, NEW u \in Calls, ApplyClaim(u)
    PROVE  AgentSound'
<1>1. call[u] \in Claimed /\ CallSound(call[u])
  BY CallKinds DEF ApplyClaim, AgentSound, AnswersAreSound
<1>2. UNCHANGED vars /\ OurProof(call[u].session, call[u].proof)
  BY <1>1 DEF ApplyClaim, CallSound, Claimed
<1>3. /\ agent' \in Agent /\ ~agent'.paired /\ agent'.state = "pending"
      /\ agent'.session = call[u].session /\ agent'.proof = call[u].proof
      /\ call[u].session \in Ids
  BY <1>1 DEF ApplyClaim, Agent, Claimed, Outcome
<1>4. PairedIsRegistered'
  <2>1. agent'.session # NoId
    BY <1>3, AgentAssumption
  <2>2. OurProof(agent.session, agent.proof)'
    BY <1>2, <1>3 DEF OurProof, vars, Rows
  <2> QED
    BY <1>3, <2>1, <2>2 DEF PairedIsRegistered
<1> QED
  BY <1>2, <1>3, <1>4, CallEnds DEF ApplyClaim

\* A status call copies the agent's attempt.
LEMMA StartStatusSound ==
    ASSUME AgentSound, NEW u \in Calls, StartStatus(u)
    PROVE  AgentSound'
<1> DEFINE o == [step |-> "ask", session |-> agent.session, proof |-> agent.proof]
<1>1. agent \in Agent /\ agent.session # NoId /\ agent.proof # NoProof
  BY DEF StartStatus, AgentSound, AnswersAreSound
<1>2. o \in Call
  BY <1>1 DEF Call, Asking, Agent
<1>3. CallSound(o)
  BY <1>1 DEF CallSound, AgentSound, PairedIsRegistered
<1> QED
  BY <1>2, <1>3, CallOnly DEF StartStatus

\* The service checks the proof that the call copied.
LEMMA CheckProofSound ==
    ASSUME AgentSound, NEW u \in Calls, CheckProof(u)
    PROVE  AgentSound'
<1> DEFINE o == [call[u] EXCEPT !.step = "proven"]
<1>1. call[u] \in Asking /\ CallSound(call[u]) /\ call[u].step = "ask"
  BY CallKinds DEF CheckProof, AgentSound, AnswersAreSound
<1>2. o \in Call /\ CallSound(o)
  BY <1>1 DEF Call, CallSound, Asking
<1>3. GotoCall(u, o) \/ GotoCall(u, Idle)
  BY DEF CheckProof
<1> QED
  BY <1>2, <1>3, IdleSound, CallOnly DEF CheckProof

\* What is read of a session whose proof was right is this device's.
LEMMA ReadRowSound ==
    ASSUME AgentSound, NEW u \in Calls, ReadRow(u)
    PROVE  AgentSound'
<1> DEFINE i == call[u].session
           o == [step |-> "judge", session |-> i, state |-> sessions[i].state,
                 until |-> sessions[i].expiresAt]
<1>1. call[u] \in Asking /\ CallSound(call[u]) /\ call[u].step = "proven"
  BY CallKinds DEF ReadRow, AgentSound, AnswersAreSound
<1>2. CASE i \in Rows
  <2>1. /\ i \in Ids /\ sessions[i] \in Session /\ sessions[i] # NoSession
        /\ sessions[i].device = Me
    BY <1>1, <1>2, RowsAreSessions, NotNone
    DEF CallSound, OurProof, AgentSound, SessionsSound
  <2>2. sessions[i].state # "waiting"
    BY <1>2, <2>1, AgentAssumption, ValuesAssumption
    DEF AgentSound, SessionsSound, RowsConsistent
  <2>3. sessions[i].state \in {"pending", "confirmed", "cancelled"}
        /\ sessions[i].expiresAt \in Nat
    BY <2>1, <2>2 DEF Session
  <2>4. o \in Call
    BY <2>1, <2>3 DEF Call, Judging, Outcome
  <2>5. sessions[i].state = "confirmed" => Registered
    <3> SUFFICES ASSUME sessions[i].state = "confirmed" PROVE Registered
      OBVIOUS
    <3>1. <<sessions[i].customer, Me>> \in devices /\ sessions[i].customer \in Customers
      BY <1>2, <2>1 DEF AgentSound, ConfirmedAreRegistered, In, Session
    <3> QED
      BY <3>1 DEF Registered
  <2>6. StillTrue(i, sessions[i].state)
    BY <1>2, <2>1, <2>3, <2>5 DEF StillTrue
  <2>7. CallSound(o)
    BY <2>2, <2>6 DEF CallSound, In
  <2> QED
    BY <1>2, <2>4, <2>7, CallOnly DEF ReadRow
<1>3. CASE i \notin Rows
  BY <1>3, IdleSound, CallOnly DEF ReadRow
<1> QED
  BY <1>2, <1>3

\* The service compares the deadline it read with the clock.
LEMMA JudgeSound ==
    ASSUME AgentSound, NEW u \in Calls, Judge(u)
    PROVE  AgentSound'
<1> DEFINE state == IF now < call[u].until THEN call[u].state ELSE "expired"
           o == [step |-> "answer", session |-> call[u].session, state |-> state]
<1>1. call[u] \in Judging /\ CallSound(call[u]) /\ call[u].step = "judge"
  BY CallKinds DEF Judge, AgentSound, AnswersAreSound
<1>2. o \in Call
  BY <1>1 DEF Call, Answering, Judging, Outcome
<1>3. StillTrue(call[u].session, call[u].state)
  BY <1>1 DEF CallSound
<1>4. StillTrue(call[u].session, state)
  <2>1. CASE now < call[u].until
    BY <1>3, <2>1
  <2>2. CASE ~(now < call[u].until)
    <3>1. call[u].session \in In("pending") => ~Live(call[u].session)
      BY <1>1, <2>2 DEF CallSound, Live
    <3> QED
      BY <1>3, <2>2, <3>1 DEF StillTrue
  <2> QED
    BY <2>1, <2>2
<1> HIDE DEF state
<1>5. CallSound(o)
  BY <1>4 DEF CallSound
<1> QED
  BY <1>2, <1>5, CallOnly DEF Judge, state

\* Only a confirmation pairs, and what it says is still true.
LEMMA ApplyStatusSound ==
    ASSUME AgentSound, NEW u \in Calls, ApplyStatus(u)
    PROVE  AgentSound'
<1>1. call[u] \in Answering /\ CallSound(call[u]) /\ call[u].step = "answer"
  BY CallKinds DEF ApplyStatus, AgentSound, AnswersAreSound
<1>2. agent \in Agent /\ PairedIsRegistered /\ call[u].state \in Outcome
  BY <1>1 DEF AgentSound, AnswersAreSound, Answering
<1>3. call[u].state = "confirmed" => Registered
  BY <1>1 DEF CallSound, StillTrue
<1>4. /\ agent'.state = call[u].state /\ agent'.session = agent.session
      /\ agent'.paired = IF call[u].state = "pending" THEN agent.paired
                         ELSE call[u].state = "confirmed"
      /\ agent'.proof = IF call[u].state = "pending" THEN agent.proof ELSE NoProof
      /\ agent' \in Agent
  BY <1>2 DEF ApplyStatus, Agent, NoProof
<1>5. UNCHANGED vars
  BY DEF ApplyStatus
<1>6. agent'.paired \/ agent'.state = "confirmed" => Registered
  BY <1>2, <1>3, <1>4 DEF PairedIsRegistered
<1>7. agent'.proof # NoProof =>
         agent'.session # NoId /\ OurProof(agent.session, agent.proof)
         /\ agent'.proof = agent.proof
  BY <1>2, <1>4 DEF PairedIsRegistered
<1>8. PairedIsRegistered'
  BY <1>4, <1>5, <1>6, <1>7 DEF PairedIsRegistered, OurProof, Registered, Rows, vars
<1> QED
  BY <1>4, <1>5, <1>8, CallEnds DEF ApplyStatus

\* An agent that holds no attempt claims nothing.
LEMMA UnpairedSound ==
    ASSUME agent' = Unpaired
    PROVE  agent' \in Agent /\ PairedIsRegistered'
BY DEF Unpaired, Agent, NoProof, PairedIsRegistered

\* Neither a reset nor a restart leaves anything to claim.
LEMMA ForgetSound ==
    ASSUME AgentSound, Reset \/ Restart
    PROVE  AgentSound'
<1>1. UNCHANGED vars /\ [Next]_vars /\ agent' = Unpaired
  BY DEF Reset, Restart
<1>2. /\ SessionsSound' /\ ConfirmedAreRegistered'
      /\ \A o \in Call : CallSound(o) => CallSound(o)'
  BY <1>1, ServiceSteps
<1>3. call' = call \/ call' = [u \in Calls |-> Idle]
  BY DEF Reset, Restart
<1>4. /\ call' \in [Calls -> Call]
      /\ \A u \in Calls : (call'[u] = call[u] /\ CallSound(call[u])) \/ call'[u] = Idle
  BY <1>3, IdleSound DEF AgentSound, AnswersAreSound
<1>5. ASSUME NEW u \in Calls PROVE CallSound(call[u])'
  <2>1. call'[u] \in Call
    BY <1>4
  <2> QED
    BY <1>2, <1>4, <2>1, IdleSound DEF CallSound, OurProof, StillTrue
<1> QED
  BY <1>1, <1>2, <1>4, <1>5, UnpairedSound DEF AgentSound, AnswersAreSound

\* Steps of the service leave the agent alone.
LEMMA ServiceOnlySound ==
    ASSUME AgentSound, [Next]_vars, UNCHANGED agentVars
    PROVE  AgentSound'
<1>1. agent' = agent /\ call' = call
  BY DEF agentVars
<1>2. /\ call \in [Calls -> Call] /\ agent \in Agent
      /\ \A u \in Calls : call[u] \in Call /\ CallSound(call[u])
  BY DEF AgentSound, AnswersAreSound
<1>3. \A o \in Call : CallSound(o) => CallSound(o)'
  BY ServiceSteps
<1>4. ASSUME NEW u \in Calls PROVE CallSound(call[u])'
  BY <1>1, <1>2, <1>3 DEF CallSound, OurProof, StillTrue
<1> QED
  BY <1>1, <1>2, <1>4, ServiceSteps DEF AgentSound, AnswersAreSound

\* Every step keeps the invariant.
LEMMA AgentStepSound == AgentSound /\ [AgentNext]_allVars => AgentSound'
<1> SUFFICES ASSUME AgentSound, [AgentNext]_allVars
             PROVE  AgentSound'
  OBVIOUS
<1>1. ASSUME NEW u \in Calls, LoseAnswer(u) PROVE AgentSound'
  BY <1>1, IdleSound, CallOnly DEF LoseAnswer
<1>2. CASE ParentNext /\ UNCHANGED agentVars
  BY <1>2, ServiceOnlySound DEF Next
<1>3. CASE \E code \in Codes, d \in Devices \ {Me} : Claim(code, d) /\ UNCHANGED agentVars
  BY <1>3, ServiceOnlySound DEF Next
<1>4. CASE UNCHANGED allVars
  BY <1>4, ServiceOnlySound DEF allVars
<1> QED
  BY <1>1, <1>2, <1>3, <1>4, SendClaimSound, ApplyClaimSound, StartStatusSound,
     CheckProofSound, ReadRowSound, JudgeSound, ApplyStatusSound, ForgetSound
  DEF AgentNext

\* The initial state is sound.
LEMMA AgentInitSound == AgentInit => AgentSound
<1> SUFFICES ASSUME AgentInit PROVE AgentSound
  OBVIOUS
<1>1. SessionsSound /\ Rows = {}
  BY InitSound DEF AgentInit, Init, Rows
<1>2. agent \in Agent /\ PairedIsRegistered
  BY DEF AgentInit, Unpaired, Agent, NoProof, PairedIsRegistered
<1> QED
  BY <1>1, <1>2, IdleSound DEF AgentInit, AgentSound, ConfirmedAreRegistered, In, AnswersAreSound

\* The inductive invariant of the agent and the service together.
LEMMA AgentIsSound == AgentSpec => []AgentSound
BY AgentInitSound, AgentStepSound, PTL DEF AgentSpec

\* Every answer on its way to the agent is still true of the session it is
\* about, however late it is applied and whatever the agent has forgotten or
\* begun since it asked: a proof is the one that the session of this device
\* takes, and a state that was read still stands (AnswersAreSound).
THEOREM AnswersStayTrue == AgentSpec => []AnswersAreSound
<1>1. AgentSound => AnswersAreSound
  BY DEF AgentSound
<1> QED  BY <1>1, AgentIsSound, PTL

\* The agent says it is paired only when a parent registered the device
\* (PairedIsRegistered).
THEOREM PairedMeansRegistered == AgentSpec => []PairedIsRegistered
<1>1. AgentSound => PairedIsRegistered
  BY DEF AgentSound
<1> QED  BY <1>1, AgentIsSound, PTL
=============================================================================
