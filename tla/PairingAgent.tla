---------------------------- MODULE PairingAgent ----------------------------
(***************************************************************************)
(* The agent's side of device pairing (internal/agent/ui_api.go), composed *)
(* with the service of Pairing.                                            *)
(*                                                                         *)
(* The agent keeps one pairing attempt and a paired flag under a mutex.    *)
(* The desktop UI calls it concurrently.  A claim is committed by the      *)
(* service before its answer reaches the agent, and a status call copies   *)
(* the attempt, releases the mutex, asks the service, which checks the     *)
(* proof and reads the row with two statements and then reads the clock,   *)
(* and takes the mutex again to apply the answer.  A failed call changes   *)
(* only what the UI shows of the connection, which is left out.            *)
(***************************************************************************)
EXTENDS Pairing

CONSTANTS Me,          \* the device the agent runs on
          Calls,       \* concurrent calls of the desktop UI
          NoId         \* the empty session identifier

ASSUME AgentAssumption == Me \in Devices /\ NoId \notin Ids

VARIABLES agent,  \* paired and pairing of UIAPI
          call    \* call[u]: where a UI call is and what it holds

agentVars == <<agent, call>>
allVars == <<vars, agentVars>>

Outcome == {"pending", "confirmed", "cancelled", "expired"}

Agent == [paired : BOOLEAN, session : Ids \cup {NoId}, proof : Nat,
          state : Outcome \cup {"unpaired"}]

Unpaired == [paired |-> FALSE, session |-> NoId, proof |-> NoProof, state |-> "unpaired"]

\* Claimed calls hold the claim's answer; the others, a copy of the attempt
\* and what the service has read for it.
Claimed == [step : {"claimed"}, session : Ids, proof : Nat]
Asking == [step : {"ask", "proven"}, session : Ids, proof : Nat]
Judging == [step : {"judge"}, session : Ids, state : Outcome \ {"expired"}, until : Nat]
Answering == [step : {"answer"}, session : Ids, state : Outcome]

Call == {Idle} \cup Claimed \cup Asking \cup Judging \cup Answering

GotoCall(u, o) == call' = [call EXCEPT ![u] = o]

AgentInit == Init /\ agent = Unpaired /\ call = [u \in Calls |-> Idle]

-----------------------------------------------------------------------------
\* The service commits the claim of the agent's device.
SendClaim(u, code) ==
    /\ call[u] = Idle
    /\ Claim(code, Me)
    /\ \E i \in Ids : /\ sessions'[i] # sessions[i]
                      /\ GotoCall(u, [step |-> "claimed", session |-> i, proof |-> claims'])
    /\ UNCHANGED agent

\* The answer starts a new attempt, whatever the agent held before.
ApplyClaim(u) ==
    /\ call[u].step = "claimed"
    /\ agent' = [paired |-> FALSE, session |-> call[u].session,
                 proof |-> call[u].proof, state |-> "pending"]
    /\ GotoCall(u, Idle)
    /\ UNCHANGED vars

\* Without a session and a proof the status is answered from the attempt.
StartStatus(u) ==
    /\ call[u] = Idle
    /\ agent.session # NoId
    /\ agent.proof # NoProof
    /\ GotoCall(u, [step |-> "ask", session |-> agent.session, proof |-> agent.proof])
    /\ UNCHANGED <<vars, agent>>

\* PairingSessionByBootstrapProof finds the row and compares the proof.
CheckProof(u) ==
    LET i == call[u].session
    IN  /\ call[u].step = "ask"
        /\ IF i \in Rows /\ sessions[i].proof = call[u].proof
           THEN GotoCall(u, [call[u] EXCEPT !.step = "proven"])
           ELSE GotoCall(u, Idle)
        /\ UNCHANGED <<vars, agent>>

\* PairingSession reads the row again; it may have been replaced meanwhile.
ReadRow(u) ==
    LET i == call[u].session
    IN  /\ call[u].step = "proven"
        /\ IF i \in Rows
           THEN GotoCall(u, [step |-> "judge", session |-> i, state |-> sessions[i].state,
                             until |-> sessions[i].expiresAt])
           ELSE GotoCall(u, Idle)
        /\ UNCHANGED <<vars, agent>>

\* Slip: the session is given up one moment early.
JudgeEarly(u) ==
    /\ call[u].step = "judge"
    /\ GotoCall(u, [step |-> "answer", session |-> call[u].session,
                    state |-> IF now + 1 < call[u].until THEN call[u].state ELSE "expired"])
    /\ UNCHANGED <<vars, agent>>

\* The clock is compared with the row that was read.
Judge(u) ==
    /\ call[u].step = "judge"
    /\ GotoCall(u, [step |-> "answer", session |-> call[u].session,
                    state |-> IF now < call[u].until THEN call[u].state ELSE "expired"])
    /\ UNCHANGED <<vars, agent>>

\* Slip: every device that is not turned away counts as paired.
ApplyStatusEagerly(u) ==
    LET outcome == call[u].state
    IN  /\ call[u].step = "answer"
        /\ agent' = [agent EXCEPT !.state = outcome,
                                  !.paired = outcome \notin {"cancelled", "expired"},
                                  !.proof = IF outcome = "pending" THEN @ ELSE NoProof]
        /\ GotoCall(u, Idle)
        /\ UNCHANGED vars

\* The answer is applied to the attempt the agent holds now.
ApplyStatus(u) ==
    LET outcome == call[u].state
    IN  /\ call[u].step = "answer"
        /\ agent' = [agent EXCEPT !.state = outcome,
                                  !.paired = IF outcome = "pending" THEN @
                                             ELSE outcome = "confirmed",
                                  !.proof = IF outcome = "pending" THEN @ ELSE NoProof]
        /\ GotoCall(u, Idle)
        /\ UNCHANGED vars

\* The UI gives up an attempt; a paired device refuses.
Reset ==
    /\ ~agent.paired
    /\ agent' = Unpaired
    /\ UNCHANGED <<vars, call>>

\* The remote call fails, or its answer is lost.
LoseAnswer(u) ==
    /\ call[u] # Idle
    /\ GotoCall(u, Idle)
    /\ UNCHANGED <<vars, agent>>

\* The agent keeps nothing of this on disk.
Restart ==
    /\ agent' = Unpaired
    /\ call' = [u \in Calls |-> Idle]
    /\ UNCHANGED vars

AgentNext ==
    \/ \E u \in Calls : \/ ApplyClaim(u) \/ StartStatus(u) \/ CheckProof(u) \/ ReadRow(u)
                        \/ Judge(u) \/ ApplyStatus(u) \/ LoseAnswer(u)
                        \/ \E code \in Codes : SendClaim(u, code)
    \/ Reset
    \/ Restart
    \/ ParentNext /\ UNCHANGED agentVars
    \/ \E code \in Codes, d \in Devices \ {Me} : Claim(code, d) /\ UNCHANGED agentVars

AgentSpec == AgentInit /\ [][AgentNext]_allVars

-----------------------------------------------------------------------------
Registered == \E c \in Customers : <<c, Me>> \in devices

\* The proof opens session i, and i was claimed by this device.
OurProof(i, proof) ==
    /\ proof \in 1 .. claims
    /\ sessions[i] # NoSession
    /\ i \in Rows => sessions[i].device = Me /\ sessions[i].proof = proof

\* What is still true of session i when a state read earlier is acted on: a
\* decision is final, a registration stands, and a session that was given up
\* can no longer be confirmed.
StillTrue(i, state) ==
    /\ sessions[i] # NoSession
    /\ i \in Rows => sessions[i].device = Me
    /\ state = "confirmed" => Registered /\ (i \in Rows => sessions[i].state = "confirmed")
    /\ state = "cancelled" => (i \in Rows => sessions[i].state = "cancelled")
    /\ state = "expired" => (i \in In("pending") => ~Live(i))

CallSound(o) ==
    /\ o.step \in {"claimed", "ask", "proven"} => OurProof(o.session, o.proof)
    /\ o.step = "judge" => /\ StillTrue(o.session, o.state)
                           /\ o.session \in In("pending") =>
                                 o.until = sessions[o.session].expiresAt
                           /\ o.session \notin In("waiting")
    /\ o.step = "answer" => StillTrue(o.session, o.state)

\* Every answer on its way to the agent, however old, is still true of the
\* session it is about.
AnswersAreSound ==
    /\ agent \in Agent
    /\ call \in [Calls -> Call]
    /\ \A u \in Calls : CallSound(call[u])

\* The agent says it is paired only if a parent has registered the device, and
\* the session it asks about is one that this device claimed.
PairedIsRegistered ==
    /\ agent.paired \/ agent.state = "confirmed" => Registered
    /\ agent.proof # NoProof => agent.session # NoId /\ OurProof(agent.session, agent.proof)

\* An agent that holds no attempt says it is unpaired: after a reset nothing
\* is left of the attempt (TestUIAPIResetPendingPairing).
ResetForgets == agent.session = NoId => agent.state = "unpaired"
=============================================================================
