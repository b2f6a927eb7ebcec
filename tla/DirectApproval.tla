--------------------------- MODULE DirectApproval ---------------------------
(***************************************************************************)
(* Approving a blocked page with the parent code typed on the device: the  *)
(* agent's bridge (internal/agent/browser_approval_api.go), the route and  *)
(* the call of the service (internal/service/http.go, browser_approval.go),*)
(* composed with the code and its attempt limit (ApprovalCode) and with    *)
(* the stored policy (ProfilePolicy).                                      *)
(*                                                                         *)
(* The service checks the device's link, verifies the code, reads the      *)
(* clock and changes the policy in four steps, between which the parent    *)
(* may unlink the device, set another code or replace the policy, and the  *)
(* call may break off.  The bridge turns the service's status into what    *)
(* the page is told.                                                       *)
(***************************************************************************)
EXTENDS ApprovalCode, ProfilePolicy

CONSTANTS Calls,       \* concurrent approvals of blocked pages
          MaxRevision  \* bound on revisions at which calls start

ASSUME RevisionBoundAssumption == MaxRevision \in Nat

VARIABLES linked,  \* the device is linked to the profile
          config,  \* profile_configs: the profile's row
          call     \* call[c]: where an approval is and what it holds

approvalVars == <<linked, config, call>>
allVars == <<vars, approvalVars>>

Idle == [step |-> "idle"]

\* right and granted are history: the code was the parent's when it was
\* verified, and the policy transaction of the call succeeded.
Told == {"approved", "invalid parent code", "not available for this profile",
         "not found", "control service unavailable"}
Asking == [step : {"link", "verify", "stamp"}, site : Sites, decision : Decisions,
           code : Codes, right : BOOLEAN]
Granting == [step : {"grant"}, site : Sites, decision : Decisions, at : Nat,
             right : BOOLEAN]
Answered == [step : {"answered"}, told : Told, granted : BOOLEAN]

Goto(c, o) == call' = [call EXCEPT ![c] = o]
Tell(c, told, granted) ==
    Goto(c, [step |-> "answered", told |-> told, granted |-> granted])

ApprovalInit ==
    /\ Init
    /\ linked = TRUE
    /\ config \in [revision : {1}, policy : {[EmptyPolicy EXCEPT !.profile = TRUE]}]
    /\ call = [c \in Calls |-> Idle]

-----------------------------------------------------------------------------
\* The bridge and the route refuse what validation rejects, which changes
\* nothing: what is left has a site, a code and one of Decisions.
StartApproval(c, site, decision, code) ==
    /\ call[c].step \in {"idle", "answered"}
    /\ config.revision <= MaxRevision
    /\ Goto(c, [step |-> "link", site |-> site, decision |-> decision,
                code |-> code, right |-> FALSE])
    /\ UNCHANGED <<vars, linked, config>>

\* ValidateDeviceProfileAccess
CheckLink(c) ==
    /\ call[c].step = "link"
    /\ IF linked THEN Goto(c, [call[c] EXCEPT !.step = "verify"])
                 ELSE Tell(c, "not available for this profile", FALSE)
    /\ UNCHANGED <<vars, linked, config>>

Passed(c) == Goto(c, [call[c] EXCEPT !.step = "stamp",
                                     !.right = call[c].code = credential.code])

\* Slip: a verification that is throttled does not end the call.
VerifyUnthrottled(c) ==
    /\ call[c].step = "verify"
    /\ \/ Accept(call[c].code) /\ Passed(c)
       \/ Reject(call[c].code) /\ Tell(c, "invalid parent code", FALSE)
       \/ Locked /\ UNCHANGED vars /\ Passed(c)
       \/ credential.code = NoCode /\ UNCHANGED vars /\ Tell(c, "invalid parent code", FALSE)
    /\ UNCHANGED <<linked, config>>

\* VerifyApprovalCode is one transaction.  Of a throttled call the bridge
\* only tells that the service is unavailable.
Verify(c) ==
    /\ call[c].step = "verify"
    /\ \/ Accept(call[c].code) /\ Passed(c)
       \/ Reject(call[c].code) /\ Tell(c, "invalid parent code", FALSE)
       \/ Locked /\ UNCHANGED vars /\ Tell(c, "control service unavailable", FALSE)
       \/ credential.code = NoCode /\ UNCHANGED vars /\ Tell(c, "invalid parent code", FALSE)
    /\ UNCHANGED <<linked, config>>

\* The expiry is computed from a clock read before the transaction.
Stamp(c) ==
    /\ call[c].step = "stamp"
    /\ Goto(c, [step |-> "grant", site |-> call[c].site, decision |-> call[c].decision,
                at |-> now, right |-> call[c].right])
    /\ UNCHANGED <<vars, linked, config>>

Expiry(o) == IF o.decision.action = "temporary" THEN o.at + o.decision.duration ELSE NoApproval

\* Slip: the refusal of the policy transaction is taken for a success.
GrantIgnoringError(c) ==
    /\ call[c].step = "grant"
    /\ config' = IF CanApprove(config)
                 THEN ApproveRow(config, now, call[c].site, call[c].decision, Expiry(call[c]))
                 ELSE config
    /\ Tell(c, "approved", CanApprove(config))
    /\ UNCHANGED <<vars, linked>>

\* mutateProfilePolicy with the rule of the approval; without the row or the
\* browser profile nothing changes.
Grant(c) ==
    /\ call[c].step = "grant"
    /\ IF CanApprove(config)
       THEN /\ config' = ApproveRow(config, now, call[c].site, call[c].decision, Expiry(call[c]))
            /\ Tell(c, "approved", TRUE)
       ELSE Tell(c, "not found", FALSE) /\ UNCHANGED config
    /\ UNCHANGED <<vars, linked>>

\* The service fails or the connection breaks; the answer of a call that has
\* already changed the policy may get lost too.
BreakOff(c) ==
    /\ call[c].step # "idle"
    /\ Tell(c, "control service unavailable", call[c].step = "answered" /\ call[c].granted)
    /\ UNCHANGED <<vars, linked, config>>

\* The parent, elsewhere.
LinkOrUnlink == linked' = ~linked /\ UNCHANGED <<vars, config, call>>

PutConfiguration(profile) ==
    /\ config.revision <= MaxRevision
    /\ config' = PutRow(config, [EmptyPolicy EXCEPT !.profile = profile])
    /\ UNCHANGED <<vars, linked, call>>

-----------------------------------------------------------------------------
ApprovalStep(c) ==
    \/ \E site \in Sites, decision \in Decisions, code \in Codes :
         StartApproval(c, site, decision, code)
    \/ CheckLink(c) \/ Verify(c) \/ Stamp(c) \/ Grant(c) \/ BreakOff(c)

ApprovalNext ==
    \/ \E c \in Calls : ApprovalStep(c)
    \/ LinkOrUnlink
    \/ \E profile \in BOOLEAN : PutConfiguration(profile)
    \/ \E code \in Codes : SetApprovalCode(code) /\ UNCHANGED approvalVars
    \/ Tick /\ UNCHANGED approvalVars

ApprovalSpec == ApprovalInit /\ [][ApprovalNext]_allVars

-----------------------------------------------------------------------------
ApprovalTypeOK ==
    /\ TypeOK
    /\ linked \in BOOLEAN
    /\ config \in Configuration
    /\ \A c \in Calls : call[c] \in {Idle} \cup Asking \cup Granting \cup Answered

\* What the page is told is true: "approved" only when the policy was
\* changed for this call, a refusal only when it was not.  Only an
\* unavailable service leaves it open (browser_approval_api.go:281-306).
AnswersAreTrue ==
    /\ ApprovalTypeOK
    /\ \A c \in Calls : call[c].step = "answered" =>
          /\ call[c].told = "approved" => call[c].granted
          /\ call[c].told \in Told \ {"approved", "control service unavailable"}
               => ~call[c].granted

\* This step stores the approval of call c.
Granted(c) == call[c].step = "grant" /\ call'[c] # call[c] /\ config' # config

\* The policy changes for a call only by its parent's code: a wrong guess, a
\* missing code and a lock all end the call before the policy transaction.
GrantsNeedTheCode ==
    [][\A c \in Calls : Granted(c) => call[c].right]_allVars
=============================================================================
