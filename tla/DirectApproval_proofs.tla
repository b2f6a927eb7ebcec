----------------------- MODULE DirectApproval_proofs -----------------------
(***************************************************************************)
(* Proofs about the parent approval code and about approving a blocked     *)
(* page with it, for all codes, limits, lock durations, sites and numbers  *)
(* of concurrent calls: the limit on guesses holds whoever guesses, the    *)
(* policy opens a site only by the parent's code, and the page is told     *)
(* what happened.                                                          *)
(***************************************************************************)
EXTENDS DirectApproval, TLAPS

\* The attempt limit of the code (ApprovalCode).

\* Nothing was guessed yet.
LEMMA InitTracked == Init => AttemptsTracked
<1> SUFFICES ASSUME Init PROVE AttemptsTracked
  OBVIOUS
<1>1. Len(wrong) = 0 /\ Counted = 0 /\ locks = 0
  BY DEF Init, Counted, Reset, NoLock
<1>2. TypeOK
  BY LimitAssumption DEF Init, TypeOK, Credential, Reset, NoLock
<1>3. MaxFailures * locks = 0
  BY <1>1, LimitAssumption
<1>4. LockNotExtended
  BY DEF Init, LockNotExtended, Locked, Reset
<1> QED
  BY <1>1, <1>2, <1>3, <1>4, LimitAssumption
  DEF AttemptsTracked, GuessesLimited, LastLocking, Init, Reset, NoLock

\* A right code, or a new one, starts over.
LEMMA ResetTracked ==
    ASSUME AttemptsTracked, NEW code \in Codes,
           credential' = Reset(code), ForgetHistory, UNCHANGED now
    PROVE  AttemptsTracked'
<1>1. Len(wrong') = 0 /\ Counted' = 0 /\ locks' = 0 /\ wrong' = <<>>
  BY DEF ForgetHistory, Counted, Reset, NoLock
<1>2. TypeOK'
  BY LimitAssumption DEF AttemptsTracked, ForgetHistory, TypeOK, Credential, Reset, NoLock
<1>3. MaxFailures * locks' = 0
  BY <1>1, LimitAssumption
<1>4. LockNotExtended'
  BY DEF LockNotExtended, Locked, Reset
<1> QED
  BY <1>1, <1>2, <1>3, <1>4, LimitAssumption
  DEF AttemptsTracked, GuessesLimited, LastLocking, Reset, NoLock

\* Time only makes the guesses older.
LEMMA TickTracked == AttemptsTracked /\ Tick => AttemptsTracked'
<1> SUFFICES ASSUME AttemptsTracked, Tick PROVE AttemptsTracked'
  OBVIOUS
<1>1. /\ now \in Nat /\ now' = now + 1
      /\ credential' = credential /\ wrong' = wrong /\ locks' = locks
      /\ wrong \in Seq(Nat) /\ credential \in Credential
  BY DEF AttemptsTracked, TypeOK, Tick
<1>2. TypeOK'
  BY <1>1 DEF AttemptsTracked, TypeOK
<1>3. Counted' = Counted /\ LastLocking' = LastLocking
  BY <1>1 DEF Counted, LastLocking
<1>4. \A i \in 1 .. Len(wrong) : wrong[i] \in Nat
  BY <1>1
<1>5. LockNotExtended'
  BY <1>1 DEF AttemptsTracked, LockNotExtended, Locked, Credential
<1>6. GuessesLimited'
  BY <1>1 DEF AttemptsTracked, GuessesLimited
<1>7. Counted \in Nat /\ Len(wrong) \in Nat /\ (LastLocking > 0 => LastLocking \in 1 .. Len(wrong))
  BY <1>1, LimitAssumption DEF Counted, LastLocking, Credential
<1> QED
  BY <1>1, <1>2, <1>3, <1>4, <1>5, <1>6, <1>7, LimitAssumption DEF AttemptsTracked

\* One more wrong guess: of any MaxFailures + 1 that are answered in a row, the
\* guess that imposed a lock separates the first from the last.
LEMMA RejectTracked ==
    ASSUME AttemptsTracked, NEW guess \in Codes, Reject(guess)
    PROVE  AttemptsTracked'
<1> DEFINE n == Len(wrong)
           failures == Counted + 1
<1>1. /\ now \in Nat /\ now' = now /\ locks \in Nat
      /\ wrong \in Seq(Nat) /\ credential \in Credential /\ n \in Nat
      /\ MaxFailures \in Nat \ {0} /\ LockDuration \in Nat \ {0}
  BY LimitAssumption DEF AttemptsTracked, TypeOK, Reject
<1>2. /\ wrong' = Append(wrong, now) /\ Len(wrong') = n + 1 /\ wrong'[n + 1] = now
      /\ \A i \in 1 .. n : wrong'[i] = wrong[i] /\ wrong[i] \in Nat
  BY <1>1 DEF Reject
<1>3. Counted \in 0 .. MaxFailures - 1 /\ failures \in 1 .. MaxFailures
  <2>1. Counted \in Nat
    BY <1>1 DEF Counted, Credential
  <2>2. Counted < MaxFailures
    BY <1>1 DEF AttemptsTracked, Counted
  <2> QED
    BY <1>1, <2>1, <2>2
<1>4. LastLocking = n - Counted /\ LastLocking \in Int
  BY <1>1, <1>3 DEF LastLocking
<1>5. /\ credential'.failures = failures
      /\ credential'.code = credential.code
      /\ credential'.lockedUntil = IF failures >= MaxFailures THEN now + LockDuration ELSE NoLock
      /\ locks' = IF failures >= MaxFailures THEN locks + 1 ELSE locks
  BY DEF Reject, Locks
\* The last lock, if there was one, is over.
<1>6. /\ LastLocking > 0 => now >= wrong[LastLocking] + LockDuration
      /\ LastLocking > 0 => \A k \in LastLocking + 1 .. n :
                               wrong[k] >= wrong[LastLocking] + LockDuration
  <2>1. CASE credential.lockedUntil = NoLock
    BY <2>1 DEF AttemptsTracked
  <2>2. CASE credential.lockedUntil # NoLock
    <3>1. LastLocking = n
      BY <2>2, <1>1 DEF LastLocking, Counted
    <3>2. now >= credential.lockedUntil
      BY <2>2, <1>1 DEF Reject, Evaluates, Locked, Credential
    <3> QED
      BY <2>2, <3>1, <3>2, <1>1 DEF AttemptsTracked
  <2> QED
    BY <2>1, <2>2
<1>7. \A i \in 1 .. n : wrong[i] <= now
  BY DEF AttemptsTracked
<1>8. TypeOK'
  <2>1. credential' \in Credential
    <3>1. credential' = [code |-> credential.code, failures |-> failures,
                         lockedUntil |-> IF Locks(failures) THEN now + LockDuration
                                                            ELSE NoLock]
      BY DEF Reject
    <3> QED
      BY <3>1, <1>1, <1>3 DEF Credential, NoLock
  <2> QED
    BY <2>1, <1>1, <1>2, <1>5 DEF TypeOK
<1>9. GuessesLimited'
  <2> SUFFICES ASSUME NEW k \in 1 .. n + 1 - MaxFailures
               PROVE  wrong'[k + MaxFailures] >= wrong'[k] + LockDuration
    BY <1>1, <1>2 DEF GuessesLimited
  <2>1. CASE k + MaxFailures <= n
    <3>1. k \in 1 .. n - MaxFailures /\ k \in 1 .. n /\ k + MaxFailures \in 1 .. n
      BY <2>1, <1>1
    <3>2. wrong[k + MaxFailures] >= wrong[k] + LockDuration
      BY <3>1 DEF AttemptsTracked, GuessesLimited
    <3> QED
      BY <3>1, <3>2, <1>2
  <2>2. CASE k + MaxFailures = n + 1
    <3>1. k \in 1 .. LastLocking /\ LastLocking \in 1 .. n /\ k \in 1 .. n
      BY <2>2, <1>1, <1>3, <1>4
    <3>2. wrong[k] <= wrong[LastLocking]
      BY <3>1 DEF AttemptsTracked
    <3>3. now >= wrong[LastLocking] + LockDuration
      BY <3>1, <1>6
    <3> QED
      BY <2>2, <3>1, <3>2, <3>3, <1>1, <1>2
  <2> QED
    BY <2>1, <2>2, <1>1
<1>10. LockNotExtended'
  BY <1>1, <1>2, <1>3, <1>5 DEF LockNotExtended, Locked, NoLock
<1>11. \A i, j \in 1 .. n + 1 : i <= j => wrong'[i] <= wrong'[j]
  <2> SUFFICES ASSUME NEW i \in 1 .. n + 1, NEW j \in 1 .. n + 1, i <= j
               PROVE  wrong'[i] <= wrong'[j]
    OBVIOUS
  <2>1. CASE j \in 1 .. n
    BY <2>1, <1>1, <1>2 DEF AttemptsTracked
  <2>2. CASE j = n + 1 /\ i \in 1 .. n
    BY <2>2, <1>1, <1>2, <1>7
  <2>3. CASE i = n + 1 /\ j = n + 1
    BY <2>3, <1>1, <1>2
  <2> QED
    BY <2>1, <2>2, <2>3, <1>1
<1>12. \A i \in 1 .. n + 1 : wrong'[i] <= now'
  BY <1>1, <1>2, <1>7
<1>13. CASE failures >= MaxFailures
  <2>1. credential'.lockedUntil = now + LockDuration /\ credential'.lockedUntil # NoLock
    BY <1>13, <1>1, <1>5 DEF NoLock
  <2>2. Counted' = 0 /\ locks' = locks + 1
    BY <2>1, <1>5, <1>13 DEF Counted
  <2>3. failures = MaxFailures
    BY <1>13, <1>3, <1>1
  <2>4. n = MaxFailures * locks + Counted
    BY DEF AttemptsTracked
  <2>5. MaxFailures * (locks + 1) = MaxFailures * locks + MaxFailures
    BY <1>1
  <2>6. Len(wrong') = MaxFailures * locks' + Counted'
    BY <2>2, <2>3, <2>4, <2>5, <1>1, <1>2, <1>3
  <2>7. wrong' # <<>>
    BY <1>1, <1>2
  <2>8. credential'.lockedUntil = wrong'[Len(wrong')] + LockDuration
    BY <2>1, <1>2, <1>1
  <2> QED
    BY <1>1, <1>2, <1>8, <1>9, <1>10, <1>11, <1>12, <2>1, <2>6, <2>7, <2>8
    DEF AttemptsTracked
<1>14. CASE failures < MaxFailures
  <2>1. credential'.lockedUntil = NoLock
    BY <1>14, <1>3, <1>1, <1>5
  <2>2. Counted' = failures /\ locks' = locks
    <3>1. Counted' = credential'.failures
      BY <2>1 DEF Counted
    <3> QED
      BY <3>1, <1>5, <1>14, <1>3, <1>1
  <2>3. LastLocking' = LastLocking
    BY <2>2, <1>1, <1>2, <1>3 DEF LastLocking
  <2>4. n = MaxFailures * locks + Counted
    BY DEF AttemptsTracked
  <2>5. MaxFailures * locks \in Nat
    BY <1>1
  <2>6. Len(wrong') = MaxFailures * locks' + Counted'
    BY <2>2, <2>4, <2>5, <1>1, <1>2, <1>3
  <2>7. ASSUME LastLocking > 0
        PROVE  /\ now >= wrong'[LastLocking] + LockDuration
               /\ \A k \in LastLocking + 1 .. n + 1 :
                     wrong'[k] >= wrong'[LastLocking] + LockDuration
    <3>1. LastLocking \in 1 .. n
      BY <2>7, <1>1, <1>3, <1>4
    <3>2. now >= wrong'[LastLocking] + LockDuration
      BY <2>7, <3>1, <1>2, <1>6
    <3>3. ASSUME NEW k \in LastLocking + 1 .. n + 1
          PROVE  wrong'[k] >= wrong'[LastLocking] + LockDuration
      <4>1. CASE k = n + 1
        BY <4>1, <3>2, <1>2
      <4>2. CASE k \in LastLocking + 1 .. n
        BY <4>2, <2>7, <3>1, <1>1, <1>2, <1>6
      <4> QED
        BY <4>1, <4>2, <3>1, <1>1
    <3> QED
      BY <3>2, <3>3
  <2> QED
    BY <1>1, <1>2, <1>8, <1>9, <1>10, <1>11, <1>12, <1>14, <2>1, <2>2, <2>3, <2>6, <2>7
    DEF AttemptsTracked
<1> QED
  BY <1>1, <1>3, <1>13, <1>14

\* The invariant is inductive.
LEMMA TrackedStep == AttemptsTracked /\ [Next]_vars => AttemptsTracked'
<1> SUFFICES ASSUME AttemptsTracked, [Next]_vars PROVE AttemptsTracked'
  OBVIOUS
<1>1. CASE Tick
  BY <1>1, TickTracked
<1>2. ASSUME NEW code \in Codes, SetApprovalCode(code) PROVE AttemptsTracked'
  BY <1>2, ResetTracked DEF SetApprovalCode
<1>3. ASSUME NEW code \in Codes, Accept(code) PROVE AttemptsTracked'
  BY <1>3, ResetTracked DEF Accept
<1>4. ASSUME NEW code \in Codes, Reject(code) PROVE AttemptsTracked'
  BY <1>4, RejectTracked
<1>5. CASE UNCHANGED vars
  BY <1>5 DEF vars, AttemptsTracked, TypeOK, Counted, LastLocking, GuessesLimited,
              LockNotExtended, Locked
<1> QED
  BY <1>1, <1>2, <1>3, <1>4, <1>5 DEF Next

\* The row keeps track of the guesses, through every lock and reset.
THEOREM Tracked == Spec => []AttemptsTracked
<1> QED
  BY InitTracked, TrackedStep, PTL DEF Spec

\* No MaxFailures + 1 wrong guesses are answered within one lock duration.
THEOREM AttemptLimit == Spec => []GuessesLimited
<1>1. AttemptsTracked => GuessesLimited
  BY DEF AttemptsTracked
<1> QED
  BY <1>1, Tracked, PTL

\* Each lock took MaxFailures wrong guesses, and a refused call does not extend it.
THEOREM LocksJustified == Spec => [](LocksAreEarned /\ LockNotExtended)
<1>1. AttemptsTracked => LocksAreEarned /\ LockNotExtended
  <2> SUFFICES ASSUME AttemptsTracked PROVE LocksAreEarned /\ LockNotExtended
    OBVIOUS
  <2>1. Counted \in Nat /\ Len(wrong) \in Nat
    BY LimitAssumption DEF AttemptsTracked, TypeOK, Credential, Counted
  <2>2. MaxFailures * locks \in Nat
    BY LimitAssumption DEF AttemptsTracked, TypeOK
  <2> QED
    BY <2>1, <2>2 DEF AttemptsTracked, LocksAreEarned
<1> QED
  BY <1>1, Tracked, PTL

-----------------------------------------------------------------------------
\* Approving a page with the code (DirectApproval).

Steps == {Idle} \cup Asking \cup Granting \cup Answered

\* A call that has passed the verification carries the parent's code, and what
\* an answered call was told is so.
CallSound(o) ==
    /\ o.step \in {"stamp", "grant"} => o.right
    /\ o.step = "answered" =>
          /\ o.told = "approved" => o.granted
          /\ o.told \in Told \ {"approved", "control service unavailable"} => ~o.granted

ApprovalSound ==
    /\ TypeOK /\ linked \in BOOLEAN /\ config \in Configuration
    /\ call \in [Calls -> Steps]
    /\ \A c \in Calls : CallSound(call[c])

-----------------------------------------------------------------------------
\* The row of the profile keeps its type.

\* Cleaning a policy up keeps its type.
LEMMA CleanupType ==
    ASSUME NEW policy \in Policy, NEW t \in Nat
    PROVE  CleanupExpired(policy, t) \in Policy
BY DEF CleanupExpired, Policy, NoApproval

\* So does storing a mutated policy, or none when nothing changed.
LEMMA MutatedType ==
    ASSUME NEW row \in Configuration, NEW cleaned \in Policy, NEW mutated \in Policy
    PROVE  Mutated(row, cleaned, mutated) \in Configuration
BY DEF Mutated, Configuration

\* An approval leaves the row a configuration ...
LEMMA ApproveType ==
    ASSUME NEW row \in Configuration, NEW t \in Nat, NEW s \in Sites,
           NEW d \in Decisions, NEW until \in Nat
    PROVE  ApproveRow(row, t, s, d, until) \in Configuration
<1> DEFINE cleaned == CleanupExpired(row.policy, t)
<1>1. cleaned \in Policy
  BY CleanupType DEF Configuration
<1>2. AddTemporary(cleaned, s, until) \in Policy /\ AddPermanent(cleaned, s) \in Policy
  BY <1>1 DEF AddTemporary, AddPermanent, Policy
<1> QED
  BY <1>1, <1>2, MutatedType DEF ApproveRow

\* ... and so does replacing the policy.
LEMMA PutType ==
    ASSUME NEW row \in Configuration, NEW profile \in BOOLEAN
    PROVE  PutRow(row, [EmptyPolicy EXCEPT !.profile = profile]) \in Configuration
<1>1. [EmptyPolicy EXCEPT !.profile = profile] \in Policy
  BY DEF EmptyPolicy, Policy, NoApproval
<1> QED
  BY <1>1 DEF PutRow, Configuration

\* The end of an approval is a time.
LEMMA ExpiryType ==
    ASSUME NEW o \in Granting
    PROVE  Expiry(o) \in Nat
<1>1. o.at \in Nat /\ o.decision \in Decisions
  BY DEF Granting
<1>2. o.decision.duration \in Durations \cup {0}
  BY <1>1 DEF Decisions
<1>3. \A d \in Durations : d \in Nat
  BY DurationsAssumption
<1>4. o.decision.duration \in Nat
  BY <1>2, <1>3
<1> QED
  BY <1>1, <1>4 DEF Expiry, NoApproval

-----------------------------------------------------------------------------
\* The steps of a call.

\* What a call holds is determined by the step it is at.
LEMMA StepKinds ==
    ASSUME NEW o \in Steps
    PROVE  /\ o.step \in {"link", "verify", "stamp"} => o \in Asking
           /\ o.step = "grant" => o \in Granting
           /\ o.step = "answered" => o \in Answered
BY DEF Steps, Idle, Asking, Granting, Answered

\* A call that goes on, and nothing else that the invariant is about.
LEMMA GotoSound ==
    ASSUME ApprovalSound, TypeOK', linked' \in BOOLEAN, config' \in Configuration,
           NEW c \in Calls, NEW o \in Steps, CallSound(o), Goto(c, o)
    PROVE  ApprovalSound'
<1>1. call' \in [Calls -> Steps]
  BY DEF ApprovalSound, Goto
<1>2. ASSUME NEW d \in Calls PROVE CallSound(call'[d])
  <2>1. call'[d] = o \/ call'[d] = call[d]
    BY DEF ApprovalSound, Goto
  <2> QED
    BY <2>1 DEF ApprovalSound
<1> QED
  BY <1>1, <1>2 DEF ApprovalSound, CallSound

\* Answering a call is sound when what it is told is so.
LEMMA TellSound ==
    ASSUME ApprovalSound, TypeOK', linked' \in BOOLEAN, config' \in Configuration,
           NEW c \in Calls, NEW told \in Told, NEW granted \in BOOLEAN, Tell(c, told, granted),
           told = "approved" => granted,
           told \in Told \ {"approved", "control service unavailable"} => ~granted
    PROVE  ApprovalSound'
<1> DEFINE o == [step |-> "answered", told |-> told, granted |-> granted]
<1>1. o \in Steps /\ o.step = "answered" /\ o.told = told /\ o.granted = granted
  BY DEF Steps, Answered
<1>2. CallSound(o)
  BY <1>1 DEF CallSound
<1> QED
  BY <1>1, <1>2, GotoSound DEF Tell

\* What the composition does to the row of the code is done by ApprovalCode.
LEMMA CodeStep ==
    ASSUME ApprovalSound, [ApprovalNext]_allVars
    PROVE  [Next]_vars
<1>1. ASSUME NEW c \in Calls, ApprovalStep(c)
      PROVE  [Next]_vars
  <2>1. CASE Verify(c)
    <3>1. call[c] \in Asking
      BY <2>1, StepKinds DEF Verify, ApprovalSound
    <3>2. call[c].code \in Codes
      BY <3>1 DEF Asking
    <3> QED
      BY <2>1, <3>2 DEF Verify, Next
  <2> QED
    BY <1>1, <2>1
    DEF ApprovalStep, StartApproval, CheckLink, Stamp, Grant, BreakOff
<1> QED
  BY <1>1 DEF ApprovalNext, LinkOrUnlink, PutConfiguration, Next, allVars

\* The variables of ApprovalCode keep their types.
LEMMA CodeTypes ==
    ASSUME ApprovalSound, AttemptsTracked, [ApprovalNext]_allVars
    PROVE  TypeOK'
BY CodeStep, TrackedStep DEF AttemptsTracked

\* No call has begun, so nothing is claimed.
LEMMA ApprovalInitSound == ApprovalInit => ApprovalSound
<1> SUFFICES ASSUME ApprovalInit PROVE ApprovalSound
  OBVIOUS
<1>1. TypeOK
  BY InitTracked DEF ApprovalInit, AttemptsTracked
<1>2. [EmptyPolicy EXCEPT !.profile = TRUE] \in Policy
  BY DEF EmptyPolicy, Policy, NoApproval
<1>3. config \in Configuration
  <2> DEFINE policy == [EmptyPolicy EXCEPT !.profile = TRUE]
  <2>1. config \in [revision : {1}, policy : {policy}] /\ policy \in Policy
    BY <1>2 DEF ApprovalInit
  <2> HIDE DEF policy
  <2> QED
    BY <2>1 DEF Configuration
<1>4. Idle \in Steps /\ CallSound(Idle)
  BY DEF Steps, Idle, CallSound
<1> QED
  BY <1>1, <1>3, <1>4 DEF ApprovalInit, ApprovalSound

-----------------------------------------------------------------------------
\* One lemma for each step of a call.

\* A call that begins claims nothing yet.
LEMMA StartApprovalSound ==
    ASSUME ApprovalSound, TypeOK', NEW c \in Calls, NEW site \in Sites,
           NEW decision \in Decisions, NEW code \in Codes,
           StartApproval(c, site, decision, code)
    PROVE  ApprovalSound'
<1> DEFINE o == [step |-> "link", site |-> site, decision |-> decision,
                 code |-> code, right |-> FALSE]
<1>1. o \in Steps /\ CallSound(o)
  BY DEF Steps, Asking, CallSound
<1> QED
  BY <1>1, GotoSound DEF StartApproval, ApprovalSound

\* Nor does one that has passed the link, or was refused by it.
LEMMA CheckLinkSound ==
    ASSUME ApprovalSound, TypeOK', NEW c \in Calls, CheckLink(c)
    PROVE  ApprovalSound'
<1>1. call[c] \in Asking
  BY StepKinds DEF CheckLink, ApprovalSound
<1>2. UNCHANGED <<linked, config>>
  BY DEF CheckLink
<1>3. CASE linked
  <2> DEFINE o == [call[c] EXCEPT !.step = "verify"]
  <2>1. o \in Steps /\ CallSound(o)
    BY <1>1 DEF Steps, Asking, CallSound
  <2> QED
    BY <1>2, <1>3, <2>1, GotoSound DEF CheckLink, ApprovalSound
<1>4. CASE ~linked
  BY <1>2, <1>4, TellSound DEF CheckLink, ApprovalSound, Told
<1> QED
  BY <1>3, <1>4

\* A call passes the verification only with the code that is right then; one
\* that does not is told so, and has changed nothing.
LEMMA VerifySound ==
    ASSUME ApprovalSound, TypeOK', NEW c \in Calls, Verify(c)
    PROVE  ApprovalSound'
<1>1. call[c] \in Asking
  BY StepKinds DEF Verify, ApprovalSound
<1>2. UNCHANGED <<linked, config>>
  BY DEF Verify
<1>3. CASE Accept(call[c].code) /\ Passed(c)
  <2> DEFINE o == [call[c] EXCEPT !.step = "stamp", !.right = call[c].code = credential.code]
  <2>1. o \in Steps
    BY <1>1 DEF Steps, Asking
  <2>2. CallSound(o)
    BY <1>1, <1>3 DEF CallSound, Accept, Asking
  <2> QED
    BY <1>2, <1>3, <2>1, <2>2, GotoSound DEF Passed, ApprovalSound
<1>4. CASE ~(Accept(call[c].code) /\ Passed(c))
  BY <1>2, <1>4, TellSound DEF Verify, ApprovalSound, Told
<1> QED
  BY <1>3, <1>4

\* Reading the clock keeps what the verification found.
LEMMA StampSound ==
    ASSUME ApprovalSound, TypeOK', NEW c \in Calls, Stamp(c)
    PROVE  ApprovalSound'
<1> DEFINE o == [step |-> "grant", site |-> call[c].site, decision |-> call[c].decision,
                 at |-> now, right |-> call[c].right]
<1>1. call[c] \in Asking /\ call[c].right
  BY StepKinds DEF Stamp, ApprovalSound, CallSound
<1>2. o \in Steps
  BY <1>1 DEF Steps, Asking, Granting, ApprovalSound, TypeOK
<1>3. CallSound(o)
  BY <1>1 DEF CallSound
<1> QED
  BY <1>2, <1>3, GotoSound DEF Stamp, ApprovalSound

\* A call is told "approved" only when the transaction was committed.
LEMMA GrantSound ==
    ASSUME ApprovalSound, TypeOK', NEW c \in Calls, Grant(c)
    PROVE  ApprovalSound'
<1>1. call[c] \in Granting
  BY StepKinds DEF Grant, ApprovalSound
<1>2. config' \in Configuration
  <2>1. /\ config \in Configuration /\ now \in Nat /\ Expiry(call[c]) \in Nat
        /\ call[c].site \in Sites /\ call[c].decision \in Decisions
    BY <1>1, ExpiryType DEF Granting, ApprovalSound, TypeOK
  <2> QED
    BY <2>1, ApproveType DEF Grant
<1>3. CASE CanApprove(config)
  BY <1>2, <1>3, TellSound DEF Grant, ApprovalSound, Told
<1>4. CASE ~CanApprove(config)
  BY <1>2, <1>4, TellSound DEF Grant, ApprovalSound, Told
<1> QED
  BY <1>3, <1>4

\* A call that is broken off is told neither way, whatever was done.
LEMMA BreakOffSound ==
    ASSUME ApprovalSound, TypeOK', NEW c \in Calls, BreakOff(c)
    PROVE  ApprovalSound'
<1>1. (call[c].step = "answered" /\ call[c].granted) \in BOOLEAN
  BY StepKinds DEF ApprovalSound, Answered
<1> QED
  BY <1>1, TellSound DEF BreakOff, ApprovalSound, Told

\* Every call in flight carries on soundly, whatever the parent does meanwhile.
LEMMA ApprovalStepSound ==
    ASSUME ApprovalSound, AttemptsTracked, [ApprovalNext]_allVars
    PROVE  ApprovalSound' /\ AttemptsTracked'
<1>1. AttemptsTracked' /\ TypeOK'
  BY CodeStep, CodeTypes, TrackedStep
<1>2. ASSUME NEW c \in Calls, ApprovalStep(c) PROVE ApprovalSound'
  BY <1>1, <1>2, StartApprovalSound, CheckLinkSound, VerifySound, StampSound, GrantSound,
     BreakOffSound
  DEF ApprovalStep
<1>3. ASSUME NEW profile \in BOOLEAN, PutConfiguration(profile) PROVE ApprovalSound'
  BY <1>1, <1>3, PutType DEF PutConfiguration, ApprovalSound
<1>4. CASE LinkOrUnlink
  BY <1>1, <1>4 DEF LinkOrUnlink, ApprovalSound
<1>5. CASE UNCHANGED approvalVars
  BY <1>1, <1>5 DEF approvalVars, ApprovalSound
<1> QED
  BY <1>1, <1>2, <1>3, <1>4, <1>5 DEF ApprovalNext, allVars

\* The inductive invariant, with that of the code.
LEMMA ApprovalsSound == ApprovalSpec => [](ApprovalSound /\ AttemptsTracked)
<1>1. ApprovalInit => AttemptsTracked
  BY InitTracked DEF ApprovalInit
<1> QED
  BY <1>1, ApprovalInitSound, ApprovalStepSound, PTL DEF ApprovalSpec

-----------------------------------------------------------------------------
\* However many calls guess at once, no MaxFailures + 1 wrong guesses are
\* answered within one lock duration (GuessesLimited), and each lock took
\* MaxFailures guesses of its own (LocksAreEarned).
THEOREM CallsAreLimited == ApprovalSpec => [](GuessesLimited /\ LocksAreEarned)
<1>1. ApprovalSpec => Spec
  <2>1. ApprovalInit => Init
    BY DEF ApprovalInit
  <2>2. ApprovalSound /\ [ApprovalNext]_allVars => [Next]_vars
    BY CodeStep
  <2> QED
    BY <2>1, <2>2, ApprovalsSound, PTL DEF ApprovalSpec, Spec
<1> QED
  BY <1>1, AttemptLimit, LocksJustified, PTL

\* The policy changes for a call only when its code was the parent's
\* (GrantsNeedTheCode).
THEOREM OnlyTheCodeGrants == ApprovalSpec => GrantsNeedTheCode
<1>1. ApprovalSound => \A c \in Calls : Granted(c) => call[c].right
  BY DEF ApprovalSound, CallSound, Granted
<1>2. ApprovalSound /\ [ApprovalNext]_allVars
        => [\A c \in Calls : Granted(c) => call[c].right]_allVars
  BY <1>1
<1> QED
  BY <1>2, ApprovalsSound, PTL DEF ApprovalSpec, GrantsNeedTheCode

\* What the page is told of a call is true (AnswersAreTrue).
THEOREM PagesAreToldTheTruth == ApprovalSpec => []AnswersAreTrue
<1>1. ApprovalSound => AnswersAreTrue
  BY DEF ApprovalSound, CallSound, AnswersAreTrue, ApprovalTypeOK, Steps
<1> QED
  BY <1>1, ApprovalsSound, PTL
=============================================================================
