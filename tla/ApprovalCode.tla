---------------------------- MODULE ApprovalCode ----------------------------
(***************************************************************************)
(* The parent approval code of one customer and its attempt limit          *)
(* (internal/service/approval_code.go).                                    *)
(*                                                                         *)
(* Setting the code is one statement and verifying one is one transaction, *)
(* so each is one step.  The row of parent_credentials keeps the verifier, *)
(* modelled by the code it accepts, the failures counted so far and the    *)
(* end of the lock.  A call that is refused without a write (no row, or    *)
(* the lock holds) changes nothing and is a stutter.                       *)
(***************************************************************************)
EXTENDS Integers, Sequences

CONSTANTS Codes,
          NoCode,        \* no row for the customer yet
          MaxFailures,   \* maxApprovalCodeFailures
          LockDuration,  \* approvalCodeLockDuration
          MaxTime,       \* bound on the clock
          MaxGuesses     \* bound on the wrong guesses between two resets

ASSUME CodesAssumption == NoCode \notin Codes
ASSUME LimitAssumption == MaxFailures \in Nat \ {0} /\ LockDuration \in Nat \ {0}
ASSUME BoundAssumption == MaxTime \in Nat /\ MaxGuesses \in Nat

VARIABLES now,         \* the store's clock
          credential,  \* parent_credentials: the customer's row
          wrong,       \* history: when wrong guesses were answered since the last reset
          locks        \* history: locks imposed since the last reset

vars == <<now, credential, wrong, locks>>

NoLock == 0    \* the SQL NULL: a lock always ends later than 0

Credential == [code : Codes \cup {NoCode}, failures : 0 .. MaxFailures,
               lockedUntil : Nat]

Reset(code) == [code |-> code, failures |-> 0, lockedUntil |-> NoLock]

\* The lock still holds; it ends at the instant it names.
Locked == credential.lockedUntil # NoLock /\ now < credential.lockedUntil

\* Failures that count against the next guess: a lock that has ended clears them.
Counted == IF credential.lockedUntil = NoLock THEN credential.failures ELSE 0

Init == /\ now = 0
        /\ credential = Reset(NoCode)
        /\ wrong = <<>>
        /\ locks = 0

ForgetHistory == wrong' = <<>> /\ locks' = 0

\* PUT management/approval-code sets or replaces the code and lifts a lock.
SetApprovalCode(code) ==
    /\ credential' = Reset(code)
    /\ ForgetHistory
    /\ UNCHANGED now

\* A transaction that evaluates a guess: there is a row and no lock holds.
Evaluates == credential.code # NoCode /\ ~ Locked

Accept(guess) ==
    /\ Evaluates
    /\ guess = credential.code
    /\ credential' = Reset(credential.code)
    /\ ForgetHistory
    /\ UNCHANGED now

\* Slip: one failure more before the lock.
LocksOneLate(failures) == failures > MaxFailures

\* The failure that imposes the lock.
Locks(failures) == failures >= MaxFailures

\* Slip: failures of a lock that has ended still count.
RejectKeepingFailures(guess) ==
    LET failures == credential.failures + 1
    IN  /\ Evaluates
        /\ guess # credential.code
        /\ Len(wrong) < MaxGuesses
        /\ credential' = [code |-> credential.code, failures |-> failures,
                          lockedUntil |-> IF Locks(failures) THEN now + LockDuration
                                                             ELSE NoLock]
        /\ wrong' = Append(wrong, now)
        /\ locks' = IF Locks(failures) THEN locks + 1 ELSE locks
        /\ UNCHANGED now

\* A wrong guess is counted, and the last one allowed imposes the lock.
Reject(guess) ==
    LET failures == Counted + 1
    IN  /\ Evaluates
        /\ guess # credential.code
        /\ Len(wrong) < MaxGuesses
        /\ credential' = [code |-> credential.code, failures |-> failures,
                          lockedUntil |-> IF Locks(failures) THEN now + LockDuration
                                                             ELSE NoLock]
        /\ wrong' = Append(wrong, now)
        /\ locks' = IF Locks(failures) THEN locks + 1 ELSE locks
        /\ UNCHANGED now

Tick == /\ now < MaxTime
        /\ now' = now + 1
        /\ UNCHANGED <<credential, wrong, locks>>

Next == \/ Tick
        \/ \E code \in Codes : SetApprovalCode(code) \/ Accept(code) \/ Reject(code)

Spec == Init /\ [][Next]_vars

-----------------------------------------------------------------------------
\* Every variable has its type.
TypeOK ==
    /\ now \in Nat
    /\ credential \in Credential
    /\ wrong \in Seq(Nat)
    /\ locks \in Nat

\* Between two resets (a right code, or a new one) at most MaxFailures wrong
\* guesses are answered in any stretch shorter than the lock: the counter, the
\* lock and the reset when it ends work together (approval_code.go:132-172).
GuessesLimited ==
    \A k \in 1 .. Len(wrong) - MaxFailures :
        wrong[k + MaxFailures] >= wrong[k] + LockDuration

\* A parent is never locked out for less: each lock since the last reset took
\* MaxFailures wrong guesses of its own.
LocksAreEarned == Len(wrong) >= MaxFailures * locks

\* The lock that holds was imposed by the last wrong guess, so calls that are
\* refused while it holds do not extend it.
LockNotExtended ==
    Locked => /\ wrong # <<>>
              /\ credential.lockedUntil = wrong[Len(wrong)] + LockDuration

\* The wrong guess that imposed the last lock; 0 when there was none.
LastLocking == Len(wrong) - Counted

\* The inductive invariant: the row tells apart the guesses before the last
\* lock from those after it, which all came when that lock had ended.
AttemptsTracked ==
    /\ TypeOK
    /\ \A i, j \in 1 .. Len(wrong) : i <= j => wrong[i] <= wrong[j]
    /\ \A i \in 1 .. Len(wrong) : wrong[i] <= now
    /\ Len(wrong) = MaxFailures * locks + Counted
    /\ GuessesLimited
    /\ LockNotExtended
    /\ IF credential.lockedUntil = NoLock
       THEN /\ Counted < MaxFailures
            /\ LastLocking > 0 => now >= wrong[LastLocking] + LockDuration
            /\ LastLocking > 0 =>
                  \A k \in LastLocking + 1 .. Len(wrong) :
                      wrong[k] >= wrong[LastLocking] + LockDuration
       ELSE /\ wrong # <<>>
            /\ credential.lockedUntil = wrong[Len(wrong)] + LockDuration
=============================================================================
