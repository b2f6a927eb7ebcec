--------------------------- MODULE ProfilePolicy ---------------------------
(***************************************************************************)
(* The stored policy of one child profile and the mutations the service    *)
(* runs on it inside one SQLite transaction (internal/service/store.go,    *)
(* profile_policy.go, browser_approval.go and internal/policy/browser.go). *)
(*                                                                         *)
(* A policy keeps what the approval paths read and write: whether the      *)
(* browser profile they name exists, its permanently allowed sites, and    *)
(* its temporary approvals as a function from sites to expiry times.       *)
(* Revision 0 stands for a profile without a configuration row.            *)
(***************************************************************************)
EXTENDS Integers

CONSTANTS Sites,      \* normalised hosts that rules are about
          Durations   \* lengths a parent may give a temporary approval

ASSUME DurationsAssumption == Durations \subseteq Nat \ {0}

\* A site without a temporary approval.  Every stored expiry is later than 0.
NoApproval == 0

Policy == [profile : BOOLEAN, allowed : SUBSET Sites, temporary : [Sites -> Nat]]

Configuration == [revision : Nat, policy : Policy]

EmptyPolicy ==
    [profile |-> FALSE, allowed |-> {}, temporary |-> [s \in Sites |-> NoApproval]]

NoConfiguration == [revision |-> 0, policy |-> EmptyPolicy]

Decisions == [action : {"temporary"}, duration : Durations]
               \cup [action : {"permanent"}, duration : {0}]

-----------------------------------------------------------------------------
\* Approvals still active at time t, given that an entry ends when now
\* reaches its expiry.
CleanupExpired(policy, t) ==
    [policy EXCEPT !.temporary =
        [s \in Sites |-> IF t < policy.temporary[s] THEN policy.temporary[s]
                                                    ELSE NoApproval]]

\* Slip: the list is rebuilt from the new entry instead of being appended to.
AddTemporaryAlone(policy, s, expiry) ==
    [policy EXCEPT !.temporary = [x \in Sites |-> IF x = s THEN expiry ELSE NoApproval]]

\* A second approval of a site replaces the expiry of the first one.
AddTemporary(policy, s, expiry) == [policy EXCEPT !.temporary[s] = expiry]

AddPermanent(policy, s) == [policy EXCEPT !.allowed = @ \cup {s}]

\* The row after a transaction that cleaned the stored policy up and then
\* turned it into mutated: nothing is written when neither step changed it.
Mutated(config, cleaned, mutated) ==
    IF cleaned = config.policy /\ mutated = cleaned
    THEN config
    ELSE [revision |-> config.revision + 1, policy |-> mutated]

\* Reading a configuration persists the clean-up of expired approvals.
ReadConfigurationRow(config, t) ==
    LET cleaned == CleanupExpired(config.policy, t)
    IN  Mutated(config, cleaned, cleaned)

\* An approval needs the row and the browser profile it names.
CanApprove(config) == config.revision > 0 /\ config.policy.profile

ApproveRow(config, t, s, decision, expiry) ==
    LET cleaned == CleanupExpired(config.policy, t)
    IN  Mutated(config, cleaned,
                IF decision.action = "temporary" THEN AddTemporary(cleaned, s, expiry)
                                                 ELSE AddPermanent(cleaned, s))

\* A replacement that equals the stored policy keeps the revision.
PutRow(config, policy) ==
    IF config.revision > 0 /\ config.policy = policy
    THEN config
    ELSE [revision |-> config.revision + 1, policy |-> policy]

-----------------------------------------------------------------------------
\* The sites that the approvals of a policy open at time t.
InForce(policy, t) ==
    policy.allowed \cup {s \in Sites : t < policy.temporary[s]}
=============================================================================
