---------------------------- MODULE BrowserRules ----------------------------
(***************************************************************************)
(* How the agent judges a URL by one browser profile                       *)
(* (internal/modules/kidcontrol/browser_profile.go) whose approvals the    *)
(* service stored (ProfilePolicy).                                         *)
(*                                                                         *)
(* A URL keeps its host, a sequence of labels as written, and its path, a  *)
(* sequence of segments; parsing has already dropped scheme, port, case,   *)
(* the trailing dot and the trailing slash.  A value without a host does   *)
(* not parse.  Sites are the hosts that approvals are normalised to.       *)
(***************************************************************************)
EXTENDS ProfilePolicy, Sequences, SequencesExt

CONSTANT Urls  \* the URLs that are visited and written in rules

ASSUME HostsAssumption ==
    /\ \A s \in Sites : s \in Seq(ToSet(s)) /\ s # <<>>
    /\ \A u \in Urls : u.host \in Seq(ToSet(u.host)) /\ u.path \in Seq(ToSet(u.path))

Unparsed == [host |-> <<>>, path |-> <<>>]

Parses(url) == url.host # <<>>

\* Rules the parent wrote, and the rest of the browser profile.
Rules == [policy : {"allow_list", "block_list"},
          allowed : SUBSET Urls, blocked : SUBSET Urls]

-----------------------------------------------------------------------------

\* A rule applies to its host and the hosts under it, and to its path and
\* the paths under it.
Matches(url, rule) ==
    /\ Parses(url) /\ Parses(rule)
    /\ IsSuffix(rule.host, url.host)
    /\ IsPrefix(rule.path, url.path)

MatchesAny(url, rules) == \E rule \in rules : Matches(url, rule)

\* normalizeBrowserApprovalURL: an approval is for the whole host.
RuleOf(site) == [host |-> site, path |-> <<>>]

\* Slip: entries that have ended still open their site.
ApprovedForEver(policy, url, t) ==
    \E s \in Sites : policy.temporary[s] # NoApproval /\ Matches(url, RuleOf(s))

\* An entry of the temporary approvals that has not ended covers the URL.
Approved(policy, url, t) ==
    \E s \in Sites : t < policy.temporary[s] /\ Matches(url, RuleOf(s))

\* EvaluateBrowserURLAt: approvals come first, then the list that the policy
\* of the profile names; the other list is not looked at.
Evaluate(rules, policy, url, t) ==
    CASE ~Parses(url) -> "invalid_url"
      [] Parses(url) /\ Approved(policy, url, t) -> "allowed_by_temporary_approval"
      [] OTHER ->
           IF rules.policy = "allow_list"
           THEN IF MatchesAny(url, rules.allowed \cup {RuleOf(s) : s \in policy.allowed})
                THEN "allowed_by_allow_list" ELSE "not_in_allow_list"
           ELSE IF MatchesAny(url, rules.blocked)
                THEN "blocked_by_block_list" ELSE "allowed_by_block_list"

Allows(rules, policy, url, t) ==
    Evaluate(rules, policy, url, t) \in
        {"allowed_by_temporary_approval", "allowed_by_allow_list", "allowed_by_block_list"}
=============================================================================
