-------------------------- MODULE BrowserProfiles --------------------------
(***************************************************************************)
(* Which browser profile applies: the settings a parent stores in the      *)
(* service (internal/service/active_browser_profile.go), the copy the      *)
(* agent runs with, and its resolution by concurrent URL checks            *)
(* (internal/modules/kidcontrol/browser_state.go).                         *)
(*                                                                         *)
(* A check reads the clock in its HTTP handler and resolves the profile    *)
(* later, under browserMu; an expired activation is cleared by the         *)
(* resolution that notices it.  Only names matter here, so a settings      *)
(* record keeps the names of the existing profiles and the activation.     *)
(***************************************************************************)
EXTENDS Integers

CONSTANTS Names,          \* browser profile names
          Default,        \* the default profile of the settings
          Durations,      \* lengths a parent may give an activation
          Checks,         \* concurrent handlers of the agent
          MaxActivations, \* bound on the activations
          MaxClock        \* bound on the clock

ASSUME ProfilesAssumption ==
    /\ Default \in Names
    /\ Durations \subseteq Nat \ {0}
    /\ MaxActivations \in Nat /\ MaxClock \in Nat

VARIABLES clock,        \* the clock of service and agent
          stored,       \* the browser settings of the stored policy
          local,        \* the browser settings of the running module
          checks,       \* checks[c]: where a handler is and what it holds
          activations,  \* activations made so far, to tell them apart
          ended         \* activations cleared since the settings were loaded

profilesVars == <<clock, stored, local, checks, activations, ended>>

Never == 0  \* ExpiresAt is nil

Activation == [name : Names, fallback : Names, expires : Nat, id : Nat]
NoActivation == [name |-> Default, fallback |-> Default, expires |-> Never, id |-> 0]

Settings == [names : SUBSET Names, active : Activation]

NoCheck == [step |-> "idle"]
Failed == [step |-> "failed"]
Check == {NoCheck, Failed} \cup [step : {"resolve"}, at : Nat]
          \cup [step : {"answered"}, by : Nat]

GotoCheck(c, o) == checks' = [checks EXCEPT ![c] = o]

ProfilesInit ==
    /\ clock = 1
    /\ stored = [names |-> Names, active |-> NoActivation]
    /\ local = stored
    /\ checks = [c \in Checks |-> NoCheck]
    /\ activations = 0
    /\ ended = {}

-----------------------------------------------------------------------------

Expired(active, t) == active.expires # Never /\ active.expires <= t

InUse(settings) == settings.active.id # 0

\* Slip: the expired activation is answered for but not cleared.
ResolveKeeping(settings, t) ==
    LET active == settings.active
        honoured == InUse(settings) /\ ~Expired(active, t) /\ active.name \in settings.names
    IN  [settings |-> settings,
         name |-> CASE honoured -> active.name
                    [] ~honoured /\ InUse(settings) /\ active.fallback \in settings.names
                         -> active.fallback
                    [] OTHER -> Default,
         by |-> IF honoured THEN active.id ELSE 0]

\* ResolveBrowserProfile: the name that applies at time t, the activation it
\* is due to, and the settings afterwards.
Resolve(settings, t) ==
    LET active == settings.active
        honoured == InUse(settings) /\ ~Expired(active, t) /\ active.name \in settings.names
        ends == InUse(settings) /\ ~honoured
    IN  [settings |-> IF ends THEN [settings EXCEPT !.active = NoActivation] ELSE settings,
         name |-> CASE honoured -> active.name
                    [] ends /\ active.fallback \in settings.names -> active.fallback
                    [] OTHER -> Default,
         by |-> IF honoured THEN active.id ELSE 0]

\* What activation requires of both ends: the names exist.  A request
\* without a fallback profile falls back to the default.
Activatable(settings, name, fallback) == {name, fallback} \subseteq settings.names

Activated(settings, name, fallback, expires) ==
    [settings EXCEPT !.active = [name |-> name, fallback |-> fallback,
                                 expires |-> expires, id |-> activations + 1]]

-----------------------------------------------------------------------------
(* The service, for a parent                                               *)

\* A policy is replaced as a whole; its profile names are not checked, and
\* the activation is the one the parent read or none.
PutSettings(names, active) ==
    /\ active \in {NoActivation, stored.active}
    /\ stored' = [names |-> names, active |-> active]
    /\ UNCHANGED <<clock, local, checks, activations, ended>>

\* The clock t was read before the transaction.  An expiry is a duration or
\* a time of the parent's, refused unless it lies after t.
SetActive(name, fallback, t, expires) ==
    /\ activations < MaxActivations
    /\ Activatable(stored, name, fallback)
    /\ expires = Never \/ expires > t
    /\ <<name, fallback, expires>> #
         <<stored.active.name, stored.active.fallback, stored.active.expires>>
         \/ ~InUse(stored)
    /\ stored' = Activated(stored, name, fallback, expires)
    /\ activations' = activations + 1
    /\ UNCHANGED <<clock, local, checks, ended>>

ClearActive ==
    /\ InUse(stored)
    /\ stored' = [stored EXCEPT !.active = NoActivation]
    /\ UNCHANGED <<clock, local, checks, activations, ended>>

-----------------------------------------------------------------------------
(* The running module                                                      *)

\* The module starts with the stored settings; without the default profile
\* they are refused and it keeps the old ones.
Load ==
    /\ Default \in stored.names
    /\ local' = stored
    /\ ended' = {}
    /\ UNCHANGED <<clock, stored, checks, activations>>

SetBrowserProfile(name) ==
    /\ local' = [local EXCEPT !.names = @ \cup {name}]
    /\ UNCHANGED <<clock, stored, checks, activations, ended>>

\* Slip: any profile may be deleted.
DeleteAnyProfile(name) ==
    /\ name \in local.names
    /\ local' = [local EXCEPT !.names = @ \ {name}]
    /\ UNCHANGED <<clock, stored, checks, activations, ended>>

DeleteBrowserProfile(name) ==
    /\ name # Default
    /\ name \in local.names
    /\ local' = [local EXCEPT !.names = @ \ {name}]
    /\ UNCHANGED <<clock, stored, checks, activations, ended>>

ActivateBrowserProfile(name, fallback, d) ==
    /\ activations < MaxActivations
    /\ Activatable(local, name, fallback)
    /\ local' = Activated(local, name, fallback, IF d > 0 THEN clock + d ELSE Never)
    /\ activations' = activations + 1
    /\ UNCHANGED <<clock, stored, checks, ended>>

\* A check or a profile request reads the clock.
Arrive(c) ==
    /\ checks[c].step # "resolve"
    /\ GotoCheck(c, [step |-> "resolve", at |-> clock])
    /\ UNCHANGED <<clock, stored, local, activations, ended>>

\* ResolveBrowserProfile under browserMu.
ResolveCall(c) ==
    /\ checks[c].step = "resolve"
    /\ LET r == Resolve(local, checks[c].at)
       IN  /\ local' = r.settings
           /\ ended' = IF InUse(local) /\ r.by = 0 THEN ended \cup {local.active.id} ELSE ended
           /\ GotoCheck(c, IF r.name \in local.names THEN [step |-> "answered", by |-> r.by]
                           ELSE Failed)
    /\ UNCHANGED <<clock, stored, activations>>

ClockTick ==
    /\ clock < MaxClock
    /\ clock' = clock + 1
    /\ UNCHANGED <<stored, local, checks, activations, ended>>

-----------------------------------------------------------------------------
Parent ==
    \/ \E names \in SUBSET Names, active \in {NoActivation, stored.active} :
         PutSettings(names, active)
    \/ \E name, fallback \in Names, t \in {clock - 1, clock} :
         \E expires \in {Never} \cup {t + d : d \in Durations} :
            SetActive(name, fallback, t, expires)
    \/ ClearActive

ProfilesNext ==
    \/ Parent
    \/ Load
    \/ \E name \in Names : SetBrowserProfile(name) \/ DeleteBrowserProfile(name)
    \/ \E name, fallback \in Names, d \in Durations \cup {0} :
         ActivateBrowserProfile(name, fallback, d)
    \/ \E c \in Checks : Arrive(c) \/ ResolveCall(c)
    \/ ClockTick

ProfilesSpec == ProfilesInit /\ [][ProfilesNext]_profilesVars

-----------------------------------------------------------------------------
\* Types, and the module never runs with an activation it has ended.
ProfilesTypeOK ==
    /\ clock \in Nat /\ activations \in Nat
    /\ stored \in Settings /\ local \in Settings
    /\ checks \in [Checks -> Check]
    /\ ended \subseteq 1 .. activations
    /\ local.active.id \notin ended

\* However profiles are replaced, deleted, activated and expire, a check
\* finds a profile: the handler never answers "does not exist"
\* (browser_state.go:121, DeleteBrowserProfile and the validation of settings).
ChecksAreAnswered == \A c \in Checks : checks[c] # Failed
=============================================================================
