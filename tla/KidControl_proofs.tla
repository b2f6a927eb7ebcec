-------------------------- MODULE KidControl_proofs --------------------------
(***************************************************************************)
(* Proofs about KidControl on the child's device, for all profiles, URLs,  *)
(* handlers, processes and bounds: a check always finds a profile          *)
(* (BrowserProfiles), every visit recorded is accounted for                *)
(* (BrowserMonitor), and no target is acted on twice (Enforcement).        *)
(***************************************************************************)
EXTENDS MCKidControl, FiniteSetTheorems, SequenceTheorems, TLAPS

-----------------------------------------------------------------------------
(* Profiles                                                                *)

\* The running module always has the default profile, and no activation has a
\* number that has not been given out yet.
ProfilesSound ==
    /\ ProfilesTypeOK /\ ChecksAreAnswered
    /\ Default \in local.names
    /\ stored.active.id <= activations /\ local.active.id <= activations

\* Settings hold the profiles there are and an activation.
LEMMA ProfileTypes ==
    /\ Default \in Names /\ NoActivation \in Activation
    /\ NoActivation.id = 0 /\ NoActivation.expires = Never
    /\ \A names \in SUBSET Names, active \in Activation :
          LET settings == [names |-> names, active |-> active]
          IN  settings \in Settings /\ settings.names = names /\ settings.active = active
BY ProfilesAssumption DEF NoActivation, Activation, Never, Settings

\* Resolving ends an activation at most; it answers a profile that is there.
LEMMA ResolveGivesSettings ==
    ASSUME NEW settings \in Settings, NEW at \in Nat, Default \in settings.names
    PROVE  LET r == Resolve(settings, at)
           IN  /\ r.settings \in Settings /\ r.settings.names = settings.names
               /\ r.name \in settings.names /\ r.by \in Nat
               /\ \/ r.settings = settings /\ r.by = settings.active.id
                  \/ r.settings.active = NoActivation /\ r.by = 0 /\ InUse(settings)
<1>1. /\ settings.active \in Activation /\ settings.active.id \in Nat
      /\ settings.names \in SUBSET Names
  BY DEF Settings, Activation
<1>2. /\ [settings EXCEPT !.active = NoActivation] \in Settings
      /\ [settings EXCEPT !.active = NoActivation].names = settings.names
      /\ [settings EXCEPT !.active = NoActivation].active = NoActivation
  BY ProfileTypes DEF Settings
<1> QED
  BY <1>1, <1>2 DEF Resolve, InUse

\* The initial state is sound.
LEMMA ProfilesInitSound == ProfilesInit => ProfilesSound
<1> SUFFICES ASSUME ProfilesInit PROVE ProfilesSound
  OBVIOUS
<1>1. /\ clock = 1 /\ stored \in Settings /\ stored.names = Names /\ stored.active = NoActivation
      /\ local = stored /\ activations = 0 /\ ended = {} /\ checks = [c \in Checks |-> NoCheck]
  BY ProfileTypes DEF ProfilesInit
<1>2. NoCheck \in Check /\ NoCheck # Failed
  BY DEF Check, NoCheck, Failed
<1> QED
  BY <1>1, <1>2, ProfileTypes DEF ProfilesSound, ProfilesTypeOK, ChecksAreAnswered

\* The parent changes what is stored.
LEMMA ParentSound ==
    ASSUME ProfilesSound, Parent
    PROVE  ProfilesSound'
<1>1. /\ stored \in Settings /\ stored.active \in Activation /\ stored.names \in SUBSET Names
      /\ clock \in Nat /\ activations \in Nat /\ stored.active.id <= activations
  BY DEF ProfilesSound, ProfilesTypeOK, Settings
<1>2. ASSUME stored' \in Settings, stored'.active.id <= activations',
             UNCHANGED <<clock, local, checks, ended>>,
             activations' \in {activations, activations + 1}
      PROVE  ProfilesSound'
  <2>1. activations' \in Nat /\ activations <= activations'
    BY <1>1, <1>2
  <2>2. local \in Settings /\ local.active.id \in Nat
    BY DEF ProfilesSound, ProfilesTypeOK, Settings, Activation
  <2> QED
    BY <1>1, <1>2, <2>1, <2>2 DEF ProfilesSound, ProfilesTypeOK, ChecksAreAnswered
<1>3. ASSUME NEW names \in SUBSET Names, NEW active \in {NoActivation, stored.active},
             PutSettings(names, active)
      PROVE  ProfilesSound'
  BY <1>1, <1>2, <1>3, ProfileTypes DEF PutSettings
<1>4. ASSUME NEW name \in Names, NEW fallback \in Names, NEW t \in {clock - 1, clock},
             NEW expires \in {Never} \cup {t + d : d \in Durations},
             SetActive(name, fallback, t, expires)
      PROVE  ProfilesSound'
  <2>1. expires \in Nat
    BY <1>1, ProfilesAssumption DEF Never
  <2> DEFINE active == [name |-> name, fallback |-> fallback, expires |-> expires,
                        id |-> activations + 1]
  <2>2. active \in Activation /\ active.id = activations + 1
    BY <1>1, <2>1 DEF Activation
  <2>3. stored' = [stored EXCEPT !.active = active] /\ activations' = activations + 1
        /\ UNCHANGED <<clock, local, checks, ended>>
    BY <1>4 DEF SetActive, Activated
  <2> HIDE DEF active
  <2>4. stored' \in Settings /\ stored'.active = active
    BY <1>1, <2>2, <2>3 DEF Settings
  <2> QED
    BY <1>1, <1>2, <2>2, <2>3, <2>4
<1>5. CASE ClearActive
  <2>1. stored' \in Settings /\ stored'.active = NoActivation
    BY <1>1, <1>5, ProfileTypes DEF ClearActive, Settings
  <2> QED
    BY <1>1, <1>2, <1>5, <2>1, ProfileTypes DEF ClearActive
<1> QED
  BY <1>3, <1>4, <1>5 DEF Parent

\* What the module does to its profiles never removes the default.
LEMMA ModuleSound ==
    ASSUME ProfilesSound,
           \/ Load
           \/ \E name \in Names : SetBrowserProfile(name) \/ DeleteBrowserProfile(name)
           \/ \E name, fallback \in Names, d \in Durations \cup {0} :
                ActivateBrowserProfile(name, fallback, d)
    PROVE  ProfilesSound'
<1>1. /\ stored \in Settings /\ local \in Settings /\ clock \in Nat /\ activations \in Nat
      /\ stored.active.id \in Nat /\ stored.active.id <= activations
      /\ local.active.id \in Nat /\ local.active.id <= activations /\ local.active.id \notin ended
      /\ local.names \in SUBSET Names /\ local.active \in Activation
      /\ ended \subseteq 1 .. activations /\ Default \in local.names
  BY DEF ProfilesSound, ProfilesTypeOK, Settings, Activation
<1>2. ASSUME local' \in Settings, local'.active.id <= activations', local'.active.id \notin ended',
             Default \in local'.names, ended' \in {ended, {}},
             UNCHANGED <<clock, stored, checks>>,
             activations' \in {activations, activations + 1}
      PROVE  ProfilesSound'
  <2>1. activations' \in Nat /\ activations <= activations' /\ ended' \subseteq 1 .. activations'
    BY <1>1, <1>2
  <2> QED
    BY <1>1, <1>2, <2>1 DEF ProfilesSound, ProfilesTypeOK, ChecksAreAnswered
<1>3. CASE Load
  BY <1>1, <1>2, <1>3 DEF Load
<1>4. ASSUME NEW name \in Names, SetBrowserProfile(name) \/ DeleteBrowserProfile(name)
      PROVE  ProfilesSound'
  <2>1. PICK names \in {local.names \cup {name}, local.names \ {name}} :
           /\ local' = [local EXCEPT !.names = names] /\ Default \in names
           /\ UNCHANGED <<clock, stored, checks, activations, ended>>
    BY <1>1, <1>4 DEF SetBrowserProfile, DeleteBrowserProfile
  <2>2. names \in SUBSET Names
    BY <1>1
  <2>3. local' \in Settings /\ local'.names = names /\ local'.active = local.active
    BY <1>1, <2>1, <2>2 DEF Settings
  <2> QED
    BY <1>1, <1>2, <2>1, <2>3
<1>5. ASSUME NEW name \in Names, NEW fallback \in Names, NEW d \in Durations \cup {0},
             ActivateBrowserProfile(name, fallback, d)
      PROVE  ProfilesSound'
  <2> DEFINE active == [name |-> name, fallback |-> fallback,
                        expires |-> IF d > 0 THEN clock + d ELSE Never, id |-> activations + 1]
  <2>1. active \in Activation /\ active.id = activations + 1
    BY <1>1, ProfilesAssumption DEF Activation, Never
  <2>2. local' = [local EXCEPT !.active = active] /\ activations' = activations + 1
        /\ UNCHANGED <<clock, stored, checks, ended>>
    BY <1>5 DEF ActivateBrowserProfile, Activated
  <2> HIDE DEF active
  <2>3. local' \in Settings /\ local'.names = local.names /\ local'.active = active
    BY <1>1, <2>1, <2>2 DEF Settings
  <2>4. activations + 1 \notin ended
    BY <1>1
  <2> QED
    BY <1>1, <1>2, <2>1, <2>2, <2>3, <2>4
<1> QED
  BY <1>3, <1>4, <1>5

\* A check finds a profile, whatever has happened since it arrived.
LEMMA ChecksSound ==
    ASSUME ProfilesSound, NEW c \in Checks, Arrive(c) \/ ResolveCall(c)
    PROVE  ProfilesSound'
<1>1. /\ ProfilesTypeOK /\ local \in Settings /\ clock \in Nat /\ activations \in Nat
      /\ local.active.id \in Nat /\ local.active.id <= activations
      /\ Default \in local.names /\ checks[c] \in Check
  BY DEF ProfilesSound, ProfilesTypeOK, Settings, Activation
<1>2. ASSUME NEW o \in Check, o # Failed, checks' = [checks EXCEPT ![c] = o]
      PROVE  checks' \in [Checks -> Check] /\ ChecksAreAnswered'
  BY <1>2 DEF ProfilesSound, ProfilesTypeOK, ChecksAreAnswered
<1>3. CASE Arrive(c)
  <2> DEFINE o == [step |-> "resolve", at |-> clock]
  <2>1. o \in Check /\ o # Failed
    BY <1>1 DEF Check, Failed
  <2> QED
    BY <1>2, <1>3, <2>1 DEF Arrive, GotoCheck, ProfilesSound, ProfilesTypeOK
<1>4. CASE ResolveCall(c)
  <2> DEFINE r == Resolve(local, checks[c].at)
             o == [step |-> "answered", by |-> r.by]
  <2>1. checks[c].at \in Nat
    BY <1>1, <1>4 DEF ResolveCall, Check, NoCheck, Failed
  <2>2. /\ r.settings \in Settings /\ r.settings.names = local.names
        /\ r.name \in local.names /\ r.by \in Nat
        /\ \/ r.settings = local /\ r.by = local.active.id
           \/ r.settings.active = NoActivation /\ r.by = 0 /\ InUse(local)
    BY <1>1, <2>1, ResolveGivesSettings
  <2>3. /\ local' = r.settings
        /\ ended' = IF InUse(local) /\ r.by = 0 THEN ended \cup {local.active.id} ELSE ended
        /\ checks' = [checks EXCEPT ![c] = o]
        /\ UNCHANGED <<clock, stored, activations>>
    BY <1>4, <2>2 DEF ResolveCall, GotoCheck
  <2>4. o \in Check /\ o # Failed
    BY <2>2 DEF Check, Failed
  <2> HIDE DEF r, o
  <2>5. checks' \in [Checks -> Check] /\ ChecksAreAnswered'
    BY <1>2, <2>3, <2>4
  <2>6. ended' \subseteq 1 .. activations /\ local'.active.id \notin ended'
        /\ local'.active.id <= activations
    <3>0. ended \subseteq 1 .. activations /\ local.active.id \notin ended /\ NoActivation.id = 0
      BY <1>1, ProfileTypes DEF ProfilesTypeOK
    <3>1. CASE r.settings = local /\ r.by = local.active.id
      BY <1>1, <2>3, <3>0, <3>1 DEF InUse
    <3>2. CASE r.settings.active = NoActivation /\ r.by = 0 /\ InUse(local)
      <4>1. ended' = ended \cup {local.active.id} /\ local.active.id \in 1 .. activations
        BY <1>1, <2>3, <3>2 DEF InUse
      <4>2. local'.active.id = 0
        BY <2>3, <3>0, <3>2
      <4>3. ended' \subseteq 1 .. activations
        BY <3>0, <4>1
      <4>4. local'.active.id \notin ended' /\ local'.active.id <= activations
        BY <1>1, <4>2, <4>3
      <4> QED
        BY <4>3, <4>4
    <3> QED
      BY <2>2, <3>1, <3>2
  <2> QED
    BY <1>1, <2>2, <2>3, <2>5, <2>6 DEF ProfilesSound, ProfilesTypeOK
<1> QED
  BY <1>3, <1>4

\* Every step keeps the invariant ...
LEMMA ProfilesStepSound == ProfilesSound /\ [ProfilesNext]_profilesVars => ProfilesSound'
<1> SUFFICES ASSUME ProfilesSound, [ProfilesNext]_profilesVars
             PROVE  ProfilesSound'
  OBVIOUS
<1>1. CASE ClockTick \/ UNCHANGED profilesVars
  <2>1. clock' \in Nat /\ UNCHANGED <<stored, local, checks, activations, ended>>
    BY <1>1 DEF ClockTick, profilesVars, ProfilesSound, ProfilesTypeOK
  <2> QED
    BY <2>1 DEF ProfilesSound, ProfilesTypeOK, ChecksAreAnswered
<1> QED
  BY <1>1, ParentSound, ModuleSound, ChecksSound DEF ProfilesNext

\* ... which therefore always holds.
LEMMA ProfilesAreSound == ProfilesSpec => []ProfilesSound
BY ProfilesInitSound, ProfilesStepSound, PTL DEF ProfilesSpec

\* However profiles are replaced, deleted, activated and expire, no check is
\* answered "does not exist" (ChecksAreAnswered): the default is always there.
THEOREM ChecksFindAProfile == ProfilesSpec => []ChecksAreAnswered
<1>1. ProfilesSound => ChecksAreAnswered
  BY DEF ProfilesSound
<1> QED
  BY <1>1, ProfilesAreSound, PTL

-----------------------------------------------------------------------------
(* Visits                                                                  *)

\* The places of visit v other than the calls that are about to audit it.
Elsewhere(v) ==
    (IF current.id = v THEN 1 ELSE 0)
      + (IF stop.step = "shutdown" /\ stop.visit.id = v THEN 1 ELSE 0)
      + (IF v \in DOMAIN audited THEN 1 ELSE 0)
      + (IF v \in lost THEN 1 ELSE 0)

Placed(v) ==
    \/ Holders(v) = {} /\ Elsewhere(v) = 1
    \/ \E c \in Calls : Holders(v) = {c} /\ Elsewhere(v) = 0

\* No one holds a visit that has not been recorded, or a time still to come.
CallsKnown ==
    /\ current.id <= made
    /\ \A c \in Calls : /\ calls[c] # Idle => calls[c].at <= now
                        /\ calls[c].step = "audit" => calls[c].visit.id <= made
    /\ stop.step = "shutdown" => stop.at <= now /\ stop.visit.id <= made

MonitorSound == MonitorTypeOK /\ CallsKnown /\ \A v \in 1 .. made : Placed(v)

\* A visit that is in one place is counted once.
LEMMA PlacedOnce ==
    ASSUME MonitorSound PROVE VisitsAccounted
<1> SUFFICES ASSUME NEW v \in 1 .. made
             PROVE  Cardinality(Holders(v))
                      + (IF current.id = v THEN 1 ELSE 0)
                      + (IF stop.step = "shutdown" /\ stop.visit.id = v THEN 1 ELSE 0)
                      + (IF v \in DOMAIN audited THEN 1 ELSE 0)
                      + (IF v \in lost THEN 1 ELSE 0) = 1
  BY DEF VisitsAccounted
<1>1. CASE Holders(v) = {} /\ Elsewhere(v) = 1
  <2>1. Cardinality(Holders(v)) = 0
    BY <1>1, FS_EmptySet
  <2> QED
    BY <1>1, <2>1 DEF Elsewhere
<1>2. CASE \E c \in Calls : Holders(v) = {c} /\ Elsewhere(v) = 0
  <2>1. Cardinality(Holders(v)) = 1 /\ Elsewhere(v) = 0
    BY <1>2, FS_Singleton
  <2> QED
    BY <2>1 DEF Elsewhere
<1> QED
  BY <1>1, <1>2 DEF MonitorSound, Placed

\* What a call holds, by its step.
LEMMA CallShapes ==
    ASSUME MonitorSound, NEW c \in Calls
    PROVE  /\ calls \in [Calls -> Call] /\ calls[c] \in Call
           /\ now \in Nat /\ made \in Nat
           /\ calls[c].step = "idle" <=> calls[c] = Idle
           /\ calls[c].step # "idle" => calls[c].at \in 0 .. now
           /\ calls[c].step \in {"check", "admitted"} =>
                 calls[c] \in [step : {"check", "admitted"}, url : Urls, at : Nat]
           /\ calls[c].step = "allowed" => calls[c].url \in Urls /\ calls[c].profile \in Profiles
           /\ calls[c].step = "audit" => calls[c].visit \in Visit /\ calls[c].visit.id \in 1 .. made
<1>1. calls \in [Calls -> Call] /\ calls[c] \in Call /\ now \in Nat /\ made \in Nat
  BY DEF MonitorSound, MonitorTypeOK
<1>2. /\ calls[c] # Idle => calls[c].at <= now
      /\ calls[c].step = "audit" => calls[c].visit.id <= made
  BY DEF MonitorSound, CallsKnown
<1> QED
  BY <1>1, <1>2 DEF Call, Idle, Visit

\* The identifier 0 stands for no visit, in the monitor and in Stop.
LEMMA CurrentShape ==
    ASSUME MonitorSound
    PROVE  /\ current \in Visit \cup {NoVisit} /\ current.id \in 0 .. made
           /\ current = NoVisit <=> current.id = 0
           /\ stop.step = "shutdown" => /\ stop.visit \in Visit \cup {NoVisit}
                                        /\ stop.visit.id \in 0 .. made /\ stop.at \in 0 .. now
                                        /\ stop.visit = NoVisit <=> stop.visit.id = 0
BY DEF MonitorSound, MonitorTypeOK, CallsKnown, Visit, NoVisit, MonitorStopping, NotStopping,
       Stopped, StopFailed

\* No visit has been recorded.
LEMMA MonitorInitSound == MonitorInit => MonitorSound
<1> SUFFICES ASSUME MonitorInit PROVE MonitorSound
  OBVIOUS
<1>1. /\ now = 0 /\ running = FALSE /\ current = NoVisit /\ calls = [c \in Calls |-> Idle]
      /\ stop = NotStopping /\ made = 0 /\ DOMAIN audited = {} /\ lost = {}
  BY DEF MonitorInit
<1>2. calls \in [Calls -> Call] /\ \A c \in Calls : calls[c] = Idle /\ calls[c].step = "idle"
  BY <1>1 DEF Call, Idle
<1>3. MonitorTypeOK
  BY <1>1, <1>2 DEF MonitorTypeOK
<1>4. CallsKnown
  BY <1>1, <1>2 DEF CallsKnown, NoVisit, NotStopping
<1>5. \A v \in 1 .. made : Placed(v)
  BY <1>1
<1> QED
  BY <1>3, <1>4, <1>5 DEF MonitorSound

\* A call goes on, and neither takes a visit out nor puts one away.
LEMMA PassingSound ==
    ASSUME MonitorSound, NEW c \in Calls, NEW o \in Call, GotoCall(c, o),
           calls[c].step # "audit", o.step # "audit", o # Idle => o.at <= now,
           UNCHANGED <<now, running, current, stop, made, audited, lost>>
    PROVE  MonitorSound'
<1>1. /\ calls \in [Calls -> Call] /\ calls' = [calls EXCEPT ![c] = o]
      /\ calls' \in [Calls -> Call] /\ \A d \in Calls : calls'[d] = IF d = c THEN o ELSE calls[d]
  BY CallShapes DEF GotoCall
<1>2. MonitorTypeOK' /\ CallsKnown'
  BY <1>1 DEF MonitorSound, MonitorTypeOK, CallsKnown
<1>3. \A v : Holders(v)' = Holders(v)
  BY <1>1 DEF Holders
<1>4. \A v : Elsewhere(v)' = Elsewhere(v)
  BY DEF Elsewhere
<1> QED
  BY <1>2, <1>3, <1>4 DEF MonitorSound, Placed

\* A call takes the current visit out, and may leave a new one.
LEMMA TakingSound ==
    ASSUME MonitorSound, NEW c \in Calls, calls[c].step \in {"allowed", "end"}, Taking(c, current),
           current' \in Visit \cup {NoVisit}, made' \in Nat,
           \/ made' = made /\ current' = NoVisit
           \/ made' = made + 1 /\ current'.id = made + 1,
           UNCHANGED <<now, running, stop, audited, lost>>
    PROVE  MonitorSound'
<1> DEFINE o == IF current = NoVisit THEN Idle
                ELSE [step |-> "audit", visit |-> current, at |-> calls[c].at]
<1>1. /\ calls \in [Calls -> Call] /\ calls[c].at \in 0 .. now /\ now \in Nat /\ made \in Nat
      /\ calls' = [calls EXCEPT ![c] = o]
      /\ current \in Visit \cup {NoVisit} /\ current.id \in 0 .. made
      /\ current = NoVisit <=> current.id = 0
  BY CallShapes, CurrentShape DEF Taking, GotoCall
<1>2. /\ o \in Call
      /\ o # Idle => o.at <= now
      /\ o.step = "audit" <=> current # NoVisit
      /\ o.step = "audit" => o.visit = current
  BY <1>1 DEF Call, Idle
<1> HIDE DEF o
<1>3. calls' \in [Calls -> Call] /\ \A d \in Calls : calls'[d] = IF d = c THEN o ELSE calls[d]
  BY <1>1, <1>2
<1>4. current'.id <= made' /\ made <= made'
  BY <1>1 DEF NoVisit
<1>5. MonitorTypeOK'
  BY <1>1, <1>3, <1>4 DEF MonitorSound, MonitorTypeOK
<1>6. CallsKnown'
  <2>1. ASSUME NEW d \in Calls
        PROVE  /\ calls'[d] # Idle => calls'[d].at <= now
               /\ calls'[d].step = "audit" => calls'[d].visit.id <= made'
    <3>1. CASE d = c
      BY <1>1, <1>2, <1>3, <1>4, <3>1
    <3>2. CASE d # c
      BY <1>1, <1>3, <1>4, <3>2, CallShapes
    <3> QED
      BY <3>1, <3>2
  <2>2. stop.step = "shutdown" => stop.at <= now /\ stop.visit.id <= made'
    BY <1>1, <1>4, CurrentShape
  <2> QED
    BY <1>4, <2>1, <2>2 DEF CallsKnown
<1>7. \A v \in 1 .. made' : Placed(v)'
  <2> SUFFICES ASSUME NEW v \in 1 .. made' PROVE Placed(v)'
    OBVIOUS
  <2>1. CASE v = made + 1
    <3>1. current'.id = v
      BY <1>1, <2>1
    <3>2. Holders(v)' = {}
      BY <1>1, <1>2, <1>3, <2>1, CallShapes DEF Holders
    <3>3. stop.step = "shutdown" => stop.visit.id # v
      BY <1>1, <2>1, CurrentShape
    <3>4. v \notin DOMAIN audited /\ v \notin lost
      BY <1>1, <2>1 DEF MonitorSound, MonitorTypeOK
    <3> QED
      BY <3>1, <3>2, <3>3, <3>4 DEF Placed, Elsewhere
  <2>2. CASE v \in 1 .. made
    <3>1. Placed(v) /\ current'.id # v
      BY <1>1, <2>2 DEF MonitorSound, NoVisit
    <3>2. CASE current.id = v
      <4>1. Elsewhere(v) >= 1
        BY <3>2 DEF Elsewhere
      <4>2. Holders(v) = {} /\ Elsewhere(v) = 1
        BY <3>1, <4>1 DEF Placed
      <4>3. Elsewhere(v)' = 0
        BY <3>1, <3>2, <4>2 DEF Elsewhere
      <4>4. Holders(v)' = {c}
        BY <1>1, <1>2, <1>3, <2>2, <3>2, <4>2 DEF Holders
      <4> QED
        BY <4>3, <4>4 DEF Placed
    <3>3. CASE current.id # v
      <4>1. Holders(v)' = Holders(v)
        BY <1>1, <1>2, <1>3, <3>3 DEF Holders
      <4>2. Elsewhere(v)' = Elsewhere(v)
        BY <3>1, <3>3 DEF Elsewhere
      <4> QED
        BY <3>1, <4>1, <4>2 DEF Placed
    <3> QED
      BY <3>2, <3>3
  <2> QED
    BY <1>1, <2>1, <2>2
<1> QED
  BY <1>5, <1>6, <1>7 DEF MonitorSound

\* A call of a handler that audits nothing leaves each visit in its place, or
\* takes the current one over.
LEMMA StepSound ==
    ASSUME MonitorSound, NEW c \in Calls,
           \/ Step(c) /\ ~Audit(c)
           \/ ArriveEnd(c) \/ \E site \in Urls : ArriveCheck(c, site)
    PROVE  MonitorSound'
<1>1. /\ now \in Nat /\ made \in Nat /\ Idle \in Call /\ Idle.step = "idle"
      /\ calls[c].step # "idle" => calls[c].at \in 0 .. now
  BY CallShapes DEF Call, Idle
<1>2. CASE ArriveEnd(c) \/ \E site \in Urls : ArriveCheck(c, site)
  <2>1. PICK o \in Call : /\ GotoCall(c, o) /\ o.step # "audit" /\ o.at = now
                          /\ UNCHANGED <<now, running, current, stop, made, audited, lost>>
    BY <1>1, <1>2 DEF ArriveEnd, ArriveCheck, Call
  <2>2. calls[c].step # "audit"
    BY <1>1, <1>2 DEF ArriveEnd, ArriveCheck
  <2> QED
    BY <1>1, <2>1, <2>2, PassingSound
<1>3. CASE Admit(c)
  <2>1. calls[c] \in [step : {"check", "admitted"}, url : Urls, at : Nat]
    BY <1>3, CallShapes DEF Admit
  <2> DEFINE o == IF running THEN [calls[c] EXCEPT !.step = "admitted"] ELSE Idle
  <2>2. o \in Call /\ o.step # "audit" /\ (o # Idle => o.at = calls[c].at)
    BY <1>1, <2>1 DEF Call
  <2>3. /\ GotoCall(c, o) /\ calls[c].step = "check"
        /\ UNCHANGED <<now, running, current, stop, made, audited, lost>>
    BY <1>3 DEF Admit
  <2> HIDE DEF o
  <2> QED
    BY <1>1, <2>2, <2>3, PassingSound
<1>4. CASE Refuse(c) \/ RecordSame(c)
  BY <1>1, <1>4, PassingSound DEF Refuse, RecordSame
<1>5. ASSUME NEW profile \in Profiles, Allow(c, profile) PROVE MonitorSound'
  <2> DEFINE o == [step |-> "allowed", url |-> calls[c].url, profile |-> profile,
                   at |-> calls[c].at]
  <2>1. calls[c].url \in Urls
    BY <1>5, CallShapes DEF Allow
  <2>2. o \in Call /\ o.step # "audit" /\ o.at = calls[c].at
    BY <1>1, <1>5, <2>1 DEF Call, Allow
  <2> QED
    BY <1>1, <1>5, <2>2, PassingSound DEF Allow
<1>6. CASE RecordNew(c)
  <2>1. /\ calls[c].step = "allowed" /\ calls[c].url \in Urls /\ calls[c].profile \in Profiles
        /\ calls[c].at \in Nat
    BY <1>1, <1>6, CallShapes DEF RecordNew
  <2>2. current' \in Visit /\ current'.id = made + 1 /\ made' = made + 1
    BY <1>1, <1>6, <2>1 DEF RecordNew, Visit
  <2> QED
    BY <1>1, <1>6, <2>1, <2>2, TakingSound DEF RecordNew
<1>7. CASE EndVisit(c) /\ running
  BY <1>1, <1>7, TakingSound DEF EndVisit
<1>8. CASE EndVisit(c) /\ ~running
  BY <1>1, <1>8, PassingSound DEF EndVisit
<1> QED
  BY <1>2, <1>3, <1>4, <1>5, <1>6, <1>7, <1>8 DEF Step

\* Auditing adds one visit to those audited.
LEMMA AuditTypes ==
    ASSUME MonitorSound, NEW visit \in Visit, visit.id <= made, NEW at \in 0 .. now
    PROVE  /\ DOMAIN Audited(visit, at) = DOMAIN audited \cup {visit.id}
           /\ DOMAIN Audited(visit, at) \subseteq 1 .. made
           /\ \A v \in DOMAIN Audited(visit, at) : Audited(visit, at)[v] \in 0 .. now
<1>1. /\ now \in Nat /\ made \in Nat /\ visit.id \in 1 .. made /\ visit.startedAt \in Nat
      /\ DOMAIN audited \subseteq 1 .. made /\ \A v \in DOMAIN audited : audited[v] \in 0 .. now
  BY DEF MonitorSound, MonitorTypeOK, Visit
<1>2. Elapsed(visit, at) \in 0 .. now
  BY <1>1 DEF Elapsed
<1> QED
  BY <1>1, <1>2 DEF Audited

\* A call that audits its visit is the only place that held it.
LEMMA AuditSound ==
    ASSUME MonitorSound, NEW c \in Calls, Audit(c)
    PROVE  MonitorSound'
<1> DEFINE visit == calls[c].visit
<1>1. /\ calls \in [Calls -> Call] /\ calls[c].step = "audit" /\ calls[c].at \in 0 .. now
      /\ visit \in Visit /\ visit.id \in 1 .. made /\ visit.id <= made
      /\ audited' = Audited(visit, calls[c].at) /\ calls' = [calls EXCEPT ![c] = Idle]
      /\ UNCHANGED <<now, running, current, stop, made, lost>>
  BY CallShapes DEF Audit, GotoCall
<1>2. /\ DOMAIN audited' = DOMAIN audited \cup {visit.id} /\ DOMAIN audited' \subseteq 1 .. made
      /\ \A v \in DOMAIN audited' : audited'[v] \in 0 .. now
  BY <1>1, AuditTypes
<1>3. Idle \in Call /\ Idle.step = "idle"
  BY DEF Call, Idle
<1>4. calls' \in [Calls -> Call] /\ \A d \in Calls : calls'[d] = IF d = c THEN Idle ELSE calls[d]
  BY <1>1, <1>3
<1>5. MonitorTypeOK'
  BY <1>1, <1>2, <1>4 DEF MonitorSound, MonitorTypeOK
<1>6. CallsKnown'
  BY <1>1, <1>3, <1>4 DEF MonitorSound, CallsKnown
<1>7. ASSUME NEW v \in 1 .. made PROVE Placed(v)'
  <2>1. Placed(v)
    BY DEF MonitorSound
  <2>2. CASE v = visit.id
    <3>1. c \in Holders(v)
      BY <1>1, <2>2 DEF Holders
    <3>2. Holders(v) = {c} /\ Elsewhere(v) = 0
      BY <2>1, <3>1 DEF Placed
    <3>3. Holders(v)' = {}
      BY <1>3, <1>4, <3>2 DEF Holders
    <3>4. Elsewhere(v)' = 1
      BY <1>1, <1>2, <2>2, <3>2 DEF Elsewhere
    <3> QED
      BY <3>3, <3>4 DEF Placed
  <2>3. CASE v # visit.id
    <3>1. Holders(v)' = Holders(v)
      BY <1>1, <1>3, <1>4, <2>3 DEF Holders
    <3>2. Elsewhere(v)' = Elsewhere(v)
      BY <1>1, <1>2, <2>3 DEF Elsewhere
    <3> QED
      BY <2>1, <3>1, <3>2 DEF Placed
  <2> QED
    BY <2>2, <2>3
<1> QED
  BY <1>1, <1>5, <1>6, <1>7 DEF MonitorSound

\* A visit passes from the monitor to Stop, and on to the log, or is lost.
LEMMA StopSound ==
    ASSUME MonitorSound, StopMonitor \/ Shutdown \/ ShutdownFails
    PROVE  MonitorSound'
<1>1. /\ UNCHANGED <<now, calls, made>> /\ now \in Nat /\ made \in Nat
      /\ MonitorTypeOK /\ NoVisit.id = 0
  BY DEF StopMonitor, Shutdown, ShutdownFails, MonitorSound, MonitorTypeOK, NoVisit
<1>2. \A v : Holders(v)' = Holders(v)
  BY <1>1 DEF Holders
<1>3. ASSUME MonitorTypeOK', CallsKnown', \A v \in 1 .. made : Elsewhere(v)' = Elsewhere(v)
      PROVE  MonitorSound'
  BY <1>1, <1>2, <1>3 DEF MonitorSound, Placed
<1>4. CASE StopMonitor
  <2>1. /\ stop.step = "no" /\ running' = FALSE /\ current' = NoVisit
        /\ stop' = [step |-> "shutdown", visit |-> current, at |-> now, locked |-> FALSE]
        /\ UNCHANGED <<audited, lost>>
    BY <1>4 DEF StopMonitor, NotStopping
  <2>2. MonitorTypeOK'
    BY <1>1, <2>1 DEF MonitorTypeOK, MonitorStopping
  <2>3. CallsKnown'
    BY <1>1, <2>1, CurrentShape DEF MonitorSound, CallsKnown
  <2>4. \A v \in 1 .. made : Elsewhere(v)' = Elsewhere(v)
    BY <1>1, <2>1 DEF Elsewhere
  <2> QED
    BY <1>3, <2>2, <2>3, <2>4
<1>5. CASE Shutdown
  <2>1. /\ stop.step = "shutdown" /\ stop' = Stopped /\ UNCHANGED <<running, current, lost>>
        /\ audited' = IF stop.visit = NoVisit THEN audited ELSE Audited(stop.visit, stop.at)
    BY <1>5 DEF Shutdown
  <2>2. stop.visit # NoVisit => stop.visit \in Visit /\ stop.visit.id <= made
        /\ stop.at \in 0 .. now
    BY <2>1, CurrentShape
  <2>3. /\ DOMAIN audited' = DOMAIN audited \cup ({stop.visit.id} \ {0})
        /\ DOMAIN audited' \subseteq 1 .. made
        /\ \A v \in DOMAIN audited' : audited'[v] \in 0 .. now
    <3>1. CASE stop.visit = NoVisit
      BY <1>1, <2>1, <3>1 DEF MonitorTypeOK
    <3>2. CASE stop.visit # NoVisit
      BY <2>1, <2>2, <3>2, AuditTypes DEF Visit
    <3> QED
      BY <3>1, <3>2
  <2>4. MonitorTypeOK'
    BY <1>1, <2>1, <2>3 DEF MonitorTypeOK
  <2>5. CallsKnown'
    BY <1>1, <2>1 DEF MonitorSound, CallsKnown, Stopped
  <2>6. ASSUME NEW v \in 1 .. made PROVE Elsewhere(v)' = Elsewhere(v)
    <3>1. CASE stop.visit.id = v
      <4>1. v \notin DOMAIN audited
        BY <2>1, <3>1 DEF MonitorSound, Placed, Elsewhere
      <4> QED
        BY <2>1, <2>3, <3>1, <4>1 DEF Elsewhere, Stopped
    <3>2. CASE stop.visit.id # v
      BY <2>1, <2>3, <3>2 DEF Elsewhere, Stopped
    <3> QED
      BY <3>1, <3>2
  <2> QED
    BY <1>3, <2>4, <2>5, <2>6
<1>6. CASE ShutdownFails
  <2>1. /\ stop.step = "shutdown" /\ stop' = StopFailed /\ UNCHANGED <<running, current, audited>>
        /\ lost' = lost \cup ({stop.visit.id} \ {0})
    BY <1>6 DEF ShutdownFails
  <2>2. MonitorTypeOK'
    <3>1. stop.visit.id \in 0 .. made /\ lost \subseteq 1 .. made
      BY <1>1, <2>1, CurrentShape DEF MonitorTypeOK
    <3>2. ASSUME NEW v \in lost' PROVE v \in 1 .. made
      <4>1. CASE v \in lost
        BY <3>1, <4>1
      <4>2. CASE v = stop.visit.id /\ v # 0
        <5>1. stop.visit.id \in 1 .. made
          BY <1>1, <3>1, <4>2
        <5> QED
          BY <4>2, <5>1
      <4> QED
        BY <2>1, <4>1, <4>2
    <3> QED
      BY <1>1, <2>1, <3>2 DEF MonitorTypeOK
  <2>3. CallsKnown'
    BY <1>1, <2>1 DEF MonitorSound, CallsKnown, StopFailed
  <2>4. ASSUME NEW v \in 1 .. made PROVE Elsewhere(v)' = Elsewhere(v)
    <3>1. CASE stop.visit.id = v
      <4>1. v \notin lost
        BY <2>1, <3>1 DEF MonitorSound, Placed, Elsewhere
      <4> QED
        BY <2>1, <3>1, <4>1 DEF Elsewhere, StopFailed
    <3>2. CASE stop.visit.id # v
      BY <2>1, <3>2 DEF Elsewhere, StopFailed
    <3> QED
      BY <3>1, <3>2
  <2> QED
    BY <1>3, <2>2, <2>3, <2>4
<1> QED
  BY <1>4, <1>5, <1>6

\* Every step of the monitor keeps the invariant ...
LEMMA MonitorStepSound == MonitorSound /\ [MonitorNext]_monitorVars => MonitorSound'
<1> SUFFICES ASSUME MonitorSound, [MonitorNext]_monitorVars
             PROVE  MonitorSound'
  OBVIOUS
<1>1. CASE StartMonitor \/ Tick \/ UNCHANGED monitorVars
  <2>1. /\ now' \in Nat /\ now <= now' /\ now \in Nat /\ running' \in BOOLEAN
        /\ UNCHANGED <<current, calls, stop, made, audited, lost>>
    <3>1. now \in Nat /\ running \in BOOLEAN
      BY DEF MonitorSound, MonitorTypeOK
    <3>2. CASE StartMonitor
      BY <3>1, <3>2 DEF StartMonitor
    <3>3. CASE Tick
      BY <3>1, <3>3 DEF Tick
    <3>4. CASE UNCHANGED monitorVars
      BY <3>1, <3>4 DEF monitorVars
    <3> QED
      BY <1>1, <3>2, <3>3, <3>4
  <2>2. \A v \in DOMAIN audited : audited[v] \in 0 .. now'
    BY <2>1 DEF MonitorSound, MonitorTypeOK
  <2>3. MonitorTypeOK'
    BY <2>1, <2>2 DEF MonitorSound, MonitorTypeOK
  <2>4. \A c \in Calls : calls[c] # Idle => calls[c].at <= now'
    BY <2>1, CallShapes
  <2>5. CallsKnown'
    BY <2>1, <2>4, CurrentShape DEF MonitorSound, CallsKnown
  <2>6. \A v : Holders(v)' = Holders(v) /\ Elsewhere(v)' = Elsewhere(v)
    BY <2>1 DEF Holders, Elsewhere
  <2> QED
    BY <2>1, <2>3, <2>5, <2>6 DEF MonitorSound, Placed
<1> QED
  BY <1>1, StepSound, AuditSound, StopSound DEF MonitorNext, Step

\* ... which therefore always holds.
LEMMA MonitorIsSound == MonitorSpec => []MonitorSound
BY MonitorInitSound, MonitorStepSound, PTL DEF MonitorSpec

\* Every visit recorded is in exactly one place (VisitsAccounted), whatever
\* handlers and Stop overlap: none is forgotten and none is audited twice.
THEOREM VisitsStayAccounted == MonitorSpec => []VisitsAccounted
<1>1. MonitorSound => VisitsAccounted
  BY PlacedOnce
<1> QED
  BY <1>1, MonitorIsSound, PTL

-----------------------------------------------------------------------------
(* Enforcement                                                             *)

\* What runs has been launched, and a window is in front only while its
\* process runs.
DeviceKnown ==
    /\ Len(launched) <= MaxLaunches
    /\ \A p \in Pids : process[p] <= Len(launched)
    /\ front # None => Running(front)

\* Only what has been noted is acted on, and what is about to be acted on has
\* not been.
AttemptsKnown ==
    /\ attempts \in [Targets -> {0, 1}]
    /\ \A p \in Pids : attempts[Target(p)] = 1 => p \in handledPIDs
    /\ \A k \in Launches \X Pids \X Titles : attempts[k] = 1 => k \in handledWindows
    /\ appLoop.step = "close" =>
          appLoop.pid \in handledPIDs /\ attempts[Target(appLoop.pid)] = 0
    /\ windowLoop.step = "close" => WindowKey \in handledWindows /\ attempts[WindowKey] = 0

\* Stop has waited for the loops.
LoopsStopped ==
    /\ phase \in {"window stopped", "stopped"} => windowLoop = Off
    /\ phase = "stopped" => appLoop = Off

EnforcementSound == TypeOK /\ DeviceKnown /\ AttemptsKnown /\ LoopsStopped

\* Targets of the two loops are told apart, and those of processes by their
\* identifiers.
LEMMA TargetsApart ==
    /\ \A p \in Pids : Target(p) \in Targets /\ Target(p) \notin Launches \X Pids \X Titles
    /\ \A p, q \in Pids : Target(p) = Target(q) => p = q
    /\ Launches \X Pids \X Titles \subseteq Targets
    /\ \A t \in Targets : (\E p \in Pids : t = Target(p)) \/ t \in Launches \X Pids \X Titles
<1>1. \A i \in Launches : i # None
  BY EnforcementAssumption DEF Launches, None
<1>2. \A p \in Pids : Target(p) \notin Launches \X Pids \X Titles
  BY <1>1 DEF Target
<1> QED
  BY <1>2 DEF Targets, Target

\* What a loop holds is determined by the step it is at.
LEMMA LoopShapes ==
    ASSUME TypeOK
    PROVE  /\ appLoop = Off <=> appLoop.step = "off"
           /\ appLoop = Wait <=> appLoop.step = "wait"
           /\ appLoop.step \in {"handle", "close"} => appLoop.todo \subseteq Pids \X Apps
           /\ appLoop.step = "close" => appLoop.pid \in Pids
           /\ windowLoop = Off <=> windowLoop.step = "off"
           /\ windowLoop = Wait <=> windowLoop.step = "wait"
           /\ windowLoop.step = "close" => /\ windowLoop.id \in Launches /\ windowLoop.pid \in Pids
                                           /\ windowLoop.title \in Titles
                                           /\ WindowKey \in Launches \X Pids \X Titles
           /\ Off \in AppLoop /\ Wait \in AppLoop /\ Off \in WindowLoop /\ Wait \in WindowLoop
           /\ Off.step = "off" /\ Wait.step = "wait"
<1>1. appLoop \in AppLoop /\ windowLoop \in WindowLoop
  BY DEF TypeOK
<1>2. /\ appLoop = Off <=> appLoop.step = "off"
      /\ appLoop = Wait <=> appLoop.step = "wait"
      /\ appLoop.step \in {"handle", "close"} => appLoop.todo \subseteq Pids \X Apps
      /\ appLoop.step = "close" => appLoop.pid \in Pids
  BY <1>1 DEF AppLoop, Off, Wait
<1>3. /\ windowLoop = Off <=> windowLoop.step = "off"
      /\ windowLoop = Wait <=> windowLoop.step = "wait"
      /\ windowLoop.step = "close" => /\ windowLoop.id \in Launches /\ windowLoop.pid \in Pids
                                      /\ windowLoop.title \in Titles
  BY <1>1 DEF WindowLoop, Off, Wait
<1>4. windowLoop.step = "close" => WindowKey \in Launches \X Pids \X Titles
  BY <1>3 DEF WindowKey, Key
<1> QED
  BY <1>2, <1>3, <1>4 DEF AppLoop, WindowLoop, Off, Wait

\* A loop that is started waits, unless it is not enabled.
LEMMA LoopStarts ==
    ASSUME NEW enabled
    PROVE  Loop(enabled) \in {Off, Wait} /\ Loop(enabled).step \in {"off", "wait"}
BY DEF Loop, Off, Wait

\* Nothing has been acted on after a start.
LEMMA NoAttempts ==
    [t \in Targets |-> 0] \in [Targets -> {0, 1}] /\ \A t \in Targets : [s \in Targets |-> 0][t] = 0
OBVIOUS

\* The initial state is sound.
LEMMA EnforcementInitSound == Init => EnforcementSound
<1> SUFFICES ASSUME Init PROVE EnforcementSound
  OBVIOUS
<1>1. /\ process = [p \in Pids |-> None] /\ launched = <<>> /\ front = None /\ config \in Configs
      /\ phase = "running" /\ appLoop = Loop(config.app) /\ windowLoop = Loop(config.window)
      /\ handledPIDs = {} /\ handledWindows = {} /\ attempts = [t \in Targets |-> 0] /\ starts = 1
  BY DEF Init
<1>2. TypeOK
  <2>1. launched \in Seq([app : Apps, title : Titles])
    BY <1>1, EmptySeq
  <2> QED
    BY <1>1, <2>1, LoopStarts DEF TypeOK, Phases, AppLoop, WindowLoop
<1>3. DeviceKnown
  BY <1>1, EnforcementAssumption DEF DeviceKnown, None
<1>4. AttemptsKnown
  BY <1>1, NoAttempts, LoopStarts, TargetsApart DEF AttemptsKnown
<1>5. LoopsStopped
  BY <1>1 DEF LoopsStopped
<1> QED
  BY <1>2, <1>3, <1>4, <1>5 DEF EnforcementSound

\* A process is gone, or none is.
LEMMA GoneSound ==
    ASSUME TypeOK, DeviceKnown, NEW i \in Launches, Gone(i) \/ UNCHANGED device
    PROVE  /\ process' \in [Pids -> Launches \cup {None}] /\ front' \in Launches \cup {None}
           /\ launched' \in Seq([app : Apps, title : Titles]) /\ DeviceKnown'
<1>1. /\ process \in [Pids -> Launches \cup {None}] /\ front \in Launches \cup {None}
      /\ launched \in Seq([app : Apps, title : Titles]) /\ Len(launched) \in Nat
  BY DEF TypeOK
<1>2. CASE Gone(i)
  <2>1. /\ \A p \in Pids : process'[p] = IF process[p] = i THEN None ELSE process[p]
        /\ process' \in [Pids -> Launches \cup {None}] /\ launched' = launched
        /\ front' = IF front = i THEN None ELSE front
    BY <1>1, <1>2 DEF Gone
  <2>2. \A p \in Pids : process'[p] <= Len(launched)
    BY <1>1, <2>1 DEF DeviceKnown, None
  <2>3. front' # None => Running(front)
    BY <2>1 DEF DeviceKnown
  <2>4. front' # None => Running(front)'
    BY <2>1, <2>3 DEF Running
  <2> QED
    BY <1>1, <2>1, <2>2, <2>4 DEF DeviceKnown
<1>3. CASE UNCHANGED device
  BY <1>1, <1>3 DEF device, DeviceKnown, Running
<1> QED
  BY <1>2, <1>3

\* What happens on the device acts on nothing.
LEMMA DeviceSound ==
    ASSUME EnforcementSound, Agent, NEW p \in Pids,
           \/ \E a \in Apps, t \in Titles : Launch(p, a, t)
           \/ Exit(p) \/ BringToFront(p) \/ \E t \in Titles : Retitle(p, t)
    PROVE  EnforcementSound'
<1>1. /\ process \in [Pids -> Launches \cup {None}] /\ front \in Launches \cup {None}
      /\ launched \in Seq([app : Apps, title : Titles]) /\ Len(launched) \in Nat
      /\ \A q \in Pids : process[q] <= Len(launched)
      /\ Len(launched) <= MaxLaunches /\ MaxLaunches \in Nat
      /\ DeviceKnown /\ TypeOK
  BY EnforcementAssumption DEF EnforcementSound, TypeOK, DeviceKnown
<1>2. ASSUME process' \in [Pids -> Launches \cup {None}], front' \in Launches \cup {None},
             launched' \in Seq([app : Apps, title : Titles]), DeviceKnown'
      PROVE  EnforcementSound'
  BY <1>2 DEF Agent, handled, EnforcementSound, TypeOK, AttemptsKnown, LoopsStopped, WindowKey
<1>3. ASSUME NEW a \in Apps, NEW t \in Titles, Launch(p, a, t) PROVE EnforcementSound'
  <2> DEFINE r == [app |-> a, title |-> t]
             n == Len(launched) + 1
  <2>1. /\ launched' = Append(launched, r) /\ Len(launched') = n
        /\ launched' \in Seq([app : Apps, title : Titles]) /\ n \in Launches /\ n # None
    BY <1>1, <1>3 DEF Launch, Launches, None
  <2>2. process' = [process EXCEPT ![p] = n] /\ front' = n /\ n <= MaxLaunches
    BY <1>1, <1>3, <2>1 DEF Launch
  <2>3. /\ process' \in [Pids -> Launches \cup {None}]
        /\ \A q \in Pids : process'[q] = IF q = p THEN n ELSE process[q]
    BY <1>1, <2>1, <2>2
  <2>4. \A q \in Pids : process'[q] <= n
    <3>1. \A q \in Pids : process[q] \in Nat /\ process[q] <= Len(launched)
      BY <1>1 DEF Launches, None
    <3> QED
      BY <1>1, <2>3, <3>1
  <2>5. Running(front)'
    BY <2>2, <2>3 DEF Running
  <2>6. DeviceKnown'
    BY <2>1, <2>2, <2>4, <2>5 DEF DeviceKnown
  <2> QED
    BY <1>2, <2>1, <2>2, <2>3, <2>6
<1>4. CASE Exit(p)
  <2>1. process[p] \in Launches /\ Gone(process[p])
    BY <1>1, <1>4 DEF Exit
  <2> QED
    BY <1>1, <1>2, <2>1, GoneSound
<1>5. CASE BringToFront(p)
  <2>1. /\ front' = process[p] /\ process[p] # None /\ process[p] \in Launches
        /\ UNCHANGED <<process, launched>>
    BY <1>1, <1>5 DEF BringToFront
  <2>2. DeviceKnown'
    BY <1>1, <2>1 DEF DeviceKnown, Running
  <2> QED
    BY <1>1, <1>2, <2>1, <2>2
<1>6. ASSUME NEW t \in Titles, Retitle(p, t) PROVE EnforcementSound'
  <2>1. /\ launched' = [launched EXCEPT ![process[p]].title = t] /\ UNCHANGED <<process, front>>
        /\ process[p] \in 1 .. Len(launched)
    BY <1>1, <1>6 DEF Retitle, Launches, None
  <2>2. /\ launched' \in Seq([app : Apps, title : Titles]) /\ Len(launched') = Len(launched)
    <3>1. launched[process[p]] \in [app : Apps, title : Titles]
      BY <1>1, <2>1, ElementOfSeq
    <3>2. [launched[process[p]] EXCEPT !.title = t] \in [app : Apps, title : Titles]
      BY <3>1
    <3> QED
      BY <1>1, <2>1, <3>2
  <2>3. DeviceKnown'
    BY <1>1, <2>1, <2>2 DEF DeviceKnown, Running
  <2> QED
    BY <1>1, <1>2, <2>1, <2>2, <2>3
<1> QED
  BY <1>3, <1>4, <1>5, <1>6

\* The module starts, is told to stop, and stops.
LEMMA LifeSound ==
    ASSUME EnforcementSound,
           (\E c \in Configs : Start(c)) \/ Cancel \/ Stop \/ Leave
    PROVE  EnforcementSound'
<1>1. TypeOK /\ DeviceKnown /\ AttemptsKnown /\ LoopsStopped
  BY DEF EnforcementSound
<1>2. UNCHANGED device
  BY DEF Start, Cancel, Stop, Stopping, Leave
<1>3. DeviceKnown'
  BY <1>1, <1>2 DEF device, DeviceKnown, Running
<1>4. ASSUME NEW c \in Configs, Start(c) PROVE EnforcementSound'
  <2>1. /\ config' = c /\ phase' = "running"
        /\ appLoop' = Loop(c.app) /\ windowLoop' = Loop(c.window)
        /\ handledPIDs' = {} /\ handledWindows' = {} /\ attempts' = [t \in Targets |-> 0]
    BY <1>4 DEF Start
  <2>2. TypeOK'
    BY <1>1, <1>2, <2>1, LoopStarts DEF device, TypeOK, Phases, AppLoop, WindowLoop
  <2>3. AttemptsKnown'
    BY <2>1, NoAttempts, LoopStarts, TargetsApart DEF AttemptsKnown
  <2>4. LoopsStopped'
    BY <2>1 DEF LoopsStopped
  <2> QED
    BY <1>3, <2>2, <2>3, <2>4 DEF EnforcementSound
<1>5. CASE Cancel \/ Stop
  <2>1. /\ UNCHANGED <<config, appLoop, windowLoop, handledPIDs, handledWindows, attempts>>
        /\ phase' \in Phases /\ LoopsStopped'
    BY <1>1, <1>5 DEF Cancel, Stop, Stopping, handled, Phases, LoopsStopped
  <2>2. TypeOK'
    BY <1>1, <1>2, <2>1 DEF device, TypeOK
  <2>3. AttemptsKnown'
    BY <1>1, <2>1 DEF AttemptsKnown, WindowKey
  <2> QED
    BY <1>3, <2>1, <2>2, <2>3 DEF EnforcementSound
<1>6. CASE Leave
  <2>1. /\ UNCHANGED <<config, phase, handledPIDs, handledWindows, attempts>>
        /\ \/ appLoop' = Off /\ UNCHANGED windowLoop
           \/ windowLoop' = Off /\ UNCHANGED appLoop
    BY <1>6 DEF Leave, handled
  <2>2. TypeOK'
    BY <1>1, <1>2, <2>1, LoopShapes DEF device, TypeOK
  <2>3. AttemptsKnown'
    BY <1>1, <2>1 DEF AttemptsKnown, WindowKey, Off
  <2>4. LoopsStopped'
    BY <1>1, <2>1 DEF LoopsStopped
  <2> QED
    BY <1>3, <2>2, <2>3, <2>4 DEF EnforcementSound
<1> QED
  BY <1>4, <1>5, <1>6

\* A loop that has not stopped acts.
LEMMA ActingSound ==
    ASSUME EnforcementSound, TypeOK', DeviceKnown', AttemptsKnown',
           UNCHANGED <<phase>>,
           \/ appLoop # Off /\ UNCHANGED windowLoop
           \/ windowLoop # Off /\ UNCHANGED appLoop
    PROVE  EnforcementSound'
BY DEF EnforcementSound, LoopsStopped

\* The app loop acts only on what it has noted, and once.
LEMMA AppSound ==
    ASSUME EnforcementSound, AppStep
    PROVE  EnforcementSound'
<1>1. /\ TypeOK /\ DeviceKnown /\ AttemptsKnown /\ attempts \in [Targets -> {0, 1}]
      /\ handledPIDs \subseteq Pids /\ handledWindows \subseteq Launches \X Pids \X Titles
      /\ launched \in Seq([app : Apps, title : Titles])
  BY DEF EnforcementSound, TypeOK, AttemptsKnown
<1>2. /\ appLoop.step \in {"wait", "handle", "close"} /\ appLoop # Off
      /\ UNCHANGED <<config, phase, windowLoop, handledWindows, starts>>
  BY <1>1, LoopShapes DEF AppStep, Scan, HandleApp, Handled, CloseProcess, CloseProcessFails,
                          Apart, handled
<1>3. CASE Scan \/ Handled
  <2>1. /\ UNCHANGED <<process, launched, front, handledPIDs, attempts>>
        /\ appLoop' \in AppLoop /\ appLoop'.step # "close"
    <3>1. CASE Scan
      <4> DEFINE todo == {<<p, launched[process[p]].app>> : p \in {q \in Pids : process[q] # None}}
      <4>1. appLoop' = [step |-> "handle", todo |-> todo]
            /\ UNCHANGED <<process, launched, front, handledPIDs, attempts>>
        BY <3>1 DEF Scan, Apart
      <4>2. ASSUME NEW p \in Pids, process[p] # None PROVE launched[process[p]].app \in Apps
        <5>1. process[p] \in 1 .. Len(launched)
          BY <1>1, <4>2 DEF TypeOK, DeviceKnown, Launches, None
        <5>2. launched[process[p]] \in [app : Apps, title : Titles]
          BY <1>1, <5>1, ElementOfSeq
        <5> QED
          BY <5>2
      <4>3. todo \in SUBSET (Pids \X Apps)
        BY <4>2
      <4> QED
        BY <4>1, <4>3 DEF AppLoop
    <3>2. CASE Handled
      BY <1>1, <3>2, LoopShapes DEF Handled, Apart
    <3> QED
      BY <1>3, <3>1, <3>2
  <2>2. TypeOK' /\ DeviceKnown'
    BY <1>1, <1>2, <2>1 DEF TypeOK, DeviceKnown, Running
  <2>3. AttemptsKnown'
    BY <1>1, <1>2, <2>1 DEF AttemptsKnown, WindowKey
  <2> QED
    BY <1>2, <2>2, <2>3, ActingSound
<1>4. CASE HandleApp
  <2>1. PICK o \in appLoop.todo :
           LET new == o[2] \in BlockedApps /\ o[1] \notin handledPIDs
               rest == appLoop.todo \ {o}
           IN  /\ handledPIDs' = IF new THEN handledPIDs \cup {o[1]} ELSE handledPIDs
               /\ appLoop' = IF new /\ Enforcing
                             THEN [step |-> "close", pid |-> o[1], todo |-> rest]
                             ELSE [step |-> "handle", todo |-> rest]
    BY <1>4 DEF HandleApp
  <2>2. /\ UNCHANGED <<process, launched, front, attempts>>
        /\ appLoop.todo \subseteq Pids \X Apps /\ o[1] \in Pids
        /\ appLoop.todo \ {o} \in SUBSET (Pids \X Apps)
    BY <1>1, <1>4, <2>1, LoopShapes DEF HandleApp, Apart
  <2>3. /\ handledPIDs \subseteq handledPIDs' /\ handledPIDs' \subseteq Pids /\ appLoop' \in AppLoop
        /\ appLoop'.step = "close" =>
              appLoop'.pid \in handledPIDs' /\ appLoop'.pid \notin handledPIDs
              /\ appLoop'.pid \in Pids
    BY <1>1, <2>1, <2>2 DEF AppLoop
  <2>4. TypeOK' /\ DeviceKnown'
    BY <1>1, <1>2, <2>2, <2>3 DEF TypeOK, DeviceKnown, Running
  <2>5. appLoop'.step = "close" => attempts[Target(appLoop'.pid)] = 0
    BY <1>1, <2>3, TargetsApart DEF AttemptsKnown
  <2>6. AttemptsKnown'
    BY <1>1, <1>2, <2>2, <2>3, <2>5 DEF AttemptsKnown, WindowKey
  <2> QED
    BY <1>2, <2>4, <2>6, ActingSound
<1>5. CASE CloseProcess \/ CloseProcessFails
  <2> DEFINE t == Target(appLoop.pid)
  <2>1. /\ appLoop.step = "close" /\ appLoop.pid \in Pids /\ appLoop.todo \subseteq Pids \X Apps
        /\ t \in Targets /\ t \notin Launches \X Pids \X Titles /\ attempts[t] = 0
        /\ appLoop.pid \in handledPIDs
    BY <1>1, <1>5, LoopShapes, TargetsApart DEF CloseProcess, CloseProcessFails, AttemptsKnown
  <2>2. /\ appLoop' \in AppLoop /\ appLoop'.step # "close" /\ UNCHANGED handledPIDs
        /\ attempts' = [attempts EXCEPT ![t] = 1]
    BY <1>1, <1>5, <2>1, LoopShapes
    DEF CloseProcess, CloseProcessFails, Attempt, handled, AppLoop, Wait
  <2>3. /\ attempts' \in [Targets -> {0, 1}]
        /\ \A s \in Targets : attempts'[s] = IF s = t THEN 1 ELSE attempts[s]
    BY <1>1, <2>1, <2>2
  <2>4. /\ process' \in [Pids -> Launches \cup {None}] /\ front' \in Launches \cup {None}
        /\ launched' \in Seq([app : Apps, title : Titles]) /\ DeviceKnown'
    <3>1. CASE CloseProcess
      <4>1. process[appLoop.pid] \in Launches /\ Gone(process[appLoop.pid])
        BY <1>1, <2>1, <3>1 DEF CloseProcess, TypeOK
      <4> QED
        BY <1>1, <4>1, GoneSound
    <3>2. CASE CloseProcessFails
      <4>1. UNCHANGED <<process, launched, front>>
        BY <3>2 DEF CloseProcessFails, Apart
      <4> QED
        BY <1>1, <4>1 DEF TypeOK, DeviceKnown, Running
    <3> QED
      BY <1>5, <3>1, <3>2
  <2>5. TypeOK'
    BY <1>1, <1>2, <2>2, <2>4 DEF TypeOK
  <2>6. AttemptsKnown'
    <3>1. \A p \in Pids : attempts'[Target(p)] = 1 => p \in handledPIDs
      BY <1>1, <2>1, <2>3, TargetsApart DEF AttemptsKnown
    <3>2. \A k \in Launches \X Pids \X Titles : attempts'[k] = attempts[k]
      BY <2>1, <2>3, TargetsApart
    <3>3. windowLoop.step = "close" => WindowKey \in handledWindows /\ attempts'[WindowKey] = 0
      BY <1>1, <3>2, LoopShapes DEF AttemptsKnown
    <3> QED
      BY <1>1, <1>2, <2>2, <2>3, <3>1, <3>2, <3>3 DEF AttemptsKnown, WindowKey
  <2> QED
    BY <1>2, <2>4, <2>5, <2>6, ActingSound
<1> QED
  BY <1>3, <1>4, <1>5 DEF AppStep

\* So does the window loop.
LEMMA WindowSound ==
    ASSUME EnforcementSound, WindowStep
    PROVE  EnforcementSound'
<1>1. /\ TypeOK /\ DeviceKnown /\ AttemptsKnown /\ attempts \in [Targets -> {0, 1}]
      /\ handledPIDs \subseteq Pids /\ handledWindows \subseteq Launches \X Pids \X Titles
      /\ launched \in Seq([app : Apps, title : Titles])
  BY DEF EnforcementSound, TypeOK, AttemptsKnown
<1>2. /\ windowLoop # Off /\ UNCHANGED <<config, phase, appLoop, handledPIDs, starts>>
  BY <1>1, LoopShapes DEF WindowStep, Observe, CloseWindow, CloseWindowFails, Beside
<1>3. CASE Observe
  <2> DEFINE key == Key(front, PidOf(front), launched[front].title)
  <2>1. key \in Launches \X Pids \X Titles
    <3>1. front \in Launches /\ Running(front)
      BY <1>1, <1>3 DEF Observe, TypeOK, DeviceKnown
    <3>2. PidOf(front) \in Pids /\ process[PidOf(front)] = front
      BY <3>1 DEF Running, PidOf
    <3>3. front \in 1 .. Len(launched)
      BY <1>1, <3>1, <3>2 DEF TypeOK, DeviceKnown, Launches
    <3>4. launched[front].title \in Titles
      <4>1. launched[front] \in [app : Apps, title : Titles]
        BY <1>1, <3>3, ElementOfSeq
      <4> QED
        BY <4>1
    <3> QED
      BY <3>1, <3>2, <3>4 DEF Key
  <2>2. PICK new \in BOOLEAN :
           /\ new => key \notin handledWindows
           /\ handledWindows' = IF new THEN handledWindows \cup {key} ELSE handledWindows
           /\ windowLoop' = IF new /\ Enforcing
                            THEN [step |-> "close", id |-> key[1], pid |-> key[2], title |-> key[3]]
                            ELSE Wait
           /\ UNCHANGED <<device, attempts>>
    <3> DEFINE blocked == BlockedWindow(front) /\ key \notin handledWindows
    <3>1. /\ handledWindows' = IF blocked THEN handledWindows \cup {key} ELSE handledWindows
          /\ windowLoop' = IF blocked /\ Enforcing
                           THEN [step |-> "close", id |-> key[1], pid |-> key[2], title |-> key[3]]
                           ELSE Wait
          /\ UNCHANGED <<device, attempts>>
      BY <1>3 DEF Observe
    <3> HIDE DEF key
    <3>2. CASE blocked
      BY <3>1, <3>2
    <3>3. CASE ~blocked
      BY <3>1, <3>3
    <3> QED
      BY <3>2, <3>3
  <2> HIDE DEF key
  <2>3. key[1] \in Launches /\ key[2] \in Pids /\ key[3] \in Titles
        /\ key = <<key[1], key[2], key[3]>>
    BY <2>1
  <2>4. /\ handledWindows \subseteq handledWindows' /\ windowLoop' \in WindowLoop
        /\ handledWindows' \subseteq Launches \X Pids \X Titles
    BY <1>1, <2>1, <2>2, <2>3 DEF WindowLoop
  <2>5. windowLoop'.step = "close" => /\ WindowKey' = key /\ key \in handledWindows'
                                     /\ attempts[key] = 0
    <3>1. windowLoop'.step = "close" => /\ key \in handledWindows' /\ key \notin handledWindows
                                       /\ windowLoop' = [step |-> "close", id |-> key[1],
                                                         pid |-> key[2], title |-> key[3]]
      BY <2>2 DEF Wait
    <3>2. key \notin handledWindows => attempts[key] = 0
      BY <1>1, <2>1, TargetsApart DEF AttemptsKnown
    <3> QED
      BY <2>3, <3>1, <3>2 DEF WindowKey, Key
  <2>6. TypeOK' /\ DeviceKnown'
    BY <1>1, <1>2, <2>2, <2>4 DEF device, TypeOK, DeviceKnown, Running
  <2>7. AttemptsKnown'
    BY <1>1, <1>2, <2>2, <2>4, <2>5 DEF AttemptsKnown
  <2> QED
    BY <1>2, <2>6, <2>7, ActingSound
<1>4. CASE CloseWindow \/ CloseWindowFails
  <2> DEFINE k == WindowKey
  <2>1. /\ windowLoop.id \in Launches /\ k \in Launches \X Pids \X Titles /\ k \in Targets
        /\ attempts[k] = 0 /\ k \in handledWindows /\ \A p \in Pids : Target(p) # k
    BY <1>1, <1>4, LoopShapes, TargetsApart DEF CloseWindow, CloseWindowFails, AttemptsKnown
  <2>2. /\ windowLoop' = Wait /\ UNCHANGED handledWindows
        /\ attempts' = [attempts EXCEPT ![k] = 1]
    BY <1>1, <1>4, <2>1 DEF CloseWindow, CloseWindowFails, Attempt
  <2>3. /\ attempts' \in [Targets -> {0, 1}]
        /\ \A s \in Targets : attempts'[s] = IF s = k THEN 1 ELSE attempts[s]
    BY <1>1, <2>1, <2>2
  <2>4. Gone(windowLoop.id) \/ UNCHANGED device
    BY <1>4 DEF CloseWindow, CloseWindowFails
  <2>5. /\ process' \in [Pids -> Launches \cup {None}] /\ front' \in Launches \cup {None}
        /\ launched' \in Seq([app : Apps, title : Titles]) /\ DeviceKnown'
    BY <1>1, <2>1, <2>4, GoneSound
  <2>6. TypeOK'
    BY <1>1, <1>2, <2>2, <2>5, LoopShapes DEF TypeOK
  <2>7. AttemptsKnown'
    <3>1. \A p \in Pids : attempts'[Target(p)] = attempts[Target(p)]
      BY <2>1, <2>3, TargetsApart
    <3>2. \A s \in Launches \X Pids \X Titles : attempts'[s] = 1 => s \in handledWindows
      BY <1>1, <2>1, <2>3, TargetsApart DEF AttemptsKnown
    <3>3. windowLoop'.step # "close"
      BY <2>2 DEF Wait
    <3>4. appLoop.step = "close" => attempts'[Target(appLoop.pid)] = 0
      BY <1>1, <3>1, LoopShapes DEF AttemptsKnown
    <3> QED
      BY <1>1, <1>2, <2>2, <2>3, <3>1, <3>2, <3>3, <3>4 DEF AttemptsKnown
  <2> QED
    BY <1>2, <2>5, <2>6, <2>7, ActingSound
<1> QED
  BY <1>3, <1>4 DEF WindowStep

\* Every step keeps the invariant ...
LEMMA EnforcementStepSound == EnforcementSound /\ [Next]_vars => EnforcementSound'
<1> SUFFICES ASSUME EnforcementSound, [Next]_vars
             PROVE  EnforcementSound'
  OBVIOUS
<1>1. CASE UNCHANGED vars
  BY <1>1 DEF vars, device, handled, EnforcementSound, TypeOK, DeviceKnown, Running, AttemptsKnown,
              WindowKey, LoopsStopped
<1>2. ASSUME NEW p \in Pids,
             \/ \E a \in Apps, t \in Titles : Launch(p, a, t)
             \/ Exit(p) \/ BringToFront(p) \/ \E t \in Titles : Retitle(p, t)
      PROVE  EnforcementSound'
  BY <1>2, DeviceSound DEF Launch, Exit, BringToFront, Retitle
<1> QED
  BY <1>1, <1>2, LifeSound, AppSound, WindowSound DEF Next

\* ... which therefore always holds.
LEMMA EnforcementIsSound == Spec => []EnforcementSound
BY EnforcementInitSound, EnforcementStepSound, PTL DEF Spec

\* Between a start and a stop a target is closed once at most, and no loop is
\* at work once Stop has returned (ActsOnce): what is acted on has been noted
\* before, and Stop waits for the loops.
THEOREM TargetsAreActedOnOnce == Spec => []ActsOnce
<1>1. EnforcementSound => ActsOnce
  <2> SUFFICES ASSUME EnforcementSound PROVE ActsOnce
    OBVIOUS
  <2>1. ASSUME NEW t \in Targets PROVE attempts[t] <= 1
    <3>1. attempts[t] \in {0, 1}
      BY DEF EnforcementSound, AttemptsKnown
    <3> QED
      BY <3>1
  <2> QED
    BY <2>1 DEF ActsOnce, EnforcementSound, LoopsStopped
<1> QED
  BY <1>1, EnforcementIsSound, PTL

\* Types of the three parts; and the module never runs with an activation of a
\* browser profile that it has ended (TypesOK).
THEOREM KidControlTypes == ProfilesSpec /\ MonitorSpec /\ Spec => []TypesOK
<1>1. ProfilesSound /\ MonitorSound /\ EnforcementSound => TypesOK
  BY DEF ProfilesSound, MonitorSound, EnforcementSound, TypesOK
<1> QED
  BY <1>1, ProfilesAreSound, MonitorIsSound, EnforcementIsSound, PTL
=============================================================================
