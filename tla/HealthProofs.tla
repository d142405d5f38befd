----------------------------- MODULE HealthProofs -----------------------------
(***************************************************************************)
(* Theorems about HealthMonitor, for every fleet, policy and bound.        *)
(***************************************************************************)
EXTENDS HealthMonitor, TLAPS

USE HealthAssumption, NoOneAssumption

\* A recovery task has a device, and sleeps only before an attempt that is left.
EpisodesTyped ==
    /\ \A e \in Episodes : episode[e].pc # "free" => episode[e].dev \in Devices
    /\ \A e \in Episodes : episode[e].pc = "sleep" => episode[e].attempt < RecoveryAttempts

\* The types, without the order of resumption.
StateTyped == RegistryTypeOK /\ LoopTypeOK /\ CountTypeOK /\ EpisodeTypeOK
                /\ OutsideTypeOK /\ EpisodesTyped

Typed == TypeOK /\ EpisodesTyped

-----------------------------------------------------------------------------
\* The pieces of the handlers.

\* Counting up to a bound stays within it.
LEMMA UpToType ==
    ASSUME NEW b \in Nat, NEW n \in Nat
    PROVE  UpTo(b, n) \in 0..b
  BY DEF UpTo

\* A refresh leaves the leases alone, keeps what is out of service out of service,
\* and forgets no device.
LEMMA PollEffect ==
    ASSUME RegistryTypeOK, Poll
    PROVE  /\ RegistryTypeOK'
           /\ leases' = leases
           /\ \A d \in Devices : devState[d] # "ABSENT" => devState'[d] # "ABSENT"
           /\ \A d \in Devices, s \in {"QUARANTINED", "RETIRED"} :
                 devState'[d] = s <=> devState[d] = s
  <1>1. \E reported, usable : Refresh(reported, usable)
    BY DEF Poll
  <1>2. PICK reported, usable : Refresh(reported, usable)
    BY <1>1
  <1>3. /\ leases' = leases /\ asleep' = {}
        /\ devState' = [d \in Devices |->
              IF devState[d] \in {"QUARANTINED", "RETIRED"} THEN devState[d]
              ELSE IF d \in usable THEN "ONLINE"
              ELSE IF d \in reported \/ devState[d] = "ONLINE" THEN "OFFLINE"
              ELSE devState[d]]
    BY <1>2 DEF Refresh, NotifyAll
  <1>4. \A d \in Devices : devState'[d] \in DeviceStates
    BY <1>3 DEF RegistryTypeOK, DeviceStates, TableStates
  <1> QED
    BY <1>3, <1>4 DEF RegistryTypeOK

\* set_state() on a known device puts it, and no other, in the state.
LEMMA ForceEffect ==
    ASSUME RegistryTypeOK, event \in [Devices -> {"none", "quarantined", "failed", "restored", "retired"}],
           NEW d \in Devices, NEW s \in TableStates,
           NEW k \in {"quarantined", "restored", "retired"}, Transition(d, s, k)
    PROVE  /\ RegistryTypeOK' /\ leases' = leases
           /\ event' \in [Devices -> {"none", "quarantined", "failed", "restored", "retired"}]
           /\ event' = [event EXCEPT ![d] = k]
           /\ devState' = IF devState[d] = "ABSENT" THEN devState ELSE [devState EXCEPT ![d] = s]
  BY DEF Transition, SetState, NotifyAll, RegistryTypeOK, DeviceStates, TableStates

\* A recovery task that moves on keeps its device; nobody else moves.
LEMMA GotoEffect ==
    ASSUME EpisodeTypeOK, EpisodesTyped, NEW e \in Episodes,
           NEW p \in EpisodeStates \ {"free"}, Goto(e, p), episode[e].dev \in Devices,
           p = "sleep" => episode[e].attempt < RecoveryAttempts
    PROVE  /\ episode' \in [Episodes -> EpisodeRecords] /\ EpisodesTyped'
           /\ episode'[e].dev = episode[e].dev /\ episode'[e].pc = p
           /\ \A f \in Episodes \ {e} : episode'[f] = episode[f]
  <1>1. episode[e] \in EpisodeRecords
    BY DEF EpisodeTypeOK
  <1> DEFINE moved == [dev |-> episode[e].dev, pc |-> p,
                       attempt |-> IF p \in {"restore", "retire", "done"} THEN 1 ELSE episode[e].attempt]
  <1>2. episode' = [episode EXCEPT ![e] = moved]
    BY <1>1 DEF Goto, EpisodeTypeOK, EpisodeRecords
  <1>3. moved \in EpisodeRecords
    BY <1>1 DEF EpisodeRecords
  <1>4. p = "sleep" => moved.attempt < RecoveryAttempts
    OBVIOUS
  <1>5. moved.dev = episode[e].dev /\ moved.pc = p
    OBVIOUS
  <1> HIDE DEF moved
  <1> QED
    BY <1>2, <1>3, <1>4, <1>5 DEF EpisodeTypeOK, EpisodesTyped

\* The top of the attempt loop either tries the device again or ends the episode.
LEMMA AttemptEffect ==
    ASSUME EpisodeTypeOK, EpisodesTyped, NEW e \in Episodes, NEW n \in 1..RecoveryAttempts,
           Attempt(e, n), episode[e].dev \in Devices
    PROVE  /\ episode' \in [Episodes -> EpisodeRecords] /\ EpisodesTyped'
           /\ episode'[e].dev = episode[e].dev /\ episode'[e].pc \in {"reconnect", "done"}
           /\ \A f \in Episodes \ {e} : episode'[f] = episode[f]
  <1>1. CASE devState[episode[e].dev] = "QUARANTINED"
    <2>1. episode[e] \in EpisodeRecords
      BY DEF EpisodeTypeOK
    <2> DEFINE moved == [dev |-> episode[e].dev, pc |-> "reconnect", attempt |-> n]
    <2>2. episode' = [episode EXCEPT ![e] = moved]
      BY <1>1, <2>1 DEF Attempt, EpisodeTypeOK, EpisodeRecords
    <2>3. moved \in EpisodeRecords
      BY <2>1 DEF EpisodeRecords, EpisodeStates
    <2>4. moved.dev = episode[e].dev /\ moved.pc = "reconnect"
      OBVIOUS
    <2> HIDE DEF moved
    <2> QED
      BY <2>2, <2>3, <2>4 DEF EpisodeTypeOK, EpisodesTyped
  <1>2. CASE devState[episode[e].dev] # "QUARANTINED"
    BY <1>2, GotoEffect DEF Attempt, EpisodeStates
  <1> QED BY <1>1, <1>2

\* A failed attempt sleeps or ends the episode; a verdict is only announced for a
\* device in quarantine.
LEMMA AttemptFailsEffect ==
    ASSUME EpisodeTypeOK, EpisodesTyped, CountTypeOK, OutsideTypeOK, NEW e \in Episodes,
           AttemptFails(e), episode[e].dev \in Devices
    PROVE  /\ episode' \in [Episodes -> EpisodeRecords] /\ EpisodesTyped'
           /\ episode'[e].dev = episode[e].dev /\ episode'[e].pc \in {"sleep", "done"}
           /\ \A f \in Episodes \ {e} : episode'[f] = episode[f]
           /\ backoff' \in [Devices -> BOOLEAN]
           /\ event' = event \/ /\ devState[episode[e].dev] = "QUARANTINED"
                                /\ event' = [event EXCEPT ![episode[e].dev] = "failed"]
  <1>1. CASE episode[e].attempt < RecoveryAttempts
    BY <1>1, GotoEffect DEF AttemptFails, EpisodeStates, CountTypeOK
  <1>2. CASE ~(episode[e].attempt < RecoveryAttempts)
    <2>1. Goto(e, "done")
      BY <1>2 DEF AttemptFails
    <2>2. \/ backoff' = backoff /\ event' = event
          \/ /\ devState[episode[e].dev] = "QUARANTINED"
             /\ backoff' = [backoff EXCEPT ![episode[e].dev] = TRUE]
             /\ event' = [event EXCEPT ![episode[e].dev] = "failed"]
      BY <1>2 DEF AttemptFails
    <2>3. backoff' \in [Devices -> BOOLEAN]
      BY <2>2 DEF CountTypeOK
    <2> QED
      BY <2>1, <2>2, <2>3, GotoEffect DEF EpisodeStates
  <1> QED BY <1>1, <1>2

\* A spawned recovery takes a free task and registers it, or nothing happens.
LEMMA SpawnEffect ==
    ASSUME EpisodeTypeOK, EpisodesTyped, NEW d \in Devices, Spawn(d)
    PROVE  /\ episode' \in [Episodes -> EpisodeRecords] /\ EpisodesTyped'
           /\ registered' \in [Devices -> Episodes \cup {NoEpisode}]
           /\ \/ UNCHANGED episodeVars
              \/ \E e \in Episodes :
                    /\ episode[e].pc = "free"
                    /\ episode'[e].dev = d /\ episode'[e].pc = "created"
                    /\ \A f \in Episodes \ {e} : episode'[f] = episode[f]
                    /\ registered' = [registered EXCEPT ![d] = e]
  <1>1. CASE UNCHANGED episodeVars
    BY <1>1 DEF EpisodeTypeOK, EpisodesTyped, episodeVars
  <1>2. CASE ~UNCHANGED episodeVars
    <2> DEFINE new == [dev |-> d, pc |-> "created", attempt |-> 1]
    <2>1. PICK e \in Episodes :
             /\ episode[e].pc = "free"
             /\ episode' = [episode EXCEPT ![e] = new]
             /\ registered' = [registered EXCEPT ![d] = e]
      BY <1>2 DEF Spawn
    <2>2. new \in EpisodeRecords
      BY DEF EpisodeRecords, EpisodeStates
    <2>3. new.dev = d /\ new.pc = "created"
      OBVIOUS
    <2> HIDE DEF new
    <2> QED
      BY <2>1, <2>2, <2>3 DEF EpisodeTypeOK, EpisodesTyped
  <1> QED BY <1>1, <1>2

\* A probe that answered, or did not, keeps counts, checks and episodes typed.
LEMMA HealthyType ==
    ASSUME StateTyped, NEW d \in Devices, Healthy(d)
    PROVE  /\ CountTypeOK' /\ check' \in [Devices -> CheckStates]
           /\ UNCHANGED episodeVars
  <1>1. failures' \in [Devices -> 0..FailuresToQuarantine]
    BY DEF StateTyped, CountTypeOK, Healthy
  <1>2. backoff' \in [Devices -> BOOLEAN]
    BY DEF StateTyped, CountTypeOK, Healthy, BeginRestore
  <1>3. check' \in [Devices -> CheckStates]
    BY DEF StateTyped, LoopTypeOK, CheckStates, Healthy
  <1> QED
    BY <1>1, <1>2, <1>3 DEF StateTyped, CountTypeOK, Healthy

LEMMA SickType ==
    ASSUME StateTyped, NEW d \in Devices, Sick(d)
    PROVE  /\ CountTypeOK' /\ check' \in [Devices -> CheckStates]
           /\ episode' \in [Episodes -> EpisodeRecords] /\ EpisodesTyped'
           /\ registered' \in [Devices -> Episodes \cup {NoEpisode}]
  <1>1. failures[d] + 1 \in Nat
    BY DEF StateTyped, CountTypeOK
  <1>2. UpTo(FailuresToQuarantine, failures[d] + 1) \in 0..FailuresToQuarantine
    BY <1>1, UpToType
  <1>3. CountTypeOK'
    BY <1>2 DEF Sick, StateTyped, CountTypeOK
  <1>4. check' \in [Devices -> CheckStates]
    BY DEF Sick, StateTyped, LoopTypeOK, CheckStates
  <1>5. Spawn(d) \/ UNCHANGED episodeVars
    BY DEF Sick
  <1>6. /\ episode' \in [Episodes -> EpisodeRecords] /\ EpisodesTyped'
        /\ registered' \in [Devices -> Episodes \cup {NoEpisode}]
    BY <1>5, SpawnEffect DEF StateTyped, EpisodeTypeOK, EpisodesTyped, episodeVars
  <1> QED BY <1>3, <1>4, <1>6

\* quarantine() keeps registry, feed and episodes typed.
LEMMA QuarantineType ==
    ASSUME StateTyped, NEW d \in Devices, Quarantine(d)
    PROVE  /\ RegistryTypeOK'
           /\ event' \in [Devices -> {"none", "quarantined", "failed", "restored", "retired"}]
           /\ episode' \in [Episodes -> EpisodeRecords] /\ EpisodesTyped'
           /\ registered' \in [Devices -> Episodes \cup {NoEpisode}]
  BY ForceEffect, SpawnEffect DEF Quarantine, StateTyped, OutsideTypeOK, TableStates

-----------------------------------------------------------------------------
\* Type correctness.

\* The initial state is typed.
LEMMA TypedInit == Init => Typed
  <1> SUFFICES ASSUME Init PROVE Typed
    OBVIOUS
  <1>1. RegistryTypeOK
    BY DEF Init, RegistryInit, RegistryTypeOK, DeviceStates, TableStates
  <1>2. LoopTypeOK /\ CountTypeOK /\ OutsideTypeOK /\ OrderTypeOK
    BY DEF Init, LoopTypeOK, CountTypeOK, OutsideTypeOK, OrderTypeOK, CheckStates
  <1>3. EpisodeTypeOK /\ EpisodesTyped
    BY DEF Init, EpisodeTypeOK, EpisodesTyped, EpisodeRecords, EpisodeStates, FreeEpisode,
       NoEpisode
  <1> QED BY <1>1, <1>2, <1>3 DEF Typed, TypeOK

\* Every action keeps the order of resumption.
LEMMA StepInOrder == Next => InOrder
  <1> SUFFICES ASSUME Next PROVE InOrder
    OBVIOUS
  <1>1. ASSUME NEW d \in Devices, Check(d) PROVE InOrder
    BY <1>1 DEF Check, CheckBegins, CheckPinged, CheckRestores, CheckMarks
  <1>2. ASSUME NEW e \in Episodes, Episode(e) \/ StopCancels(e) PROVE InOrder
    BY <1>2 DEF Episode, StopCancels, EpisodeBegins, EpisodeReconnects, EpisodePinged,
       EpisodeWakes, EpisodeRestores, EpisodeRetires, EpisodeCallback
  <1>3. ASSUME NEW w \in Workers, NEW d \in Devices,
               CallerMarks(w, d) \/ CallerReleases(w, d) \/ CallerLeases(w, d) \/ CallerBlames(w, d)
        PROVE  InOrder
    BY <1>3 DEF CallerMarks, CallerReleases, CallerLeases, CallerBlames
  <1>4. ASSUME NEW d \in Devices, DeviceFlips(d) \/ WindowSlides(d) \/ BackoffEnds(d)
        PROVE  InOrder
    BY <1>4 DEF DeviceFlips, WindowSlides, BackoffEnds
  <1>5. CASE Start \/ LoopSweeps \/ LoopPollFails \/ LoopSleeps \/ LoopWakes
    BY <1>5 DEF Start, LoopSweeps, LoopPollFails, LoopSleeps, LoopWakes
  <1>6. CASE Stop \/ StopReturns \/ ApiRefresh
    BY <1>6 DEF Stop, StopReturns, ApiRefresh
  <1> QED
    BY <1>1, <1>2, <1>3, <1>4, <1>5, <1>6 DEF Next, Ends

\* ... so it always orders coroutines that are suspended.
LEMMA OrderNext == OrderTypeOK /\ [Next]_vars => OrderTypeOK'
  <1> SUFFICES ASSUME OrderTypeOK, [Next]_vars PROVE OrderTypeOK'
    OBVIOUS
  <1>1. CASE Next
    <2>1. InOrder
      BY <1>1, StepInOrder
    <2>2. CASE ~Ordered
      BY <2>1, <2>2 DEF InOrder, OrderTypeOK
    <2>3. CASE Ordered
      <3> DEFINE behind == (Ready \X (Ready' \ Suspended)) \cup ((Ready \cup Ready') \X (Slow' \ Suspended))
                 later == Lockers \X ((Lockers \cup Slow)' \ Suspended)
      <3>1. before' = {p \in before \cup behind \cup later : p[1] \in Suspended' /\ p[2] \in Suspended'}
        BY <2>1, <2>3 DEF InOrder
      <3>2. \A p \in before \cup behind \cup later : p = <<p[1], p[2]>>
        BY DEF OrderTypeOK
      <3> HIDE DEF behind, later
      <3>3. before' \subseteq Suspended' \X Suspended'
        BY <3>1, <3>2
      <3> QED BY <3>3, <2>3 DEF OrderTypeOK
    <2> QED BY <2>2, <2>3
  <1>2. CASE UNCHANGED vars
    <2>1. Suspended' = Suspended /\ before' = before
      BY <1>2 DEF vars, Suspended, Ready, Slow, Lockers, loopVars, countVars, episodeVars
    <2> QED BY <2>1 DEF OrderTypeOK
  <1> QED BY <1>1, <1>2

\* What the actions that leave registry, counts and episodes alone have in common.
LEMMA FrameTyped ==
    ASSUME StateTyped, UNCHANGED <<registryVars, countVars, episodeVars>>,
           LoopTypeOK', OutsideTypeOK', cancelling' \subseteq Episodes
    PROVE  StateTyped'
  BY DEF StateTyped, RegistryTypeOK, CountTypeOK, EpisodeTypeOK, EpisodesTyped,
     registryVars, countVars, episodeVars

\* A step of a sweep.
LEMMA CheckTyped ==
    ASSUME StateTyped, NEW d \in Devices, Check(d)
    PROVE  StateTyped'
  <1>1. ASSUME CountTypeOK', check' \in [Devices -> CheckStates],
               episode' \in [Episodes -> EpisodeRecords], EpisodesTyped',
               registered' \in [Devices -> Episodes \cup {NoEpisode}],
               RegistryTypeOK',
               event' \in [Devices -> {"none", "quarantined", "failed", "restored", "retired"}],
               UNCHANGED <<virtual, answers, phase, loop, cancelling, caller, boundVars>>
        PROVE  StateTyped'
    BY <1>1 DEF StateTyped, LoopTypeOK, EpisodeTypeOK, OutsideTypeOK, boundVars
  <1>2. UNCHANGED registryVars => RegistryTypeOK'
    BY DEF StateTyped, RegistryTypeOK, registryVars
  <1>3. UNCHANGED countVars => CountTypeOK'
    BY DEF StateTyped, CountTypeOK, countVars
  <1>4. UNCHANGED episodeVars =>
            /\ episode' \in [Episodes -> EpisodeRecords] /\ EpisodesTyped'
            /\ registered' \in [Devices -> Episodes \cup {NoEpisode}]
    BY DEF StateTyped, EpisodeTypeOK, EpisodesTyped, episodeVars
  <1>5. \A s \in CheckStates : check' = [check EXCEPT ![d] = s] =>
            check' \in [Devices -> CheckStates]
    BY DEF StateTyped, LoopTypeOK
  <1>6. event \in [Devices -> {"none", "quarantined", "failed", "restored", "retired"}]
    BY DEF StateTyped, OutsideTypeOK
  <1>7. CASE CheckBegins(d)
    <2>1. \/ Healthy(d)
          \/ /\ UNCHANGED <<countVars, episodeVars>>
             /\ \E s \in {"none", "probe"} : check' = [check EXCEPT ![d] = s]
      BY <1>7 DEF CheckBegins
    <2> QED
      BY <1>1, <1>2, <1>3, <1>4, <1>5, <1>6, <1>7, <2>1, HealthyType DEF CheckBegins, CheckStates
  <1>8. CASE CheckPinged(d)
    BY <1>1, <1>2, <1>4, <1>6, <1>8, HealthyType, SickType DEF CheckPinged
  <1>9. CASE CheckRestores(d)
    <2>1. RegistryTypeOK' /\ event' \in [Devices -> {"none", "quarantined", "failed", "restored", "retired"}]
      BY <1>6, <1>9, ForceEffect DEF CheckRestores, StateTyped, TableStates
    <2> QED
      BY <1>1, <1>3, <1>4, <1>5, <1>9, <2>1 DEF CheckRestores, CheckStates
  <1>10. CASE CheckMarks(d)
    BY <1>1, <1>3, <1>5, <1>10, QuarantineType DEF CheckMarks, CheckStates
  <1> QED BY <1>7, <1>8, <1>9, <1>10 DEF Check

\* A step of a recovery episode.
LEMMA EpisodeTyped ==
    ASSUME StateTyped, NEW e \in Episodes, Episode(e)
    PROVE  StateTyped'
  <1> DEFINE d == episode[e].dev
  <1>0. d \in Devices
    BY DEF StateTyped, EpisodesTyped, Episode, EpisodeBegins, EpisodeReconnects, EpisodePinged,
       EpisodeWakes, EpisodeRestores, EpisodeRetires, EpisodeCallback
  <1>1. ASSUME CountTypeOK', episode' \in [Episodes -> EpisodeRecords], EpisodesTyped',
               registered' \in [Devices -> Episodes \cup {NoEpisode}],
               RegistryTypeOK',
               event' \in [Devices -> {"none", "quarantined", "failed", "restored", "retired"}],
               UNCHANGED <<virtual, answers, loopVars, cancelling, caller, boundVars>>
        PROVE  StateTyped'
    BY <1>1 DEF StateTyped, LoopTypeOK, EpisodeTypeOK, OutsideTypeOK, loopVars, boundVars
  <1>2. UNCHANGED registryVars => RegistryTypeOK'
    BY DEF StateTyped, RegistryTypeOK, registryVars
  <1>3. UNCHANGED countVars => CountTypeOK'
    BY DEF StateTyped, CountTypeOK, countVars
  <1>4. UNCHANGED registered => registered' \in [Devices -> Episodes \cup {NoEpisode}]
    BY DEF StateTyped, EpisodeTypeOK
  <1>5. event \in [Devices -> {"none", "quarantined", "failed", "restored", "retired"}]
    BY DEF StateTyped, OutsideTypeOK
  <1>6. ASSUME AttemptFails(e), UNCHANGED <<failures, recent, recoveries>>
        PROVE  /\ CountTypeOK' /\ episode' \in [Episodes -> EpisodeRecords] /\ EpisodesTyped'
               /\ event' \in [Devices -> {"none", "quarantined", "failed", "restored", "retired"}]
    BY <1>0, <1>5, <1>6, AttemptFailsEffect DEF StateTyped, CountTypeOK
  <1>7. CASE EpisodeBegins(e)
    <2>1. \/ Goto(e, "retire") /\ UNCHANGED backoff
          \/ Goto(e, "restore") /\ BeginRestore(d)
          \/ Attempt(e, 1) /\ UNCHANGED backoff
      BY <1>7 DEF EpisodeBegins
    <2>2. backoff' \in [Devices -> BOOLEAN]
      BY <2>1 DEF BeginRestore, StateTyped, CountTypeOK
    <2>3. CountTypeOK'
      BY <1>7, <2>2 DEF EpisodeBegins, StateTyped, CountTypeOK
    <2>4. episode' \in [Episodes -> EpisodeRecords] /\ EpisodesTyped'
      BY <1>0, <2>1, GotoEffect, AttemptEffect DEF StateTyped, EpisodeStates
    <2> QED
      BY <1>1, <1>2, <1>4, <1>5, <1>7, <2>3, <2>4 DEF EpisodeBegins
  <1>8. CASE EpisodeReconnects(e)
    <2>1. CASE Goto(e, "probe") /\ UNCHANGED <<backoff, event>>
      <3>1. episode' \in [Episodes -> EpisodeRecords] /\ EpisodesTyped'
        BY <1>0, <2>1, GotoEffect DEF StateTyped, EpisodeStates
      <3> QED
        BY <1>1, <1>2, <1>3, <1>4, <1>5, <1>8, <2>1, <3>1 DEF EpisodeReconnects, countVars
    <2>2. CASE AttemptFails(e)
      BY <1>1, <1>2, <1>4, <1>6, <1>8, <2>2 DEF EpisodeReconnects
    <2> QED BY <1>8, <2>1, <2>2 DEF EpisodeReconnects
  <1>9. CASE EpisodePinged(e)
    <2>1. CASE PingFails(d) /\ AttemptFails(e) /\ UNCHANGED <<failures, recent, recoveries>>
      BY <1>1, <1>2, <1>4, <1>6, <1>9, <2>1 DEF EpisodePinged
    <2>2. CASE /\ Pings(d)
               /\ recent' = [recent EXCEPT ![d] = UpTo(RetireAfter, @ + 1)]
               /\ recoveries' = [recoveries EXCEPT ![d] = UpTo(RetireAfter, @ + 1)]
               /\ failures' = [failures EXCEPT ![d] = 0]
               /\ BeginRestore(d)
               /\ Goto(e, "restore")
               /\ UNCHANGED event
      <3>1. recent[d] + 1 \in Nat /\ recoveries[d] + 1 \in Nat
        BY <1>0 DEF StateTyped, CountTypeOK
      <3>2. /\ UpTo(RetireAfter, recent[d] + 1) \in 0..RetireAfter
            /\ UpTo(RetireAfter, recoveries[d] + 1) \in 0..RetireAfter
        BY <3>1, UpToType
      <3>3. CountTypeOK'
        <4>1. recent' \in [Devices -> 0..RetireAfter] /\ recoveries' \in [Devices -> 0..RetireAfter]
          BY <2>2, <3>2 DEF StateTyped, CountTypeOK
        <4>2. failures' \in [Devices -> 0..FailuresToQuarantine]
          <5>1. failures' = [failures EXCEPT ![d] = 0]
            BY <2>2
          <5>2. failures \in [Devices -> 0..FailuresToQuarantine]
            BY DEF StateTyped, CountTypeOK
          <5>3. 0 \in 0..FailuresToQuarantine
            OBVIOUS
          <5> QED BY <5>1, <5>2, <5>3
        <4>3. backoff' \in [Devices -> BOOLEAN]
          BY <2>2 DEF StateTyped, CountTypeOK, BeginRestore
        <4> QED BY <4>1, <4>2, <4>3 DEF CountTypeOK
      <3>4. episode' \in [Episodes -> EpisodeRecords] /\ EpisodesTyped'
        BY <1>0, <2>2, GotoEffect DEF StateTyped, EpisodeStates
      <3> QED
        BY <1>1, <1>2, <1>4, <1>5, <1>9, <2>2, <3>3, <3>4 DEF EpisodePinged
    <2> QED BY <1>9, <2>1, <2>2 DEF EpisodePinged
  <1>10. CASE EpisodeWakes(e)
    <2>1. episode[e].pc = "sleep" /\ episode[e] \in EpisodeRecords
      BY <1>10 DEF EpisodeWakes, StateTyped, EpisodeTypeOK
    <2>2. episode[e].attempt + 1 \in 1..RecoveryAttempts
      BY <2>1 DEF StateTyped, EpisodesTyped, EpisodeRecords
    <2>3. episode' \in [Episodes -> EpisodeRecords] /\ EpisodesTyped'
      BY <1>0, <1>10, <2>2, AttemptEffect DEF EpisodeWakes, StateTyped
    <2> QED
      BY <1>1, <1>2, <1>3, <1>4, <1>5, <1>10, <2>3 DEF EpisodeWakes
  <1>11. CASE EpisodeRestores(e) \/ EpisodeRetires(e)
    <2>1. \E s \in TableStates, k \in {"restored", "retired"} : Transition(d, s, k)
      BY <1>11 DEF EpisodeRestores, EpisodeRetires, TableStates
    <2>2. RegistryTypeOK' /\ event' \in [Devices -> {"none", "quarantined", "failed", "restored", "retired"}]
      BY <1>0, <1>5, <2>1, ForceEffect DEF StateTyped
    <2>3. Goto(e, "done")
      BY <1>11 DEF EpisodeRestores, EpisodeRetires
    <2>4. episode' \in [Episodes -> EpisodeRecords] /\ EpisodesTyped'
      BY <1>0, <2>3, GotoEffect DEF StateTyped, EpisodeStates
    <2> QED
      BY <1>1, <1>3, <1>4, <1>11, <2>2, <2>4 DEF EpisodeRestores, EpisodeRetires
  <1>12. CASE EpisodeCallback(e)
    <2>1. FreeEpisode \in EpisodeRecords /\ FreeEpisode.pc = "free"
      BY DEF FreeEpisode, EpisodeRecords, EpisodeStates
    <2>2. episode' = [episode EXCEPT ![e] = FreeEpisode]
      BY <1>12 DEF EpisodeCallback
    <2>3. episode' \in [Episodes -> EpisodeRecords] /\ EpisodesTyped'
      BY <2>1, <2>2 DEF StateTyped, EpisodeTypeOK, EpisodesTyped
    <2>4. registered' \in [Devices -> Episodes \cup {NoEpisode}]
      BY <1>12 DEF EpisodeCallback, StateTyped, EpisodeTypeOK
    <2> QED
      BY <1>1, <1>2, <1>3, <1>5, <1>12, <2>3, <2>4 DEF EpisodeCallback
  <1> QED
    BY <1>7, <1>8, <1>9, <1>10, <1>11, <1>12 DEF Episode

\* Every step keeps the types: the loop, the sweep, the episodes, stop(), the
\* callers, the devices.
LEMMA TypedNext == Typed /\ [Next]_vars => Typed'
  <1> SUFFICES ASSUME Typed, [Next]_vars PROVE StateTyped'
    BY OrderNext DEF Typed, TypeOK, StateTyped
  <1>0. StateTyped
    BY DEF Typed, TypeOK, StateTyped
  <1> DEFINE still == UNCHANGED <<registryVars, countVars, episodeVars>>
  <1>1. ASSUME NEW d \in Devices, Check(d) PROVE StateTyped'
    BY <1>0, <1>1, CheckTyped
  <1>2. ASSUME NEW e \in Episodes, Episode(e) PROVE StateTyped'
    BY <1>0, <1>2, EpisodeTyped
  <1>3. CASE LoopPollFails \/ LoopSleeps \/ LoopWakes \/ Stop
    <2>1. still /\ cancelling' \subseteq Episodes
      BY <1>0, <1>3 DEF LoopPollFails, LoopSleeps, LoopWakes, Stop, StateTyped, EpisodeTypeOK
    <2>2. LoopTypeOK'
      BY <1>0, <1>3 DEF LoopPollFails, LoopSleeps, LoopWakes, Stop, StateTyped, LoopTypeOK,
         CheckStates
    <2>3. OutsideTypeOK'
      BY <1>0, <1>3 DEF LoopPollFails, LoopSleeps, LoopWakes, Stop, StateTyped, OutsideTypeOK,
         boundVars
    <2> QED BY <1>0, <2>1, <2>2, <2>3, FrameTyped
  <1>4. CASE Start \/ LoopSweeps \/ ApiRefresh
    <2>1. RegistryTypeOK'
      BY <1>0, <1>4, PollEffect DEF Start, LoopSweeps, ApiRefresh, StateTyped
    <2>2. LoopTypeOK'
      BY <1>0, <1>4 DEF Start, LoopSweeps, ApiRefresh, StateTyped, LoopTypeOK, CheckStates,
         loopVars
    <2>3. OutsideTypeOK'
      BY <1>0, <1>4 DEF Start, LoopSweeps, ApiRefresh, StateTyped, OutsideTypeOK, boundVars
    <2>4. UNCHANGED <<countVars, episodeVars, cancelling>>
      BY <1>4 DEF Start, LoopSweeps, ApiRefresh
    <2> QED
      BY <1>0, <2>1, <2>2, <2>3, <2>4 DEF StateTyped, CountTypeOK, EpisodeTypeOK,
         EpisodesTyped, countVars, episodeVars
  <1>5. ASSUME NEW e \in Episodes, StopCancels(e) PROVE StateTyped'
    <2>1. episode' \in [Episodes -> EpisodeRecords] /\ EpisodesTyped'
      <3>1. CASE episode[e].pc \in Running
        <4>1. Goto(e, "done") /\ episode[e].dev \in Devices
          BY <1>0, <1>5, <3>1 DEF StopCancels, Running, StateTyped, EpisodesTyped
        <4> QED BY <1>0, <4>1, GotoEffect DEF StateTyped, EpisodeStates
      <3>2. CASE episode[e].pc \notin Running
        BY <1>0, <1>5, <3>2 DEF StopCancels, StateTyped, EpisodeTypeOK, EpisodesTyped
      <3> QED BY <3>1, <3>2
    <2> QED
      BY <1>0, <1>5, <2>1 DEF StopCancels, StateTyped, RegistryTypeOK, LoopTypeOK, CountTypeOK,
         EpisodeTypeOK, OutsideTypeOK, registryVars, loopVars, countVars, boundVars
  <1>6. CASE StopReturns
    BY <1>0, <1>6 DEF StopReturns, StateTyped, RegistryTypeOK, LoopTypeOK, CountTypeOK,
       EpisodeTypeOK, EpisodesTyped, OutsideTypeOK, registryVars, countVars, boundVars
  <1>7. ASSUME NEW w \in Workers, NEW d \in Devices, CallerLeases(w, d) \/ CallerReleases(w, d)
        PROVE  StateTyped'
    <2>1. RegistryTypeOK'
      BY <1>0, <1>7 DEF CallerLeases, CallerReleases, AcquireFree, ReleaseLease, NotifyAll,
         StateTyped, RegistryTypeOK
    <2>2. OutsideTypeOK'
      BY <1>0, <1>7 DEF CallerLeases, CallerReleases, StateTyped, OutsideTypeOK, boundVars
    <2>3. UNCHANGED <<loopVars, countVars, episodeVars, cancelling>>
      BY <1>7 DEF CallerLeases, CallerReleases
    <2> QED
      BY <1>0, <2>1, <2>2, <2>3 DEF StateTyped, LoopTypeOK, CountTypeOK, EpisodeTypeOK,
         EpisodesTyped, loopVars, countVars, episodeVars
  <1>8. ASSUME NEW w \in Workers, NEW d \in Devices, CallerBlames(w, d) PROVE StateTyped'
    <2>1. still /\ UNCHANGED <<loopVars, cancelling>>
      BY <1>8 DEF CallerBlames
    <2>2. LoopTypeOK' /\ cancelling' \subseteq Episodes
      BY <1>0, <2>1 DEF StateTyped, LoopTypeOK, EpisodeTypeOK, loopVars
    <2>3. OutsideTypeOK'
      BY <1>0, <1>8 DEF CallerBlames, StateTyped, OutsideTypeOK, boundVars
    <2> QED BY <1>0, <2>1, <2>2, <2>3, FrameTyped
  <1>9. ASSUME NEW w \in Workers, NEW d \in Devices, CallerMarks(w, d) PROVE StateTyped'
    <2>1. /\ RegistryTypeOK'
          /\ event' \in [Devices -> {"none", "quarantined", "failed", "restored", "retired"}]
          /\ episode' \in [Episodes -> EpisodeRecords] /\ EpisodesTyped'
          /\ registered' \in [Devices -> Episodes \cup {NoEpisode}]
      BY <1>0, <1>9, QuarantineType DEF CallerMarks
    <2> QED
      BY <1>0, <1>9, <2>1 DEF CallerMarks, StateTyped, LoopTypeOK, CountTypeOK, EpisodeTypeOK,
         OutsideTypeOK, loopVars, countVars, boundVars
  <1>10. ASSUME NEW d \in Devices, DeviceFlips(d) PROVE StateTyped'
    <2>1. still /\ UNCHANGED <<loopVars, cancelling>>
      BY <1>10 DEF DeviceFlips
    <2>2. LoopTypeOK' /\ cancelling' \subseteq Episodes
      BY <1>0, <2>1 DEF StateTyped, LoopTypeOK, EpisodeTypeOK, loopVars
    <2>3. OutsideTypeOK'
      BY <1>0, <1>10 DEF DeviceFlips, StateTyped, OutsideTypeOK
    <2> QED BY <1>0, <2>1, <2>2, <2>3, FrameTyped
  <1>11. ASSUME NEW d \in Devices, WindowSlides(d) \/ BackoffEnds(d) PROVE StateTyped'
    <2>1. CountTypeOK'
      <3>1. CASE WindowSlides(d)
        <4>1. recent[d] - 1 \in 0..RetireAfter
          BY <1>0, <3>1 DEF WindowSlides, StateTyped, CountTypeOK
        <4> QED
          BY <1>0, <3>1, <4>1 DEF WindowSlides, StateTyped, CountTypeOK
      <3>2. CASE BackoffEnds(d)
        BY <1>0, <3>2 DEF BackoffEnds, StateTyped, CountTypeOK
      <3> QED BY <1>11, <3>1, <3>2
    <2>2. UNCHANGED <<registryVars, virtual, answers, loopVars, episodeVars, cancelling,
                      caller, event, boundVars>>
      BY <1>11 DEF WindowSlides, BackoffEnds
    <2> QED
      BY <1>0, <2>1, <2>2 DEF StateTyped, RegistryTypeOK, LoopTypeOK, EpisodeTypeOK,
         EpisodesTyped, OutsideTypeOK, registryVars, loopVars, episodeVars, boundVars
  <1>12. CASE UNCHANGED vars
    BY <1>0, <1>12 DEF vars, StateTyped, RegistryTypeOK, LoopTypeOK, CountTypeOK, EpisodeTypeOK,
       EpisodesTyped, OutsideTypeOK, registryVars, loopVars, countVars, episodeVars, boundVars
  <1> QED
    BY <1>1, <1>2, <1>3, <1>4, <1>5, <1>6, <1>7, <1>8, <1>9, <1>10, <1>11, <1>12 DEF Next, Ends

\* The monitor's variables keep their types, for every policy, fleet and bound, and
\* with or without the event loop's order.
THEOREM TypeCorrect == Spec => []TypeOK
  <1>1. Typed => TypeOK
    BY DEF Typed
  <1> QED
    BY <1>1, TypedInit, TypedNext, PTL DEF Spec

-----------------------------------------------------------------------------
\* stop().

\* Sweeps and callers are at work only while the monitor is up, so nothing spawns
\* an episode behind stop()'s back, and it empties the table before it returns.
Phased ==
    /\ phase # "UP" => loop = "off" /\ \A d \in Devices : check[d] = "none"
    /\ phase # "UP" => \A w \in Workers : caller[w] = "out"
    /\ phase = "DOWN" => \A d \in Devices : registered[d] = NoEpisode

LEMMA PhasedNext == Typed /\ Phased /\ [Next]_vars => Phased'
  <1> SUFFICES ASSUME Typed, Phased, [Next]_vars PROVE Phased'
    OBVIOUS
  <1>a. ASSUME phase' = "UP" PROVE Phased'
    BY <1>a DEF Phased
  <1>b. ASSUME UNCHANGED <<loopVars, caller>>,
               \A d \in Devices : registered'[d] \in {registered[d], NoEpisode}
        PROVE  Phased'
    BY <1>b DEF Phased, loopVars
  <1>1. ASSUME NEW d \in Devices, Check(d) PROVE Phased'
    <2>1. check[d] # "none" /\ phase' = phase
      BY <1>1 DEF Check, CheckBegins, CheckPinged, CheckRestores, CheckMarks
    <2> QED BY <1>a, <2>1 DEF Phased
  <1>2. ASSUME NEW e \in Episodes, Episode(e) PROVE Phased'
    <2>1. CASE EpisodeCallback(e)
      <3>1. \A d \in Devices : registered'[d] \in {registered[d], NoEpisode}
        BY <2>1 DEF EpisodeCallback, Typed, TypeOK, EpisodeTypeOK
      <3> QED BY <1>b, <2>1, <3>1 DEF EpisodeCallback
    <2>2. CASE ~EpisodeCallback(e)
      <3>1. UNCHANGED <<loopVars, caller, registered>>
        BY <1>2, <2>2 DEF Episode, EpisodeBegins, EpisodeReconnects, EpisodePinged,
           EpisodeWakes, EpisodeRestores, EpisodeRetires
      <3> QED BY <1>b, <3>1
    <2> QED BY <2>1, <2>2
  <1>3. CASE Start
    BY <1>a, <1>3 DEF Start
  <1>4. CASE LoopSweeps \/ LoopPollFails \/ LoopSleeps \/ LoopWakes
    <2>1. loop # "off" /\ phase' = phase
      BY <1>4 DEF LoopSweeps, LoopPollFails, LoopSleeps, LoopWakes
    <2> QED BY <1>a, <2>1 DEF Phased
  <1>5. CASE Stop
    <2>1. /\ phase' = "STOPPING" /\ loop' = "off" /\ caller' = caller
          /\ check' = [d \in Devices |-> "none"] /\ \A w \in Workers : caller[w] = "out"
      BY <1>5 DEF Stop
    <2> QED BY <2>1 DEF Phased
  <1>6. ASSUME NEW e \in Episodes, StopCancels(e) PROVE Phased'
    BY <1>b, <1>6 DEF StopCancels
  <1>7. CASE StopReturns
    <2>1. /\ phase = "STOPPING" /\ UNCHANGED <<loop, check, caller>>
          /\ registered' = [d \in Devices |-> NoEpisode]
      BY <1>7 DEF StopReturns
    <2> QED BY <2>1 DEF Phased
  <1>8. ASSUME NEW w \in Workers, NEW d \in Devices,
               CallerMarks(w, d) \/ CallerReleases(w, d) \/ CallerLeases(w, d) \/ CallerBlames(w, d)
        PROVE  Phased'
    <2>1. phase' = phase /\ (phase = "UP" \/ caller[w] # "out")
      BY <1>8 DEF CallerMarks, CallerReleases, CallerLeases, CallerBlames, loopVars
    <2> QED BY <1>a, <2>1 DEF Phased
  <1>9. ASSUME NEW d \in Devices, DeviceFlips(d) \/ WindowSlides(d) \/ BackoffEnds(d)
        PROVE  Phased'
    BY <1>b, <1>9 DEF DeviceFlips, WindowSlides, BackoffEnds, episodeVars
  <1>10. CASE ApiRefresh
    BY <1>b, <1>10 DEF ApiRefresh, episodeVars
  <1>11. CASE UNCHANGED vars
    BY <1>b, <1>11 DEF vars, episodeVars
  <1> QED
    BY <1>1, <1>2, <1>3, <1>4, <1>5, <1>6, <1>7, <1>8, <1>9, <1>10, <1>11 DEF Next, Ends

\* stop() leaves no check and no registered episode behind, whatever runs when it
\* is called.
THEOREM StopLeavesNothing == Spec => []StopIsClean
  <1>1. Init => Typed /\ Phased
    BY TypedInit DEF Init, Phased
  <1>2. Typed /\ Phased /\ [Next]_vars => (Typed /\ Phased)'
    BY TypedNext, PhasedNext
  <1>3. Phased => StopIsClean
    BY DEF Phased, StopIsClean
  <1> QED
    BY <1>1, <1>2, <1>3, PTL DEF Spec

-----------------------------------------------------------------------------
\* The table of recoveries.

\* A step that frees no episode and takes none from its device, and registers
\* nothing, leaves the table without a ghost.
LEMMA AliveKept ==
    ASSUME Typed, RegisteredIsAlive,
           \A d \in Devices : registered'[d] \in {registered[d], NoEpisode},
           \A f \in Episodes : episode[f].pc # "free" =>
               episode'[f].pc # "free" /\ episode'[f].dev = episode[f].dev
    PROVE  RegisteredIsAlive'
  BY DEF RegisteredIsAlive, Typed, TypeOK, EpisodeTypeOK

\* Neither does a spawned episode make one.
LEMMA AliveSpawned ==
    ASSUME Typed, RegisteredIsAlive, NEW d \in Devices, Spawn(d) \/ UNCHANGED episodeVars
    PROVE  RegisteredIsAlive'
  <1>1. CASE UNCHANGED episodeVars
    BY <1>1, AliveKept DEF episodeVars
  <1>2. CASE ~UNCHANGED episodeVars
    <2>1. PICK e \in Episodes :
             /\ episode[e].pc = "free"
             /\ episode'[e].dev = d /\ episode'[e].pc = "created"
             /\ \A f \in Episodes \ {e} : episode'[f] = episode[f]
             /\ registered' = [registered EXCEPT ![d] = e]
      BY <1>2, SpawnEffect DEF Typed, TypeOK
    <2> QED
      BY <2>1 DEF RegisteredIsAlive, Typed, TypeOK, EpisodeTypeOK
  <1> QED BY <1>1, <1>2

\* An episode that moves on stays alive and keeps its device.
LEMMA EpisodeMoves ==
    ASSUME Typed, NEW e \in Episodes, Episode(e), ~EpisodeCallback(e)
    PROVE  /\ episode[e].pc # "free" /\ episode[e].dev \in Devices
           /\ episode'[e].pc # "free" /\ episode'[e].dev = episode[e].dev
           /\ \A f \in Episodes \ {e} : episode'[f] = episode[f]
           /\ registered' = registered
  <1>1. episode[e].pc # "free" /\ registered' = registered
    BY DEF Episode, EpisodeBegins, EpisodeReconnects, EpisodePinged, EpisodeWakes,
       EpisodeRestores, EpisodeRetires
  <1>2. /\ episode[e].dev \in Devices /\ EpisodeTypeOK /\ EpisodesTyped /\ CountTypeOK
        /\ OutsideTypeOK
    BY <1>1 DEF Typed, TypeOK, EpisodesTyped
  <1>3. \/ \E p \in {"retire", "restore", "probe", "done"} : Goto(e, p)
        \/ Attempt(e, 1) \/ (episode[e].pc = "sleep" /\ Attempt(e, episode[e].attempt + 1))
        \/ AttemptFails(e)
    BY DEF Episode, EpisodeBegins, EpisodeReconnects, EpisodePinged, EpisodeWakes,
       EpisodeRestores, EpisodeRetires
  <1>4. CASE \E p \in {"retire", "restore", "probe", "done"} : Goto(e, p)
    BY <1>1, <1>2, <1>4, GotoEffect DEF EpisodeStates
  <1>5. CASE Attempt(e, 1)
    BY <1>1, <1>2, <1>5, AttemptEffect
  <1>6. CASE episode[e].pc = "sleep" /\ Attempt(e, episode[e].attempt + 1)
    <2>1. episode[e] \in EpisodeRecords
      BY <1>2 DEF EpisodeTypeOK
    <2>2. episode[e].attempt + 1 \in 1..RecoveryAttempts
      BY <1>2, <1>6, <2>1 DEF EpisodesTyped, EpisodeRecords
    <2> QED BY <1>1, <1>2, <1>6, <2>2, AttemptEffect
  <1>7. CASE AttemptFails(e)
    BY <1>1, <1>2, <1>7, AttemptFailsEffect
  <1> QED BY <1>3, <1>4, <1>5, <1>6, <1>7

\* So does one that stop() cancels.
LEMMA EpisodeCancelled ==
    ASSUME Typed, NEW e \in Episodes, StopCancels(e)
    PROVE  \A f \in Episodes :
              /\ episode'[f].dev = episode[f].dev
              /\ episode'[f].pc \in {episode[f].pc, "done"}
              /\ episode[f].pc = "free" => episode'[f].pc = "free"
  <1>1. CASE episode[e].pc \in Running
    <2>1. Goto(e, "done") /\ episode[e].dev \in Devices
      BY <1>1 DEF StopCancels, Running, Typed, EpisodesTyped
    <2> QED
      BY <1>1, <2>1, GotoEffect DEF Typed, TypeOK, EpisodeStates, Running
  <1>2. CASE episode[e].pc \notin Running
    BY <1>2 DEF StopCancels
  <1> QED BY <1>1, <1>2

LEMMA AliveNext == Typed /\ RegisteredIsAlive /\ [Next]_vars => RegisteredIsAlive'
  <1> SUFFICES ASSUME Typed, RegisteredIsAlive, [Next]_vars PROVE RegisteredIsAlive'
    OBVIOUS
  <1>a. ASSUME UNCHANGED episodeVars PROVE RegisteredIsAlive'
    BY <1>a, AliveKept DEF episodeVars
  <1>1. ASSUME NEW d \in Devices, Check(d) PROVE RegisteredIsAlive'
    <2>1. Spawn(d) \/ UNCHANGED episodeVars
      BY <1>1 DEF Check, CheckBegins, CheckPinged, CheckRestores, CheckMarks, Healthy, Sick,
         Quarantine
    <2> QED BY <2>1, AliveSpawned
  <1>2. ASSUME NEW e \in Episodes, Episode(e) PROVE RegisteredIsAlive'
    <2>1. CASE EpisodeCallback(e)
      <3>1. /\ episode[e].pc = "done"
            /\ registered' = [registered EXCEPT ![episode[e].dev] = NoEpisode]
            /\ episode' = [episode EXCEPT ![e] = FreeEpisode]
        BY <2>1 DEF EpisodeCallback
      <3> QED
        BY <3>1 DEF RegisteredIsAlive, Typed, TypeOK, EpisodeTypeOK
    <2>2. CASE ~EpisodeCallback(e)
      BY <1>2, <2>2, EpisodeMoves, AliveKept
    <2> QED BY <2>1, <2>2
  <1>3. CASE Start \/ LoopSweeps \/ LoopPollFails \/ LoopSleeps \/ LoopWakes \/ Stop \/ ApiRefresh
    BY <1>a, <1>3 DEF Start, LoopSweeps, LoopPollFails, LoopSleeps, LoopWakes, Stop, ApiRefresh
  <1>4. ASSUME NEW e \in Episodes, StopCancels(e) PROVE RegisteredIsAlive'
    <2>1. registered' = registered
      BY <1>4 DEF StopCancels
    <2> QED BY <1>4, <2>1, EpisodeCancelled, AliveKept
  <1>5. CASE StopReturns
    <2>1. registered' = [d \in Devices |-> NoEpisode]
      BY <1>5 DEF StopReturns
    <2> QED BY <2>1 DEF RegisteredIsAlive
  <1>6. ASSUME NEW w \in Workers, NEW d \in Devices,
               CallerMarks(w, d) \/ CallerReleases(w, d) \/ CallerLeases(w, d) \/ CallerBlames(w, d)
        PROVE  RegisteredIsAlive'
    <2>1. Spawn(d) \/ UNCHANGED episodeVars
      BY <1>6 DEF CallerMarks, CallerReleases, CallerLeases, CallerBlames, Quarantine
    <2> QED BY <2>1, AliveSpawned
  <1>7. ASSUME NEW d \in Devices, DeviceFlips(d) \/ WindowSlides(d) \/ BackoffEnds(d)
        PROVE  RegisteredIsAlive'
    BY <1>a, <1>7 DEF DeviceFlips, WindowSlides, BackoffEnds
  <1>8. CASE UNCHANGED vars
    BY <1>a, <1>8 DEF vars
  <1> QED
    BY <1>1, <1>2, <1>3, <1>4, <1>5, <1>6, <1>7, <1>8 DEF Next, Ends

\* The table of recoveries never names an episode that is over or another
\* device's, so no ghost keeps a device from being recovered.
THEOREM NoGhostEpisode == Spec => []RegisteredIsAlive
  <1>1. Init => Typed /\ RegisteredIsAlive
    BY TypedInit DEF Init, RegisteredIsAlive
  <1>2. Typed /\ RegisteredIsAlive /\ [Next]_vars => (Typed /\ RegisteredIsAlive)'
    BY TypedNext, AliveNext
  <1> QED
    BY <1>1, <1>2, PTL DEF Spec

-----------------------------------------------------------------------------
\* The feed.

\* Whatever is checked, leased or recovered is in the table, so set_state() never
\* passes over it in silence.
Known ==
    /\ \A d \in Devices : check[d] # "none" \/ leases[d] # NoOne => devState[d] # "ABSENT"
    /\ \A e \in Episodes : episode[e].pc # "free" => devState[episode[e].dev] # "ABSENT"

\* A state is set together with the event for it; a device is retired by an
\* episode that decided so.
Forces(d) ==
    \/ Transition(d, "ONLINE", "restored")
    \/ Transition(d, "QUARANTINED", "quarantined")
    \/ /\ Transition(d, "RETIRED", "retired")
       /\ \E e \in Episodes : episode[e].pc = "retire" /\ episode[e].dev = d

\* A recovery is given up for a device that is still in quarantine.
GivesUp(d) ==
    /\ devState[d] = "QUARANTINED"
    /\ event' = [event EXCEPT ![d] = "failed"]
    /\ UNCHANGED <<devState, leases>>

\* What a step can do to states and feed: a refresh, a forced state, a verdict, or
\* nothing.  The devices it forces are known.
LEMMA StateStep ==
    ASSUME Typed, Known, [Next]_vars
    PROVE  \/ UNCHANGED <<devState, event>>
           \/ Poll /\ UNCHANGED event
           \/ \E d \in Devices : devState[d] # "ABSENT" /\ (Forces(d) \/ GivesUp(d))
  <1>1. ASSUME NEW d \in Devices, Check(d)
        PROVE  UNCHANGED <<devState, event>> \/ (devState[d] # "ABSENT" /\ Forces(d))
    BY <1>1 DEF Check, CheckBegins, CheckPinged, CheckRestores, CheckMarks, Quarantine, Forces,
       Known, registryVars
  <1>2. ASSUME NEW e \in Episodes, Episode(e)
        PROVE  \/ UNCHANGED <<devState, event>>
               \/ \E d \in Devices : devState[d] # "ABSENT" /\ (Forces(d) \/ GivesUp(d))
    <2>1. CASE EpisodeCallback(e)
      BY <2>1 DEF EpisodeCallback, registryVars
    <2>2. CASE ~EpisodeCallback(e)
      <3>1. episode[e].dev \in Devices /\ devState[episode[e].dev] # "ABSENT"
        BY <1>2, <2>2, EpisodeMoves DEF Known
      <3>2. CASE EpisodeRestores(e) \/ EpisodeRetires(e)
        BY <3>1, <3>2 DEF EpisodeRestores, EpisodeRetires, Forces
      <3>3. CASE EpisodeBegins(e) \/ EpisodeWakes(e)
        BY <3>3 DEF EpisodeBegins, EpisodeWakes, registryVars
      <3>4. CASE EpisodeReconnects(e) \/ EpisodePinged(e)
        <4>1. UNCHANGED registryVars /\ (UNCHANGED event \/ AttemptFails(e))
          BY <3>4 DEF EpisodeReconnects, EpisodePinged
        <4>2. CASE AttemptFails(e)
          BY <3>1, <4>1, <4>2, AttemptFailsEffect DEF Typed, TypeOK, GivesUp, registryVars
        <4> QED BY <4>1, <4>2 DEF registryVars
      <3> QED BY <1>2, <2>2, <3>2, <3>3, <3>4 DEF Episode
    <2> QED BY <2>1, <2>2
  <1>3. CASE Start \/ LoopSweeps \/ ApiRefresh
    BY <1>3 DEF Start, LoopSweeps, ApiRefresh
  <1>4. CASE LoopPollFails \/ LoopSleeps \/ LoopWakes \/ Stop \/ StopReturns
    BY <1>4 DEF LoopPollFails, LoopSleeps, LoopWakes, Stop, StopReturns, registryVars
  <1>5. ASSUME NEW e \in Episodes, StopCancels(e) PROVE UNCHANGED <<devState, event>>
    BY <1>5 DEF StopCancels, registryVars
  <1>6. ASSUME NEW w \in Workers, NEW d \in Devices, CallerMarks(w, d)
        PROVE  devState[d] # "ABSENT" /\ Forces(d)
    BY <1>6 DEF CallerMarks, Quarantine, Forces, Known
  <1>7. ASSUME NEW w \in Workers, NEW d \in Devices,
               CallerReleases(w, d) \/ CallerLeases(w, d) \/ CallerBlames(w, d)
        PROVE  UNCHANGED <<devState, event>>
    BY <1>7 DEF CallerReleases, ReleaseLease, CallerLeases, AcquireFree, CallerBlames,
       registryVars
  <1>8. ASSUME NEW d \in Devices, DeviceFlips(d) \/ WindowSlides(d) \/ BackoffEnds(d)
        PROVE  UNCHANGED <<devState, event>>
    BY <1>8 DEF DeviceFlips, WindowSlides, BackoffEnds, registryVars
  <1>9. CASE UNCHANGED vars
    BY <1>9 DEF vars, registryVars
  <1> QED
    BY <1>1, <1>2, <1>3, <1>4, <1>5, <1>6, <1>7, <1>8, <1>9 DEF Next, Ends

\* A forced state shows at once, on the device and in the feed.
LEMMA ForcesEffect ==
    ASSUME Typed, NEW d \in Devices, devState[d] # "ABSENT", Forces(d)
    PROVE  /\ \/ /\ devState' = [devState EXCEPT ![d] = "ONLINE"]
                 /\ event' = [event EXCEPT ![d] = "restored"]
              \/ /\ devState' = [devState EXCEPT ![d] = "QUARANTINED"]
                 /\ event' = [event EXCEPT ![d] = "quarantined"]
              \/ /\ devState' = [devState EXCEPT ![d] = "RETIRED"]
                 /\ event' = [event EXCEPT ![d] = "retired"]
                 /\ \E e \in Episodes : episode[e].pc = "retire" /\ episode[e].dev = d
           /\ leases' = leases
  <1>1. ASSUME NEW s \in TableStates, NEW k \in {"quarantined", "restored", "retired"},
               Transition(d, s, k)
        PROVE  /\ devState' = [devState EXCEPT ![d] = s]
               /\ event' = [event EXCEPT ![d] = k]
               /\ leases' = leases
    BY <1>1, ForceEffect DEF Typed, TypeOK, OutsideTypeOK
  <1> QED
    BY <1>1 DEF Forces, TableStates

\* No step forgets a device.
LEMMA NeverForgotten ==
    ASSUME Typed, Known, [Next]_vars
    PROVE  \A d \in Devices : devState[d] # "ABSENT" => devState'[d] # "ABSENT"
  <1>1. CASE Poll
    BY <1>1, PollEffect DEF Typed, TypeOK
  <1>2. ASSUME NEW d \in Devices, devState[d] # "ABSENT", Forces(d) \/ GivesUp(d)
        PROVE  \A x \in Devices : devState[x] # "ABSENT" => devState'[x] # "ABSENT"
    BY <1>2, ForcesEffect DEF GivesUp, Typed, TypeOK, RegistryTypeOK
  <1> QED
    BY <1>1, <1>2, StateStep

\* The feed agrees with the table after every step.
LEMMA FeedNext == Typed /\ Known /\ FeedMatchesTable /\ [Next]_vars => FeedMatchesTable'
  <1> SUFFICES ASSUME Typed, Known, FeedMatchesTable, [Next]_vars PROVE FeedMatchesTable'
    OBVIOUS
  <1>1. CASE UNCHANGED <<devState, event>>
    BY <1>1 DEF FeedMatchesTable
  <1>2. CASE Poll /\ UNCHANGED event
    BY <1>2, PollEffect DEF FeedMatchesTable, Typed, TypeOK
  <1>3. ASSUME NEW d \in Devices, devState[d] # "ABSENT", Forces(d) PROVE FeedMatchesTable'
    BY <1>3, ForcesEffect DEF FeedMatchesTable, Typed, TypeOK, RegistryTypeOK, OutsideTypeOK
  <1>4. ASSUME NEW d \in Devices, GivesUp(d) PROVE FeedMatchesTable'
    BY <1>4 DEF GivesUp, FeedMatchesTable, Typed, TypeOK, RegistryTypeOK, OutsideTypeOK
  <1> QED
    BY <1>1, <1>2, <1>3, <1>4, StateStep

\* Whoever begins to check, lease or recover a device knows it from the table.
LEMMA KnownNext == Typed /\ Known /\ [Next]_vars => Known'
  <1> SUFFICES ASSUME Typed, Known, [Next]_vars PROVE Known'
    OBVIOUS
  <1>0. \A d \in Devices : devState[d] # "ABSENT" => devState'[d] # "ABSENT"
    BY NeverForgotten
  <1>a. ASSUME \A d \in Devices : check'[d] # "none" =>
                   check[d] # "none" \/ devState'[d] # "ABSENT",
               \A d \in Devices : leases'[d] # NoOne =>
                   leases[d] # NoOne \/ devState'[d] # "ABSENT",
               \A f \in Episodes : episode'[f].pc # "free" =>
                   \/ episode[f].pc # "free" /\ episode'[f].dev = episode[f].dev
                   \/ devState'[episode'[f].dev] # "ABSENT"
        PROVE  Known'
    BY <1>0, <1>a DEF Known, Typed, EpisodesTyped
  <1>b. ASSUME NEW d \in Devices, devState[d] # "ABSENT", Spawn(d)
        PROVE  \A f \in Episodes : episode'[f].pc # "free" =>
                   \/ episode[f].pc # "free" /\ episode'[f].dev = episode[f].dev
                   \/ devState'[episode'[f].dev] # "ABSENT"
    BY <1>0, <1>b, SpawnEffect DEF Typed, TypeOK, episodeVars
  <1>c. ASSUME NEW d \in Devices, devState[d] # "ABSENT", Forces(d) PROVE UNCHANGED leases
    BY <1>c, ForcesEffect
  <1>1. ASSUME NEW d \in Devices, Check(d) PROVE Known'
    <2>1. check[d] # "none" /\ devState[d] # "ABSENT"
      BY <1>1 DEF Check, CheckBegins, CheckPinged, CheckRestores, CheckMarks, Known
    <2>2. \A x \in Devices \ {d} : check'[x] = check[x]
      BY <1>1 DEF Check, CheckBegins, CheckPinged, CheckRestores, CheckMarks, Healthy, Sick,
         Typed, TypeOK, LoopTypeOK
    <2>3. UNCHANGED leases
      BY <1>1, <1>c, <2>1 DEF Check, CheckBegins, CheckPinged, CheckRestores, CheckMarks,
         Quarantine, Forces, registryVars
    <2>4. Spawn(d) \/ UNCHANGED episodeVars
      BY <1>1 DEF Check, CheckBegins, CheckPinged, CheckRestores, CheckMarks, Healthy, Sick,
         Quarantine
    <2> QED
      BY <1>a, <1>b, <2>1, <2>2, <2>3, <2>4 DEF episodeVars
  <1>2. ASSUME NEW e \in Episodes, Episode(e) PROVE Known'
    <2>1. UNCHANGED check
      BY <1>2 DEF Episode, EpisodeBegins, EpisodeReconnects, EpisodePinged, EpisodeWakes,
         EpisodeRestores, EpisodeRetires, EpisodeCallback, loopVars
    <2>2. CASE EpisodeCallback(e)
      <3>1. UNCHANGED leases /\ episode' = [episode EXCEPT ![e] = FreeEpisode]
        BY <2>2 DEF EpisodeCallback, registryVars
      <3>2. \A f \in Episodes : episode'[f].pc # "free" => episode'[f] = episode[f]
        BY <3>1 DEF Typed, TypeOK, EpisodeTypeOK, FreeEpisode
      <3> QED BY <1>a, <2>1, <3>1, <3>2
    <2>3. CASE ~EpisodeCallback(e)
      <3>1. /\ episode[e].pc # "free" /\ episode[e].dev \in Devices
            /\ episode'[e].dev = episode[e].dev
            /\ \A f \in Episodes \ {e} : episode'[f] = episode[f]
        BY <1>2, <2>3, EpisodeMoves
      <3>2. devState[episode[e].dev] # "ABSENT"
        BY <3>1 DEF Known
      <3>3. UNCHANGED leases
        BY <1>2, <1>c, <2>3, <3>1, <3>2 DEF Episode, EpisodeBegins, EpisodeReconnects,
           EpisodePinged, EpisodeWakes, EpisodeRestores, EpisodeRetires, Forces, registryVars
      <3> QED BY <1>a, <2>1, <3>1, <3>3
    <2> QED BY <2>2, <2>3
  <1>3. CASE Start \/ ApiRefresh
    <2>1. UNCHANGED <<check, episodeVars>> /\ Poll
      BY <1>3 DEF Start, ApiRefresh, loopVars
    <2>2. UNCHANGED leases
      BY <2>1, PollEffect DEF Typed, TypeOK
    <2> QED BY <1>a, <2>1, <2>2 DEF episodeVars
  <1>4. CASE LoopSweeps
    <2>1. UNCHANGED leases
      BY <1>4, PollEffect DEF LoopSweeps, Typed, TypeOK
    <2>2. \A d \in Devices : check'[d] # "none" => devState'[d] # "ABSENT"
      BY <1>4 DEF LoopSweeps, Swept
    <2>3. UNCHANGED episodeVars
      BY <1>4 DEF LoopSweeps
    <2> QED BY <1>a, <2>1, <2>2, <2>3 DEF episodeVars
  <1>5. CASE LoopPollFails \/ LoopSleeps \/ LoopWakes \/ Stop \/ StopReturns
    <2>1. UNCHANGED <<leases, episode>> /\ \A d \in Devices : check'[d] \in {check[d], "none"}
      BY <1>5 DEF LoopPollFails, LoopSleeps, LoopWakes, Stop, StopReturns, registryVars,
         episodeVars
    <2> QED BY <1>a, <2>1
  <1>6. ASSUME NEW e \in Episodes, StopCancels(e) PROVE Known'
    <2>1. UNCHANGED <<leases, check>>
      BY <1>6 DEF StopCancels, registryVars, loopVars
    <2> QED BY <1>6, <1>a, <2>1, EpisodeCancelled
  <1>7. ASSUME NEW w \in Workers, NEW d \in Devices, CallerMarks(w, d) PROVE Known'
    <2>1. UNCHANGED check /\ Spawn(d) /\ Transition(d, "QUARANTINED", "quarantined")
      BY <1>7 DEF CallerMarks, Quarantine, loopVars
    <2>2. devState[d] # "ABSENT"
      BY <1>7 DEF CallerMarks, Known
    <2>3. UNCHANGED leases
      BY <1>c, <2>1, <2>2 DEF Forces
    <2> QED BY <1>a, <1>b, <2>1, <2>2, <2>3
  <1>8. ASSUME NEW w \in Workers, NEW d \in Devices, CallerLeases(w, d) PROVE Known'
    <2>1. /\ UNCHANGED <<check, episode>> /\ leases' = [leases EXCEPT ![d] = w]
          /\ devState' = devState /\ devState[d] = "ONLINE"
      BY <1>8 DEF CallerLeases, AcquireFree, FindFree, loopVars, episodeVars
    <2> QED BY <1>a, <2>1 DEF Typed, TypeOK, RegistryTypeOK
  <1>9. ASSUME NEW w \in Workers, NEW d \in Devices, CallerReleases(w, d) \/ CallerBlames(w, d)
        PROVE  Known'
    <2>1. /\ UNCHANGED <<check, episode>>
          /\ leases' = leases \/ leases' = [leases EXCEPT ![d] = NoOne]
      BY <1>9 DEF CallerReleases, ReleaseLease, CallerBlames, registryVars, loopVars, episodeVars
    <2> QED BY <1>a, <2>1 DEF Typed, TypeOK, RegistryTypeOK
  <1>10. ASSUME NEW d \in Devices, DeviceFlips(d) \/ WindowSlides(d) \/ BackoffEnds(d)
         PROVE  Known'
    BY <1>10, <1>a DEF DeviceFlips, WindowSlides, BackoffEnds, registryVars, loopVars, episodeVars
  <1>11. CASE UNCHANGED vars
    BY <1>11, <1>a DEF vars, registryVars, loopVars, episodeVars
  <1> QED
    BY <1>1, <1>2, <1>3, <1>4, <1>5, <1>6, <1>7, <1>8, <1>9, <1>10, <1>11 DEF Next, Ends

\* What the feed last said of a device is what the table says: no verdict of an
\* episode is published for a device that something else brought back meanwhile.
THEOREM FeedIsTrue == Spec => []FeedMatchesTable
  <1>1. Init => Typed /\ Known /\ FeedMatchesTable
    BY TypedInit DEF Init, RegistryInit, Known, FeedMatchesTable, FreeEpisode
  <1>2. Typed /\ Known /\ FeedMatchesTable /\ [Next]_vars => (Typed /\ Known /\ FeedMatchesTable)'
    BY TypedNext, KnownNext, FeedNext
  <1> QED
    BY <1>1, <1>2, PTL DEF Spec

-----------------------------------------------------------------------------
\* Retirement.

\* The window never counts more recoveries than there were, and an episode that is
\* about to retire a device counted enough of them.
Counted ==
    /\ \A d \in Devices : recent[d] <= recoveries[d]
    /\ \A e \in Episodes : episode[e].pc = "retire" => recoveries[episode[e].dev] = RetireAfter
    /\ RetiredOscillated

\* A step that counts nothing, decides nothing and retires nobody.
LEMMA CountedKept ==
    ASSUME Typed, Counted,
           UNCHANGED recoveries, \A d \in Devices : recent'[d] <= recent[d],
           \A d \in Devices : recent'[d] \in Nat /\ recent[d] \in Nat /\ recoveries[d] \in Nat,
           \A f \in Episodes : episode'[f].pc = "retire" =>
               episode[f].pc = "retire" /\ episode'[f].dev = episode[f].dev,
           \A d \in Devices : devState'[d] = "RETIRED" => recoveries[d] = RetireAfter
    PROVE  Counted'
  <1>1. \A d \in Devices : recent'[d] <= recoveries'[d]
    BY DEF Counted
  <1> QED BY <1>1 DEF Counted, RetiredOscillated

\* Whoever is retired now was counted before.
LEMMA RetiredWasCounted ==
    ASSUME Typed, Known, Counted, [Next]_vars
    PROVE  \A d \in Devices : devState'[d] = "RETIRED" => recoveries[d] = RetireAfter
  <1>1. CASE UNCHANGED devState
    BY <1>1 DEF Counted, RetiredOscillated
  <1>2. CASE Poll
    BY <1>2, PollEffect DEF Counted, RetiredOscillated, Typed, TypeOK
  <1>3. ASSUME NEW d \in Devices, devState[d] # "ABSENT", Forces(d)
        PROVE  \A x \in Devices : devState'[x] = "RETIRED" => recoveries[x] = RetireAfter
    BY <1>3, ForcesEffect DEF Counted, RetiredOscillated, Typed, TypeOK, RegistryTypeOK
  <1> QED
    BY <1>1, <1>2, <1>3, StateStep DEF GivesUp

\* The lifetime count agrees with the window and with the decision to retire.
LEMMA CountedNext == Typed /\ Known /\ Counted /\ [Next]_vars => Counted'
  <1> SUFFICES ASSUME Typed, Known, Counted, [Next]_vars PROVE Counted'
    OBVIOUS
  <1>0. \A d \in Devices : devState'[d] = "RETIRED" => recoveries[d] = RetireAfter
    BY RetiredWasCounted
  <1>t. \A d \in Devices : recent[d] \in 0..RetireAfter /\ recoveries[d] \in 0..RetireAfter
    BY DEF Typed, TypeOK, CountTypeOK
  <1>a. ASSUME UNCHANGED <<recent, recoveries>>,
               \A f \in Episodes : episode'[f].pc = "retire" =>
                   episode[f].pc = "retire" /\ episode'[f].dev = episode[f].dev
        PROVE  Counted'
    BY <1>0, <1>t, <1>a, CountedKept
  <1>b. ASSUME NEW d \in Devices, Spawn(d) \/ UNCHANGED episodeVars
        PROVE  \A f \in Episodes : episode'[f].pc = "retire" =>
                   episode[f].pc = "retire" /\ episode'[f].dev = episode[f].dev
    BY <1>b, SpawnEffect DEF Typed, TypeOK, episodeVars
  <1>1. ASSUME NEW d \in Devices, Check(d) PROVE Counted'
    <2>1. UNCHANGED <<recent, recoveries>> /\ (Spawn(d) \/ UNCHANGED episodeVars)
      BY <1>1 DEF Check, CheckBegins, CheckPinged, CheckRestores, CheckMarks, Healthy, Sick,
         Quarantine, countVars
    <2> QED BY <1>a, <1>b, <2>1
  <1>2. ASSUME NEW e \in Episodes, EpisodeBegins(e) PROVE Counted'
    <2> DEFINE d == episode[e].dev
    <2>1. /\ d \in Devices /\ episode'[e].dev = d /\ UNCHANGED <<recent, recoveries>>
          /\ \A f \in Episodes \ {e} : episode'[f] = episode[f]
      <3>1. Episode(e) /\ ~EpisodeCallback(e)
        BY <1>2 DEF Episode, EpisodeBegins, EpisodeCallback
      <3> QED BY <1>2, <3>1, EpisodeMoves DEF EpisodeBegins
    <2>2. CASE recent[d] = RetireAfter
      <3>1. recoveries[d] = RetireAfter
        BY <1>t, <2>1, <2>2 DEF Counted
      <3>2. \A x \in Devices : recent'[x] <= recoveries'[x]
        BY <2>1 DEF Counted
      <3>3. \A f \in Episodes : episode'[f].pc = "retire" =>
                recoveries'[episode'[f].dev] = RetireAfter
        BY <2>1, <3>1 DEF Counted
      <3>4. RetiredOscillated'
        BY <1>0, <2>1 DEF RetiredOscillated
      <3> QED BY <3>2, <3>3, <3>4 DEF Counted
    <2>3. CASE recent[d] # RetireAfter
      <3>1. Goto(e, "restore") \/ Attempt(e, 1)
        BY <1>2, <2>3 DEF EpisodeBegins
      <3>2. episode'[e].pc # "retire"
        <4>1. CASE Goto(e, "restore")
          BY <2>1, <4>1, GotoEffect DEF Typed, TypeOK, EpisodeStates
        <4>2. CASE Attempt(e, 1)
          BY <2>1, <4>2, AttemptEffect DEF Typed, TypeOK
        <4> QED BY <3>1, <4>1, <4>2
      <3> QED BY <1>a, <2>1, <3>2
    <2> QED BY <2>2, <2>3
  <1>3. ASSUME NEW e \in Episodes, EpisodePinged(e) PROVE Counted'
    <2> DEFINE d == episode[e].dev
    <2>1. /\ d \in Devices
          /\ \A f \in Episodes \ {e} : episode'[f] = episode[f]
      <3>1. Episode(e) /\ ~EpisodeCallback(e)
        BY <1>3 DEF Episode, EpisodePinged, EpisodeCallback
      <3> QED BY <3>1, EpisodeMoves
    <2>2. episode'[e].pc # "retire"
      <3>1. CASE Goto(e, "restore")
        BY <2>1, <3>1, GotoEffect DEF Typed, TypeOK, EpisodeStates
      <3>2. CASE AttemptFails(e)
        BY <2>1, <3>2, AttemptFailsEffect DEF Typed, TypeOK
      <3> QED BY <1>3, <3>1, <3>2 DEF EpisodePinged
    <2>3. CASE UNCHANGED <<recent, recoveries>>
      BY <1>a, <2>1, <2>2, <2>3
    <2>4. CASE /\ recent' = [recent EXCEPT ![d] = UpTo(RetireAfter, recent[d] + 1)]
               /\ recoveries' = [recoveries EXCEPT ![d] = UpTo(RetireAfter, recoveries[d] + 1)]
      <3> HIDE DEF d
      <3>0. recent \in [Devices -> 0..RetireAfter] /\ recoveries \in [Devices -> 0..RetireAfter]
        BY DEF Typed, TypeOK, CountTypeOK
      <3>1. UpTo(RetireAfter, recent[d] + 1) <= UpTo(RetireAfter, recoveries[d] + 1)
        BY <1>t, <2>1 DEF Counted, UpTo
      <3>2. recoveries[d] = RetireAfter => UpTo(RetireAfter, recoveries[d] + 1) = RetireAfter
        BY DEF UpTo
      <3>3. \A x \in Devices : recent'[x] <= recoveries'[x]
        BY <2>4, <3>0, <3>1 DEF Counted
      <3>4. \A x \in Devices : recoveries[x] = RetireAfter => recoveries'[x] = RetireAfter
        BY <2>4, <3>0, <3>2
      <3>5. \A f \in Episodes : episode'[f].pc = "retire" =>
                recoveries'[episode'[f].dev] = RetireAfter
        BY <2>1, <2>2, <3>4 DEF Counted, Typed, EpisodesTyped
      <3>6. RetiredOscillated'
        BY <1>0, <3>4 DEF RetiredOscillated
      <3> QED BY <3>3, <3>5, <3>6 DEF Counted
    <2> QED BY <1>3, <2>3, <2>4 DEF EpisodePinged
  <1>4. ASSUME NEW e \in Episodes, Episode(e), ~EpisodeBegins(e), ~EpisodePinged(e)
        PROVE  Counted'
    <2>1. UNCHANGED <<recent, recoveries>>
      BY <1>4 DEF Episode, EpisodeReconnects, EpisodeWakes, EpisodeRestores, EpisodeRetires,
         EpisodeCallback, countVars
    <2>2. CASE EpisodeCallback(e)
      <3>1. episode' = [episode EXCEPT ![e] = FreeEpisode]
        BY <2>2 DEF EpisodeCallback
      <3>2. \A f \in Episodes : episode'[f].pc = "retire" => episode'[f] = episode[f]
        BY <3>1 DEF Typed, TypeOK, EpisodeTypeOK, FreeEpisode
      <3> QED BY <1>a, <2>1, <3>2
    <2>3. CASE ~EpisodeCallback(e)
      <3>1. /\ episode[e].dev \in Devices
            /\ \A f \in Episodes \ {e} : episode'[f] = episode[f]
        BY <1>4, <2>3, EpisodeMoves
      <3>2. \/ Goto(e, "probe") \/ Goto(e, "done") \/ AttemptFails(e)
            \/ episode[e].pc = "sleep" /\ Attempt(e, episode[e].attempt + 1)
        BY <1>4, <2>3 DEF Episode, EpisodeReconnects, EpisodeWakes, EpisodeRestores, EpisodeRetires
      <3>3. episode'[e].pc # "retire"
        <4>1. CASE Goto(e, "probe") \/ Goto(e, "done")
          BY <3>1, <4>1, GotoEffect DEF Typed, TypeOK, EpisodeStates
        <4>2. CASE AttemptFails(e)
          BY <3>1, <4>2, AttemptFailsEffect DEF Typed, TypeOK
        <4>3. CASE episode[e].pc = "sleep" /\ Attempt(e, episode[e].attempt + 1)
          <5>1. episode[e] \in EpisodeRecords
            BY DEF Typed, TypeOK, EpisodeTypeOK
          <5>2. episode[e].attempt + 1 \in 1..RecoveryAttempts
            BY <4>3, <5>1 DEF Typed, EpisodesTyped, EpisodeRecords
          <5> QED BY <3>1, <4>3, <5>2, AttemptEffect DEF Typed, TypeOK
        <4> QED BY <3>2, <4>1, <4>2, <4>3
      <3> QED BY <1>a, <2>1, <3>1, <3>3
    <2> QED BY <2>2, <2>3
  <1>5. CASE Start \/ LoopSweeps \/ LoopPollFails \/ LoopSleeps \/ LoopWakes \/ Stop \/ StopReturns
             \/ ApiRefresh
    BY <1>5, <1>a DEF Start, LoopSweeps, LoopPollFails, LoopSleeps, LoopWakes, Stop, StopReturns,
       ApiRefresh, countVars, episodeVars
  <1>6. ASSUME NEW e \in Episodes, StopCancels(e) PROVE Counted'
    <2>1. UNCHANGED <<recent, recoveries>>
      BY <1>6 DEF StopCancels, countVars
    <2>2. \A f \in Episodes : episode'[f].pc = "retire" =>
              episode[f].pc = "retire" /\ episode'[f].dev = episode[f].dev
      BY <1>6, EpisodeCancelled
    <2> QED BY <1>a, <2>1, <2>2
  <1>7. ASSUME NEW w \in Workers, NEW d \in Devices,
               CallerMarks(w, d) \/ CallerReleases(w, d) \/ CallerLeases(w, d) \/ CallerBlames(w, d)
        PROVE  Counted'
    <2>1. UNCHANGED <<recent, recoveries>> /\ (Spawn(d) \/ UNCHANGED episodeVars)
      BY <1>7 DEF CallerMarks, CallerReleases, CallerLeases, CallerBlames, Quarantine, countVars
    <2> QED BY <1>a, <1>b, <2>1
  <1>8. ASSUME NEW d \in Devices, WindowSlides(d) PROVE Counted'
    <2>1. recent' = [recent EXCEPT ![d] = recent[d] - 1] /\ recent[d] > 0
      BY <1>8 DEF WindowSlides
    <2>2. \A x \in Devices : recent'[x] \in Nat /\ recent'[x] <= recent[x]
      BY <1>t, <2>1 DEF Typed, TypeOK, CountTypeOK
    <2>3. UNCHANGED <<recoveries, episode>>
      BY <1>8 DEF WindowSlides, episodeVars
    <2> QED BY <1>0, <1>t, <2>2, <2>3, CountedKept
  <1>9. ASSUME NEW d \in Devices, DeviceFlips(d) \/ BackoffEnds(d) PROVE Counted'
    BY <1>9, <1>a DEF DeviceFlips, BackoffEnds, countVars, episodeVars
  <1>10. CASE UNCHANGED vars
    BY <1>10, <1>a DEF vars, countVars, episodeVars
  <1> QED
    BY <1>1, <1>2, <1>3, <1>4, <1>5, <1>6, <1>7, <1>8, <1>9, <1>10 DEF Next, Ends

\* Only a device that was recovered as often as the policy says is retired, however
\* many episodes fail, overlap or are spawned for it.
THEOREM RetirementIsEarned == Spec => []RetiredOscillated
  <1>1. Init => Typed /\ Known /\ Counted
    BY TypedInit DEF Init, RegistryInit, Known, Counted, RetiredOscillated, FreeEpisode
  <1>2. Typed /\ Known /\ Counted /\ [Next]_vars => (Typed /\ Known /\ Counted)'
    BY TypedNext, KnownNext, CountedNext
  <1>3. Counted => RetiredOscillated
    BY DEF Counted
  <1> QED
    BY <1>1, <1>2, <1>3, PTL DEF Spec

-----------------------------------------------------------------------------
\* How far a retirement can be undone.

\* The attempt loop is never entered for a browser slot, which is not adb's to
\* reach, so no slot is ever counted as recovered, or retired.
Trying == {"reconnect", "probe", "sleep"}
SlotsKeepOut ==
    /\ \A d \in Devices : virtual[d] => recoveries[d] = 0
    /\ \A e \in Episodes : episode[e].pc \in Trying => ~virtual[episode[e].dev]

LEMMA SlotsNext == Typed /\ SlotsKeepOut /\ [Next]_vars => SlotsKeepOut'
  <1> SUFFICES ASSUME Typed, SlotsKeepOut, [Next]_vars PROVE SlotsKeepOut'
    OBVIOUS
  <1>a. ASSUME UNCHANGED <<virtual, recoveries>>,
               \A f \in Episodes : episode'[f].pc \in Trying =>
                   ~virtual[episode'[f].dev] \/ episode'[f] = episode[f]
        PROVE  SlotsKeepOut'
    BY <1>a DEF SlotsKeepOut
  <1>b. ASSUME NEW d \in Devices, Spawn(d) \/ UNCHANGED episodeVars
        PROVE  \A f \in Episodes : episode'[f].pc \in Trying => episode'[f] = episode[f]
    BY <1>b, SpawnEffect DEF Typed, TypeOK, episodeVars, Trying
  <1>1. ASSUME NEW d \in Devices, Check(d) PROVE SlotsKeepOut'
    <2>1. UNCHANGED <<virtual, recoveries>> /\ (Spawn(d) \/ UNCHANGED episodeVars)
      BY <1>1 DEF Check, CheckBegins, CheckPinged, CheckRestores, CheckMarks, Healthy, Sick,
         Quarantine, countVars
    <2> QED BY <1>a, <1>b, <2>1
  <1>2. ASSUME NEW e \in Episodes, Episode(e) PROVE SlotsKeepOut'
    <2>1. CASE EpisodeCallback(e)
      <3>1. /\ UNCHANGED <<virtual, recoveries>>
            /\ episode' = [episode EXCEPT ![e] = FreeEpisode]
        BY <2>1 DEF EpisodeCallback, countVars
      <3>2. \A f \in Episodes : episode'[f].pc \in Trying => episode'[f] = episode[f]
        BY <3>1 DEF Typed, TypeOK, EpisodeTypeOK, FreeEpisode, Trying
      <3> QED BY <1>a, <3>1, <3>2
    <2>2. CASE ~EpisodeCallback(e)
      <3> DEFINE d == episode[e].dev
      <3>1. /\ d \in Devices /\ episode'[e].dev = d /\ virtual' = virtual
            /\ \A f \in Episodes \ {e} : episode'[f] = episode[f]
        BY <1>2, <2>2, EpisodeMoves DEF Episode, EpisodeBegins, EpisodeReconnects, EpisodePinged,
           EpisodeWakes, EpisodeRestores, EpisodeRetires
      <3>2. CASE ~virtual[d]
        <4>1. \A x \in Devices : virtual[x] => recoveries'[x] = recoveries[x]
          BY <1>2, <2>2, <3>1, <3>2 DEF Episode, EpisodeBegins, EpisodeReconnects, EpisodePinged,
             EpisodeWakes, EpisodeRestores, EpisodeRetires, countVars, Typed, TypeOK, CountTypeOK
        <4> QED BY <3>1, <3>2, <4>1 DEF SlotsKeepOut
      <3>3. CASE virtual[d]
        <4>1. episode[e].pc \notin Trying
          BY <3>3 DEF SlotsKeepOut
        <4>2. /\ \E p \in {"retire", "restore", "done"} : Goto(e, p)
              /\ recoveries' = recoveries
          BY <1>2, <2>2, <3>3, <4>1 DEF Episode, EpisodeBegins, EpisodeReconnects, EpisodePinged,
             EpisodeWakes, EpisodeRestores, EpisodeRetires, Trying, countVars
        <4>3. episode'[e].pc \notin Trying
          BY <3>1, <4>2, GotoEffect DEF Typed, TypeOK, EpisodeStates, Trying
        <4> QED BY <1>a, <3>1, <4>2, <4>3
      <3> QED BY <3>2, <3>3
    <2> QED BY <2>1, <2>2
  <1>3. CASE Start \/ LoopSweeps \/ LoopPollFails \/ LoopSleeps \/ LoopWakes \/ Stop \/ StopReturns
             \/ ApiRefresh
    BY <1>3, <1>a DEF Start, LoopSweeps, LoopPollFails, LoopSleeps, LoopWakes, Stop, StopReturns,
       ApiRefresh, countVars, episodeVars
  <1>4. ASSUME NEW e \in Episodes, StopCancels(e) PROVE SlotsKeepOut'
    <2>1. UNCHANGED <<virtual, recoveries>>
      BY <1>4 DEF StopCancels, countVars
    <2>2. \A f \in Episodes : episode'[f].pc \in Trying =>
              episode[f].pc \in Trying /\ episode'[f].dev = episode[f].dev
      BY <1>4, EpisodeCancelled DEF Trying
    <2> QED BY <2>1, <2>2 DEF SlotsKeepOut
  <1>5. ASSUME NEW w \in Workers, NEW d \in Devices,
               CallerMarks(w, d) \/ CallerReleases(w, d) \/ CallerLeases(w, d) \/ CallerBlames(w, d)
        PROVE  SlotsKeepOut'
    <2>1. UNCHANGED <<virtual, recoveries>> /\ (Spawn(d) \/ UNCHANGED episodeVars)
      BY <1>5 DEF CallerMarks, CallerReleases, CallerLeases, CallerBlames, Quarantine, countVars
    <2> QED BY <1>a, <1>b, <2>1
  <1>6. ASSUME NEW d \in Devices, DeviceFlips(d) \/ WindowSlides(d) \/ BackoffEnds(d)
        PROVE  SlotsKeepOut'
    BY <1>6, <1>a DEF DeviceFlips, WindowSlides, BackoffEnds, countVars, episodeVars
  <1>7. CASE UNCHANGED vars
    BY <1>7, <1>a DEF vars, countVars, episodeVars
  <1> QED
    BY <1>1, <1>2, <1>3, <1>4, <1>5, <1>6, <1>7 DEF Next, Ends

\* Who decided about device d, or is about to, without another look at its state:
\* a check or a caller that waits to set it, an episode past the top of its loop.
LateCheck(d) == check[d] \in {"restore", "mark"}
LateEpisode(e, d) ==
    episode[e].dev = d /\ episode[e].pc \in {"reconnect", "probe", "restore"}
LateCaller(w, d) == caller[w] = "mark" /\ leases[d] = w

Late(d) ==
    {p \in {<<"check", d>>} : LateCheck(d)}
    \cup {<<"episode", e>> : e \in {e \in Episodes : LateEpisode(e, d)}}
    \cup {<<"caller", w>> : w \in {w \in Workers : LateCaller(w, d)}}

\* Nobody becomes late for a retired device, and whoever takes it out of retirement
\* is late no longer.
UndoneByTheLate ==
    [][\A d \in Devices : devState[d] = "RETIRED" =>
          /\ Late(d)' \subseteq Late(d)
          /\ devState'[d] # "RETIRED" => Late(d)' # Late(d)]_vars

\* The three kinds of them, one by one.
NoneLater(d) ==
    /\ LateCheck(d)' => LateCheck(d)
    /\ \A e \in Episodes : LateEpisode(e, d)' => LateEpisode(e, d)
    /\ \A w \in Workers : LateCaller(w, d)' => LateCaller(w, d)
OneFewer(d) ==
    \/ LateCheck(d) /\ ~LateCheck(d)'
    \/ \E e \in Episodes : LateEpisode(e, d) /\ ~LateEpisode(e, d)'
    \/ \E w \in Workers : LateCaller(w, d) /\ ~LateCaller(w, d)'

LEMMA LateShrinks ==
    ASSUME NEW d \in Devices, NoneLater(d)
    PROVE  /\ Late(d)' \subseteq Late(d)
           /\ OneFewer(d) => Late(d)' # Late(d)
  <1>1. Late(d)' \subseteq Late(d)
    BY DEF NoneLater, Late
  <1>2. ASSUME LateCheck(d), ~LateCheck(d)' PROVE Late(d)' # Late(d)
    BY <1>2 DEF Late
  <1>3. ASSUME NEW e \in Episodes, LateEpisode(e, d), ~LateEpisode(e, d)'
        PROVE  Late(d)' # Late(d)
    <2>1. <<"episode", e>> \in Late(d)
      BY <1>3 DEF Late
    <2>2. <<"episode", e>> \notin Late(d)'
      BY <1>3 DEF Late, LateEpisode
    <2> QED BY <2>1, <2>2
  <1>4. ASSUME NEW w \in Workers, LateCaller(w, d), ~LateCaller(w, d)'
        PROVE  Late(d)' # Late(d)
    <2>1. <<"caller", w>> \in Late(d)
      BY <1>4 DEF Late
    <2>2. <<"caller", w>> \notin Late(d)'
      BY <1>4 DEF Late, LateCaller
    <2> QED BY <2>1, <2>2
  <1> QED BY <1>1, <1>2, <1>3, <1>4 DEF OneFewer

\* Setting the state of a device leaves the others as they are.
LEMMA TransitionElsewhere ==
    ASSUME Typed, NEW x \in Devices, NEW s \in TableStates,
           NEW k \in {"quarantined", "restored", "retired"}, Transition(x, s, k)
    PROVE  /\ leases' = leases
           /\ \A d \in Devices : devState'[d] # devState[d] => d = x /\ devState'[d] = s
  BY ForceEffect DEF Typed, TypeOK, RegistryTypeOK, OutsideTypeOK

\* A worker at work holds one device, and none otherwise, so one that blames a device
\* is not late for another.
HoldsOne ==
    \A d \in Devices : leases[d] # NoOne =>
        /\ caller[leases[d]] # "out"
        /\ \A x \in Devices : leases[x] = leases[d] => x = d

LEMMA HoldsNext == Typed /\ HoldsOne /\ [Next]_vars => HoldsOne'
  <1> SUFFICES ASSUME Typed, HoldsOne, [Next]_vars PROVE HoldsOne'
    OBVIOUS
  <1>a. ASSUME UNCHANGED <<leases, caller>> PROVE HoldsOne'
    BY <1>a DEF HoldsOne
  <1>1. ASSUME NEW d \in Devices, Check(d) PROVE HoldsOne'
    <2>1. caller' = caller
      BY <1>1 DEF Check, CheckBegins, CheckPinged, CheckRestores, CheckMarks
    <2>2. leases' = leases
      BY <1>1, TransitionElsewhere DEF Check, CheckBegins, CheckPinged, CheckRestores,
         CheckMarks, Quarantine, TableStates, registryVars
    <2> QED BY <1>a, <2>1, <2>2
  <1>2. ASSUME NEW e \in Episodes, Episode(e) PROVE HoldsOne'
    <2>1. CASE EpisodeRestores(e) \/ EpisodeRetires(e)
      <3>1. episode[e].dev \in Devices
        BY <2>1 DEF EpisodeRestores, EpisodeRetires, Typed, EpisodesTyped
      <3>2. UNCHANGED <<leases, caller>>
        BY <2>1, <3>1, TransitionElsewhere DEF EpisodeRestores, EpisodeRetires, TableStates
      <3> QED BY <1>a, <3>2
    <2>2. CASE ~(EpisodeRestores(e) \/ EpisodeRetires(e))
      BY <1>2, <1>a, <2>2 DEF Episode, EpisodeBegins, EpisodeReconnects, EpisodePinged,
         EpisodeWakes, EpisodeCallback, registryVars
    <2> QED BY <2>1, <2>2
  <1>3. CASE Start \/ LoopSweeps \/ ApiRefresh
    BY <1>3, <1>a, PollEffect DEF Start, LoopSweeps, ApiRefresh, Typed, TypeOK
  <1>4. CASE LoopPollFails \/ LoopSleeps \/ LoopWakes \/ Stop \/ StopReturns
    BY <1>4, <1>a DEF LoopPollFails, LoopSleeps, LoopWakes, Stop, StopReturns, registryVars
  <1>5. ASSUME NEW e \in Episodes, StopCancels(e) PROVE HoldsOne'
    BY <1>5, <1>a DEF StopCancels, registryVars
  <1>6. ASSUME NEW w \in Workers, NEW d \in Devices,
               CallerMarks(w, d) \/ CallerBlames(w, d)
        PROVE  HoldsOne'
    <2>1. leases' = leases /\ \E p \in {"mark", "release"} : caller' = [caller EXCEPT ![w] = p]
      BY <1>6, TransitionElsewhere DEF CallerMarks, CallerBlames, Quarantine, TableStates,
         registryVars
    <2> QED BY <2>1 DEF HoldsOne, Typed, TypeOK, OutsideTypeOK, RegistryTypeOK
  <1>7. ASSUME NEW w \in Workers, NEW d \in Devices, CallerReleases(w, d) PROVE HoldsOne'
    <2>1. /\ leases[d] = w /\ leases' = [leases EXCEPT ![d] = NoOne]
          /\ caller' = [caller EXCEPT ![w] = "out"]
      BY <1>7 DEF CallerReleases, ReleaseLease
    <2>2. \A x \in Devices : leases'[x] # NoOne => leases'[x] = leases[x] /\ leases[x] # w
      BY <2>1 DEF HoldsOne, Typed, TypeOK, RegistryTypeOK
    <2> QED BY <2>1, <2>2 DEF HoldsOne, Typed, TypeOK, OutsideTypeOK, RegistryTypeOK
  <1>8. ASSUME NEW w \in Workers, NEW d \in Devices, CallerLeases(w, d) PROVE HoldsOne'
    <2>1. /\ caller[w] = "out" /\ leases' = [leases EXCEPT ![d] = w]
          /\ caller' = [caller EXCEPT ![w] = "run"]
      BY <1>8 DEF CallerLeases, AcquireFree
    <2>2. \A x \in Devices : leases[x] # w
      BY <2>1 DEF HoldsOne
    <2> QED BY <2>1, <2>2 DEF HoldsOne, Typed, TypeOK, OutsideTypeOK, RegistryTypeOK
  <1>9. ASSUME NEW d \in Devices, DeviceFlips(d) \/ WindowSlides(d) \/ BackoffEnds(d)
        PROVE  HoldsOne'
    BY <1>9, <1>a DEF DeviceFlips, WindowSlides, BackoffEnds, registryVars
  <1>10. CASE UNCHANGED vars
    BY <1>10, <1>a DEF vars, registryVars
  <1> QED
    BY <1>1, <1>2, <1>3, <1>4, <1>5, <1>6, <1>7, <1>8, <1>9, <1>10 DEF Next, Ends

\* A spawned recovery is not late for anybody.
LEMMA SpawnedIsNotLate ==
    ASSUME Typed, NEW x \in Devices, Spawn(x) \/ UNCHANGED episodeVars,
           NEW d \in Devices, NEW f \in Episodes, LateEpisode(f, d)'
    PROVE  LateEpisode(f, d)
  BY SpawnEffect DEF Typed, TypeOK, episodeVars, LateEpisode

\* A step of a sweep.
LEMMA LateAfterCheck ==
    ASSUME Typed, NEW x \in Devices, Check(x), NEW d \in Devices, devState[d] = "RETIRED"
    PROVE  NoneLater(d) /\ (devState'[d] # "RETIRED" => OneFewer(d))
  <1>1. Spawn(x) \/ UNCHANGED episodeVars
    BY DEF Check, CheckBegins, CheckPinged, CheckRestores, CheckMarks, Healthy, Sick, Quarantine
  <1>2. /\ caller' = caller /\ leases' = leases
        /\ devState'[d] # devState[d] => d = x /\ check[x] \in {"restore", "mark"}
    <2>1. CASE CheckBegins(x) \/ CheckPinged(x)
      BY <2>1 DEF CheckBegins, CheckPinged, registryVars
    <2>2. CASE CheckRestores(x)
      BY <2>2, TransitionElsewhere DEF CheckRestores, TableStates
    <2>3. CASE CheckMarks(x)
      BY <2>3, TransitionElsewhere DEF CheckMarks, Quarantine, TableStates
    <2> QED BY <2>1, <2>2, <2>3 DEF Check
  <1>3. \A y \in Devices \ {x} : check'[y] = check[y]
    BY DEF Check, CheckBegins, CheckPinged, CheckRestores, CheckMarks, Healthy, Sick,
       Typed, TypeOK, LoopTypeOK
  <1>4. d = x => ~LateCheck(x)'
    BY DEF Check, CheckBegins, CheckPinged, CheckRestores, CheckMarks, Healthy, Sick,
       Typed, TypeOK, LoopTypeOK, LateCheck
  <1>5. NoneLater(d)
    BY <1>1, <1>2, <1>3, <1>4, SpawnedIsNotLate DEF NoneLater, LateCheck, LateCaller
  <1>6. devState'[d] # "RETIRED" => LateCheck(d) /\ ~LateCheck(d)'
    BY <1>2, <1>4 DEF LateCheck
  <1> QED BY <1>5, <1>6 DEF OneFewer

\* A step of an episode.
LEMMA LateAfterEpisode ==
    ASSUME Typed, Counted, SlotsKeepOut, NEW e \in Episodes, Episode(e),
           NEW d \in Devices, devState[d] = "RETIRED"
    PROVE  NoneLater(d) /\ (devState'[d] # "RETIRED" => OneFewer(d))
  <1>1. UNCHANGED <<check, caller>>
    BY DEF Episode, EpisodeBegins, EpisodeReconnects, EpisodePinged, EpisodeWakes,
       EpisodeRestores, EpisodeRetires, EpisodeCallback, loopVars
  <1>a. ASSUME leases' = leases, \A f \in Episodes : LateEpisode(f, d)' => LateEpisode(f, d)
        PROVE  NoneLater(d)
    BY <1>1, <1>a DEF NoneLater, LateCheck, LateCaller
  <1>2. CASE EpisodeCallback(e)
    <2>1. UNCHANGED registryVars /\ episode' = [episode EXCEPT ![e] = FreeEpisode]
      BY <1>2 DEF EpisodeCallback
    <2>2. \A f \in Episodes : LateEpisode(f, d)' => LateEpisode(f, d)
      BY <2>1 DEF Typed, TypeOK, EpisodeTypeOK, FreeEpisode, LateEpisode
    <2> QED BY <1>a, <2>1, <2>2 DEF registryVars
  <1>3. CASE ~EpisodeCallback(e)
    <2> DEFINE x == episode[e].dev
    <2>1. /\ x \in Devices /\ episode'[e].dev = x
          /\ \A f \in Episodes \ {e} : episode'[f] = episode[f]
      BY <1>3, EpisodeMoves
    <2>2. CASE EpisodeRestores(e) \/ EpisodeRetires(e)
      <3>1. Goto(e, "done")
        BY <2>2 DEF EpisodeRestores, EpisodeRetires
      <3>2. episode'[e].pc = "done"
        BY <2>1, <3>1, GotoEffect DEF Typed, TypeOK, EpisodeStates
      <3>3. \A f \in Episodes : LateEpisode(f, d)' => LateEpisode(f, d)
        BY <2>1, <3>2 DEF LateEpisode
      <3>4. /\ leases' = leases
            /\ devState'[d] # "RETIRED" => d = x /\ episode[e].pc = "restore"
        BY <2>1, <2>2, TransitionElsewhere DEF EpisodeRestores, EpisodeRetires, TableStates
      <3>5. devState'[d] # "RETIRED" => LateEpisode(e, d) /\ ~LateEpisode(e, d)'
        BY <3>2, <3>4 DEF LateEpisode
      <3> QED BY <1>a, <3>3, <3>4, <3>5 DEF OneFewer
    <2>3. CASE ~(EpisodeRestores(e) \/ EpisodeRetires(e))
      <3>1. UNCHANGED registryVars
        BY <1>3, <2>3 DEF Episode, EpisodeBegins, EpisodeReconnects, EpisodePinged, EpisodeWakes
      <3>2. CASE x # d
        <4>1. \A f \in Episodes : LateEpisode(f, d)' => LateEpisode(f, d)
          BY <2>1, <3>2 DEF LateEpisode
        <4> QED BY <1>a, <3>1, <4>1 DEF registryVars
      <3>3. CASE x = d
        <4>1. ~virtual[d]
          BY <2>1, <3>3 DEF Counted, RetiredOscillated, SlotsKeepOut
        <4>2. \/ episode[e].pc \in {"reconnect", "probe"}
              \/ Goto(e, "retire") \/ Goto(e, "done")
          BY <1>3, <2>3, <3>3, <4>1 DEF Episode, EpisodeBegins, EpisodeReconnects, EpisodePinged,
             EpisodeWakes, Attempt
        <4>3. LateEpisode(e, d)' => LateEpisode(e, d)
          BY <2>1, <3>3, <4>2, GotoEffect DEF Typed, TypeOK, EpisodeStates, LateEpisode
        <4>4. \A f \in Episodes : LateEpisode(f, d)' => LateEpisode(f, d)
          BY <2>1, <4>3 DEF LateEpisode
        <4> QED BY <1>a, <3>1, <4>4 DEF registryVars
      <3> QED BY <3>2, <3>3
    <2> QED BY <2>2, <2>3
  <1> QED BY <1>2, <1>3

\* A step of a caller.
LEMMA LateAfterCaller ==
    ASSUME Typed, HoldsOne, NEW w \in Workers, NEW x \in Devices,
           CallerMarks(w, x) \/ CallerReleases(w, x) \/ CallerLeases(w, x) \/ CallerBlames(w, x),
           NEW d \in Devices, devState[d] = "RETIRED"
    PROVE  NoneLater(d) /\ (devState'[d] # "RETIRED" => OneFewer(d))
  <1>1. check' = check /\ (Spawn(x) \/ UNCHANGED episodeVars)
    BY DEF CallerMarks, CallerReleases, CallerLeases, CallerBlames, Quarantine, loopVars
  <1>2. /\ LateCheck(d)' => LateCheck(d)
        /\ \A e \in Episodes : LateEpisode(e, d)' => LateEpisode(e, d)
    BY <1>1, SpawnedIsNotLate DEF LateCheck
  <1>3. CASE CallerMarks(w, x)
    <2>1. /\ leases' = leases /\ caller' = [caller EXCEPT ![w] = "release"]
          /\ caller[w] = "mark" /\ leases[x] = w
          /\ devState'[d] # devState[d] => d = x
      BY <1>3, TransitionElsewhere DEF CallerMarks, Quarantine, TableStates
    <2>2. /\ \A v \in Workers : LateCaller(v, d)' => LateCaller(v, d)
          /\ devState'[d] # "RETIRED" => LateCaller(w, d) /\ ~LateCaller(w, d)'
      BY <2>1 DEF LateCaller, Typed, TypeOK, OutsideTypeOK
    <2> QED BY <1>2, <2>2 DEF NoneLater, OneFewer
  <1>4. CASE CallerReleases(w, x)
    <2>1. /\ devState' = devState /\ caller' = [caller EXCEPT ![w] = "out"]
          /\ leases' = leases \/ leases' = [leases EXCEPT ![x] = NoOne]
      BY <1>4 DEF CallerReleases, ReleaseLease
    <2>2. \A v \in Workers : LateCaller(v, d)' => LateCaller(v, d)
      BY <2>1 DEF LateCaller, Typed, TypeOK, OutsideTypeOK, RegistryTypeOK
    <2> QED BY <1>2, <2>1, <2>2 DEF NoneLater
  <1>5. CASE CallerLeases(w, x) \/ CallerBlames(w, x)
    <2>1. /\ devState' = devState /\ x # d
          /\ \/ caller' = [caller EXCEPT ![w] = "run"] /\ leases' = [leases EXCEPT ![x] = w]
             \/ leases' = leases /\ leases[x] = w /\ caller' = [caller EXCEPT ![w] = "mark"]
                /\ devState[x] = "ONLINE"
      BY <1>5 DEF CallerLeases, AcquireFree, FindFree, CallerBlames, registryVars
    <2>2. \A v \in Workers : LateCaller(v, d)' => LateCaller(v, d)
      BY <2>1 DEF HoldsOne, LateCaller, Typed, TypeOK, OutsideTypeOK, RegistryTypeOK
    <2> QED BY <1>2, <2>1, <2>2 DEF NoneLater
  <1> QED BY <1>3, <1>4, <1>5

\* Every step.
LEMMA LateAfterStep ==
    ASSUME Typed, Counted, SlotsKeepOut, HoldsOne, [Next]_vars,
           NEW d \in Devices, devState[d] = "RETIRED"
    PROVE  NoneLater(d) /\ (devState'[d] # "RETIRED" => OneFewer(d))
  <1>a. ASSUME UNCHANGED <<leases, caller>>, devState'[d] = "RETIRED",
               check'[d] \in {check[d], "none", "ready"},
               \A e \in Episodes : episode'[e].dev = episode[e].dev
                                     /\ episode'[e].pc \in {episode[e].pc, "done"}
        PROVE  NoneLater(d) /\ (devState'[d] # "RETIRED" => OneFewer(d))
    BY <1>a DEF NoneLater, LateCheck, LateEpisode, LateCaller
  <1>1. CASE Start \/ LoopSweeps \/ ApiRefresh
    <2>1. /\ leases' = leases /\ devState'[d] = "RETIRED"
      BY <1>1, PollEffect DEF Start, LoopSweeps, ApiRefresh, Typed, TypeOK
    <2>2. UNCHANGED <<caller, episodeVars>> /\ check'[d] \in {check[d], "none", "ready"}
      BY <1>1 DEF Start, LoopSweeps, ApiRefresh, loopVars
    <2> QED BY <1>a, <2>1, <2>2 DEF episodeVars
  <1>2. CASE LoopPollFails \/ LoopSleeps \/ LoopWakes \/ Stop \/ StopReturns
    BY <1>2, <1>a DEF LoopPollFails, LoopSleeps, LoopWakes, Stop, StopReturns, registryVars,
       episodeVars
  <1>3. ASSUME NEW e \in Episodes, StopCancels(e)
        PROVE  NoneLater(d) /\ (devState'[d] # "RETIRED" => OneFewer(d))
    <2>1. UNCHANGED <<registryVars, caller, check>>
      BY <1>3 DEF StopCancels, loopVars
    <2> QED BY <1>3, <1>a, <2>1, EpisodeCancelled DEF registryVars
  <1>4. ASSUME NEW x \in Devices, DeviceFlips(x) \/ WindowSlides(x) \/ BackoffEnds(x)
        PROVE  NoneLater(d) /\ (devState'[d] # "RETIRED" => OneFewer(d))
    BY <1>4, <1>a DEF DeviceFlips, WindowSlides, BackoffEnds, registryVars, loopVars, episodeVars
  <1>5. CASE UNCHANGED vars
    BY <1>5, <1>a DEF vars, registryVars, loopVars, episodeVars
  <1> QED
    BY <1>1, <1>2, <1>3, <1>4, <1>5, LateAfterCheck, LateAfterEpisode, LateAfterCaller
       DEF Next, Ends

\* RETIRED is undone only by somebody who decided before the device was retired, and
\* each of them can undo it once: an episode or a check of a retired device that
\* begins anew leaves it alone (health.py:165-170, 201, 294).
THEOREM OnlyTheLateUndo == Spec => UndoneByTheLate
  <1> DEFINE Inv == Typed /\ Known /\ Counted /\ SlotsKeepOut /\ HoldsOne
  <1>1. Init => Inv
    BY TypedInit DEF Init, RegistryInit, Known, Counted, RetiredOscillated, FreeEpisode,
       SlotsKeepOut, Trying, HoldsOne
  <1>2. Inv /\ [Next]_vars => Inv'
    BY TypedNext, KnownNext, CountedNext, SlotsNext, HoldsNext
  <1>3. Inv /\ [Next]_vars =>
          [\A d \in Devices : devState[d] = "RETIRED" =>
              /\ Late(d)' \subseteq Late(d)
              /\ devState'[d] # "RETIRED" => Late(d)' # Late(d)]_vars
    BY LateAfterStep, LateShrinks
  <1> QED
    BY <1>1, <1>2, <1>3, PTL DEF Spec, UndoneByTheLate

\* Once nobody is left who decided earlier, a retired device stays retired.
RetiredForGood(d) == devState[d] = "RETIRED" /\ Late(d) = {}
ForGood == [][\A d \in Devices : RetiredForGood(d) => RetiredForGood(d)']_vars

\* The sense in which RETIRED is final (README.md:191): past the stragglers, no
\* sweep, episode, caller or refresh brings the device back.
THEOREM RetiredForGoodIsFinal == Spec => ForGood
  <1>1. ASSUME NEW d \in Devices, RetiredForGood(d), Late(d)' \subseteq Late(d),
               devState'[d] # "RETIRED" => Late(d)' # Late(d)
        PROVE  RetiredForGood(d)'
    BY <1>1 DEF RetiredForGood
  <1>2. [\A d \in Devices : devState[d] = "RETIRED" =>
            /\ Late(d)' \subseteq Late(d)
            /\ devState'[d] # "RETIRED" => Late(d)' # Late(d)]_vars
         => [\A d \in Devices : RetiredForGood(d) => RetiredForGood(d)']_vars
    BY <1>1 DEF RetiredForGood
  <1> QED
    BY <1>2, OnlyTheLateUndo, PTL DEF UndoneByTheLate, ForGood

-----------------------------------------------------------------------------
\* A recovery episode is bounded.

\* The moves an episode has before it at most, until its callback has run: its
\* start, a reconnect, a probe and a sleep per attempt that is left, the verdict,
\* and the callback.
MovesLeft(r) ==
    CASE r.pc = "created"   -> 3 * RecoveryAttempts + 2
      [] r.pc = "reconnect" -> 3 * (RecoveryAttempts - r.attempt) + 4
      [] r.pc = "probe"     -> 3 * (RecoveryAttempts - r.attempt) + 3
      [] r.pc = "sleep"     -> 3 * (RecoveryAttempts - r.attempt) + 2
      [] r.pc \in {"restore", "retire"} -> 2
      [] r.pc = "done"      -> 1
      [] OTHER              -> 0

\* Every step that touches an episode takes it nearer to its end, stop() included;
\* one that exists has an end before it.
EpisodeAdvances ==
    [][\A e \in Episodes : episode[e].pc # "free" =>
          /\ MovesLeft(episode[e]) \in 1..(3 * RecoveryAttempts + 2)
          /\ \/ episode'[e] = episode[e]
             \/ MovesLeft(episode'[e]) < MovesLeft(episode[e])]_vars

LEMMA MovesLeftIs ==
    ASSUME Typed, NEW e \in Episodes, episode[e].pc # "free"
    PROVE  MovesLeft(episode[e]) \in 1..(3 * RecoveryAttempts + 2)
  <1>1. episode[e] \in EpisodeRecords
    BY DEF Typed, TypeOK, EpisodeTypeOK
  <1> QED
    BY <1>1 DEF MovesLeft, EpisodeRecords, EpisodeStates

\* Where the pieces of the handlers leave the measure.
LEMMA GotoLeaves ==
    ASSUME Typed, NEW e \in Episodes, NEW p \in {"probe", "sleep", "restore", "retire", "done"},
           Goto(e, p)
    PROVE  MovesLeft(episode'[e]) =
              CASE p = "probe" -> 3 * (RecoveryAttempts - episode[e].attempt) + 3
                [] p = "sleep" -> 3 * (RecoveryAttempts - episode[e].attempt) + 2
                [] p \in {"restore", "retire"} -> 2
                [] OTHER -> 1
  <1>1. episode \in [Episodes -> EpisodeRecords] /\ episode[e] \in EpisodeRecords
    BY DEF Typed, TypeOK, EpisodeTypeOK
  <1>2. /\ episode'[e].pc = p
        /\ p \in {"probe", "sleep"} => episode'[e].attempt = episode[e].attempt
    BY <1>1 DEF Goto, EpisodeRecords
  <1> QED BY <1>2 DEF MovesLeft

LEMMA AttemptLeaves ==
    ASSUME Typed, NEW e \in Episodes, NEW n \in 1..RecoveryAttempts, Attempt(e, n)
    PROVE  MovesLeft(episode'[e]) \in {3 * (RecoveryAttempts - n) + 4, 1}
  <1>1. episode \in [Episodes -> EpisodeRecords] /\ episode[e] \in EpisodeRecords
    BY DEF Typed, TypeOK, EpisodeTypeOK
  <1>2. CASE Goto(e, "done")
    BY <1>2, GotoLeaves
  <1>3. CASE ~Goto(e, "done")
    <2>1. episode'[e].pc = "reconnect" /\ episode'[e].attempt = n
      BY <1>1, <1>3 DEF Attempt, EpisodeRecords
    <2> QED BY <2>1 DEF MovesLeft
  <1> QED BY <1>2, <1>3

LEMMA AttemptFailsLeaves ==
    ASSUME Typed, NEW e \in Episodes, AttemptFails(e)
    PROVE  MovesLeft(episode'[e]) \in
              {3 * (RecoveryAttempts - episode[e].attempt) + 2, 1}
  <1>1. CASE Goto(e, "sleep")
    BY <1>1, GotoLeaves
  <1>2. CASE Goto(e, "done")
    BY <1>2, GotoLeaves
  <1> QED BY <1>1, <1>2 DEF AttemptFails

\* An episode's own step.
LEMMA OwnStepAdvances ==
    ASSUME Typed, NEW e \in Episodes, Episode(e)
    PROVE  MovesLeft(episode'[e]) < MovesLeft(episode[e])
  <1>0. /\ episode \in [Episodes -> EpisodeRecords] /\ episode[e] \in EpisodeRecords
        /\ episode[e].attempt \in 1..RecoveryAttempts
        /\ episode[e].pc = "sleep" => episode[e].attempt + 1 \in 1..RecoveryAttempts
    BY DEF Typed, TypeOK, EpisodeTypeOK, EpisodesTyped, EpisodeRecords
  <1>1. CASE EpisodeBegins(e)
    <2>1. \/ \E p \in {"retire", "restore"} : Goto(e, p)
          \/ Attempt(e, 1)
      BY <1>1 DEF EpisodeBegins
    <2>2. MovesLeft(episode'[e]) < 3 * RecoveryAttempts + 2
      BY <2>1, GotoLeaves, AttemptLeaves
    <2> QED BY <1>1, <2>2 DEF EpisodeBegins, MovesLeft
  <1>2. CASE EpisodeReconnects(e)
    <2>1. MovesLeft(episode'[e]) < 3 * (RecoveryAttempts - episode[e].attempt) + 4
      BY <1>0, <1>2, GotoLeaves, AttemptFailsLeaves DEF EpisodeReconnects
    <2> QED BY <1>2, <2>1 DEF EpisodeReconnects, MovesLeft
  <1>3. CASE EpisodePinged(e)
    <2>1. MovesLeft(episode'[e]) < 3 * (RecoveryAttempts - episode[e].attempt) + 3
      BY <1>0, <1>3, GotoLeaves, AttemptFailsLeaves DEF EpisodePinged
    <2> QED BY <1>3, <2>1 DEF EpisodePinged, MovesLeft
  <1>4. CASE EpisodeWakes(e)
    <2>1. MovesLeft(episode'[e]) < 3 * (RecoveryAttempts - episode[e].attempt) + 2
      BY <1>0, <1>4, AttemptLeaves DEF EpisodeWakes
    <2> QED BY <1>4, <2>1 DEF EpisodeWakes, MovesLeft
  <1>5. CASE EpisodeRestores(e) \/ EpisodeRetires(e)
    <2>1. MovesLeft(episode'[e]) = 1
      BY <1>5, GotoLeaves DEF EpisodeRestores, EpisodeRetires
    <2> QED BY <1>5, <2>1 DEF EpisodeRestores, EpisodeRetires, MovesLeft
  <1>6. CASE EpisodeCallback(e)
    <2>1. episode'[e].pc = "free" /\ episode[e].pc = "done"
      BY <1>0, <1>6 DEF EpisodeCallback, FreeEpisode
    <2> QED BY <2>1 DEF MovesLeft
  <1> QED BY <1>1, <1>2, <1>3, <1>4, <1>5, <1>6 DEF Episode

\* Safety's half of EpisodesEnd: an episode makes at most 3 RecoveryAttempts + 2
\* moves and is never started over, so it ends unless one adb call or sleep lasts for
\* ever (health.py:278-351).
THEOREM EpisodeIsBounded == Spec => EpisodeAdvances
  <1> DEFINE Ok(e) == \/ episode'[e] = episode[e]
                      \/ MovesLeft(episode'[e]) < MovesLeft(episode[e])
  <1>1. Typed /\ [Next]_vars =>
          [\A e \in Episodes : episode[e].pc # "free" =>
              /\ MovesLeft(episode[e]) \in 1..(3 * RecoveryAttempts + 2)
              /\ Ok(e)]_vars
    <2> SUFFICES ASSUME Typed, Next, NEW e \in Episodes, episode[e].pc # "free"
                 PROVE  Ok(e)
      BY MovesLeftIs DEF vars
    <2>1. ASSUME NEW d \in Devices, Spawn(d) \/ UNCHANGED episodeVars PROVE Ok(e)
      BY <2>1, SpawnEffect DEF Typed, TypeOK, episodeVars
    <2>2. ASSUME NEW d \in Devices, Check(d) PROVE Ok(e)
      <3>1. Spawn(d) \/ UNCHANGED episodeVars
        BY <2>2 DEF Check, CheckBegins, CheckPinged, CheckRestores, CheckMarks, Healthy, Sick,
           Quarantine
      <3> QED BY <2>1, <3>1
    <2>3. ASSUME NEW f \in Episodes, Episode(f) PROVE Ok(e)
      <3>1. CASE f = e
        BY <2>3, <3>1, OwnStepAdvances
      <3>2. CASE f # e
        <4>1. CASE EpisodeCallback(f)
          BY <3>2, <4>1 DEF EpisodeCallback, Typed, TypeOK, EpisodeTypeOK
        <4>2. CASE ~EpisodeCallback(f)
          BY <2>3, <3>2, <4>2, EpisodeMoves
        <4> QED BY <4>1, <4>2
      <3> QED BY <3>1, <3>2
    <2>4. ASSUME NEW f \in Episodes, StopCancels(f) PROVE Ok(e)
      <3>1. CASE f = e /\ episode[e].pc \in Running
        <4>1. MovesLeft(episode'[e]) = 1
          BY <2>4, <3>1, GotoLeaves DEF StopCancels
        <4>2. episode[e] \in EpisodeRecords
          BY DEF Typed, TypeOK, EpisodeTypeOK
        <4>3. MovesLeft(episode[e]) > 1
          BY <3>1, <4>2 DEF MovesLeft, EpisodeRecords, EpisodeStates, Running
        <4> QED BY <4>1, <4>3
      <3>2. CASE ~(f = e /\ episode[e].pc \in Running)
        BY <2>4, <3>2 DEF StopCancels, Goto, Typed, TypeOK, EpisodeTypeOK
      <3> QED BY <3>1, <3>2
    <2>5. CASE Start \/ LoopSweeps \/ LoopPollFails \/ LoopSleeps \/ LoopWakes \/ Stop
                 \/ StopReturns \/ ApiRefresh
      BY <2>5 DEF Start, LoopSweeps, LoopPollFails, LoopSleeps, LoopWakes, Stop, StopReturns,
         ApiRefresh, episodeVars
    <2>6. ASSUME NEW w \in Workers, NEW d \in Devices,
                 CallerMarks(w, d) \/ CallerReleases(w, d) \/ CallerLeases(w, d) \/ CallerBlames(w, d)
          PROVE  Ok(e)
      <3>1. Spawn(d) \/ UNCHANGED episodeVars
        BY <2>6 DEF CallerMarks, CallerReleases, CallerLeases, CallerBlames, Quarantine
      <3> QED BY <2>1, <3>1
    <2>7. ASSUME NEW d \in Devices, DeviceFlips(d) \/ WindowSlides(d) \/ BackoffEnds(d)
          PROVE  Ok(e)
      BY <2>7 DEF DeviceFlips, WindowSlides, BackoffEnds, episodeVars
    <2> HIDE DEF Ok
    <2> QED
      BY <2>2, <2>3, <2>4, <2>5, <2>6, <2>7 DEF Next, Ends
  <1> QED
    BY <1>1, TypedInit, TypedNext, PTL DEF Spec, EpisodeAdvances
=============================================================================
