---------------------------- MODULE SessionProofs ----------------------------
(***************************************************************************)
(* Theorems about SessionManager, for every set of devices, kinds and      *)
(* callers, any number of attempts and drivers, with and without leases.   *)
(***************************************************************************)
EXTENDS SessionManager, SequenceTheorems, TLAPS

USE SessionAssumption

Holding == {"check", "close", "open", "backoff"}

\* What a caller knows: its driver is one of its key, the cache holds nothing else
\* while it holds the lock, its attempts are not used up, and under leases its
\* driver was not closed by anybody.
Sane(r) ==
    /\ r.pc # "idle" => r.key \in Keys
    /\ r.pc \in {"check", "close", "use"} => r.driver \in Opened /\ born[r.driver].key = r.key
    /\ r.pc \in {"close", "open", "backoff"} => sessions[r.key] = NoDriver
    /\ r.pc = "check" => sessions[r.key] \in {NoDriver, r.driver}
    /\ r.pc = "open" => r.attempt \in 1..MaxOpenAttempts
    /\ r.pc = "backoff" => r.attempt \in 1..MaxOpenAttempts /\ r.attempt # MaxOpenAttempts
    /\ leased /\ r.pc \in {"check", "use"} => r.driver \notin closed

\* The lock is one caller's, and so is a leased device.
Exclusive ==
    \A b, c \in Callers : b # c =>
      /\ caller[b].pc \in Holding /\ caller[c].pc \in Holding => caller[b].key # caller[c].key
      /\ leased /\ caller[b].pc # "idle" /\ caller[c].pc # "idle"
           => DeviceOf(caller[b].key) # DeviceOf(caller[c].key)

\* No generation is ahead of the counter of its key.
GenerationsCounted ==
    \A i \in Opened : born[i].generation <= generations[born[i].key]

IInv ==
    /\ TypeOK
    /\ \A c \in Callers : Sane(caller[c])
    /\ Exclusive
    /\ GenerationsCounted /\ GenerationsGrow /\ CachedIsCurrent

LEMMA InitOK == Init => IInv
  <1> SUFFICES ASSUME Init PROVE IInv OBVIOUS
  <1>1. Len(born) = 0 /\ born \in Seq([key : Keys, generation : Nat])
    BY EmptySeq DEF Init
  <1>2. Opened = {} BY <1>1 DEF Opened
  <1>3. Idle \in CallerRecords
    BY DEF Idle, CallerRecords, CallerPcs
  <1>4. TypeOK
    BY <1>1, <1>2, <1>3 DEF Init, TypeOK
  <1> QED
    BY <1>2, <1>4 DEF Init, IInv, Sane, Exclusive, GenerationsCounted, GenerationsGrow,
       CachedIsCurrent, Idle, Holding

-----------------------------------------------------------------------------
\* Steps that move one caller only.

\* A caller may move to any record that is sane, if it takes the lock only when
\* nobody has it and does not enter a device somebody leases.
LEMMA CallerMoves ==
    ASSUME IInv, NEW c \in Callers, NEW r \in CallerRecords, Sane(r),
           caller' = [caller EXCEPT ![c] = r],
           UNCHANGED <<leased, sessions, generations, born, closed, stale>>,
           alive' \subseteq Opened, old' \subseteq Opened,
           r.pc \in Holding =>
             \/ caller[c].pc \in Holding /\ caller[c].key = r.key
             \/ Holders(r.key) = {},
           r.pc # "idle" =>
             \/ caller[c].pc # "idle" /\ caller[c].key = r.key
             \/ leased => \A b \in Busy : DeviceOf(caller[b].key) # DeviceOf(r.key)
    PROVE  IInv'
  <1>1. caller' \in [Callers -> CallerRecords] /\ caller'[c] = r
        /\ \A b \in Callers : b # c => caller'[b] = caller[b]
    BY DEF IInv, TypeOK
  <1>2. Opened' = Opened BY DEF Opened
  <1>3. TypeOK' BY <1>1, <1>2 DEF IInv, TypeOK
  <1>4. \A b \in Callers : Sane(caller[b])'
    BY <1>1, <1>2 DEF IInv, Sane
  <1>5. Exclusive'
    <2> SUFFICES ASSUME NEW a \in Callers, NEW b \in Callers, a # b
                 PROVE  /\ caller'[a].pc \in Holding /\ caller'[b].pc \in Holding
                             => caller'[a].key # caller'[b].key
                        /\ leased' /\ caller'[a].pc # "idle" /\ caller'[b].pc # "idle"
                             => DeviceOf(caller'[a].key) # DeviceOf(caller'[b].key)
      BY DEF Exclusive
    <2>1. \A x \in Callers : x # c /\ r.pc \in Holding /\ caller[x].pc \in Holding
             => caller[x].key # r.key
      BY DEF IInv, Exclusive, Holders, Holding
    <2>2. \A x \in Callers : x # c /\ leased /\ r.pc # "idle" /\ caller[x].pc # "idle"
             => DeviceOf(caller[x].key) # DeviceOf(r.key)
      BY DEF IInv, Exclusive, Busy
    <2> QED BY <1>1, <2>1, <2>2 DEF IInv, Exclusive
  <1>6. GenerationsCounted' /\ GenerationsGrow' /\ CachedIsCurrent'
    BY <1>2 DEF IInv, GenerationsCounted, GenerationsGrow, CachedIsCurrent
  <1> QED BY <1>3, <1>4, <1>5, <1>6 DEF IInv

\* The records a caller moves through.
LEMMA Records ==
    ASSUME IInv, NEW c \in Callers
    PROVE  /\ Idle \in CallerRecords /\ Sane(Idle)
           /\ \A key \in Keys : [Idle EXCEPT !.pc = "lock", !.key = key] \in CallerRecords
           /\ \A pc \in CallerPcs : [caller[c] EXCEPT !.pc = pc] \in CallerRecords
           /\ \A n \in Drivers, pc \in CallerPcs :
                [[caller[c] EXCEPT !.pc = pc] EXCEPT !.driver = n] \in CallerRecords
           /\ [caller[c] EXCEPT !.late = TRUE] \in CallerRecords
  <1>1. caller[c] \in CallerRecords BY DEF IInv, TypeOK
  <1>2. Idle \in CallerRecords BY DEF Idle, CallerRecords, CallerPcs
  <1>3. Sane(Idle) BY DEF Sane, Idle
  <1>4. \A key \in Keys : [Idle EXCEPT !.pc = "lock", !.key = key] \in CallerRecords
    BY <1>2 DEF CallerRecords, CallerPcs
  <1> QED BY <1>1, <1>2, <1>3, <1>4 DEF CallerRecords

\* An attempt to open keeps the invariant when the caller holds the lock, or may
\* take it, and nothing is cached.
LEMMA TryOpenOK ==
    ASSUME IInv, NEW c \in Callers, NEW attempt \in 1..MaxOpenAttempts, TryOpen(c, attempt),
           caller[c].pc # "idle", sessions[caller[c].key] = NoDriver,
           caller[c].pc \in Holding \/ Holders(caller[c].key) = {},
           UNCHANGED <<leased, sessions, generations, born, closed, stale>>,
           alive' \subseteq Opened, old' \subseteq Opened
    PROVE  IInv'
  <1> DEFINE r == [caller[c] EXCEPT !.pc = "open", !.driver = NoDriver, !.attempt = attempt]
  <1>1. caller[c] \in CallerRecords /\ caller \in [Callers -> CallerRecords]
    BY DEF IInv, TypeOK
  <1>2. CASE caller[c].late
    <2>1. caller' = [caller EXCEPT ![c] = Idle] BY <1>1, <1>2 DEF TryOpen
    <2>2. Idle.pc = "idle" BY DEF Idle
    <2> QED BY <2>1, <2>2, Records, CallerMoves DEF Holding
  <1>3. CASE ~caller[c].late
    <2>1. caller' = [caller EXCEPT ![c] = r] BY <1>1, <1>3 DEF TryOpen
    <2>2. r \in CallerRecords
      <3>1. /\ "open" \in CallerPcs /\ NoDriver \in Drivers \cup {NoDriver}
            /\ attempt \in 0..MaxOpenAttempts
        BY DEF CallerPcs
      <3> QED BY <1>1, <3>1 DEF CallerRecords
    <2>3. r.pc = "open" /\ r.key = caller[c].key /\ r.attempt = attempt
      BY <1>1 DEF CallerRecords
    <2>4. Sane(r) BY <2>3 DEF IInv, Sane
    <2> HIDE DEF r
    <2> QED BY <2>1, <2>2, <2>3, <2>4, CallerMoves DEF Holding
  <1> QED BY <1>2, <1>3

\* Asking, moving on, and leaving.
LEMMA CallerSteps ==
    ASSUME IInv, NEW c \in Callers,
           \/ \E key \in Keys : Ensure(c, key)
           \/ EnterEmpty(c) \/ EnterCached(c) \/ CheckPasses(c) \/ CloseReturns(c)
           \/ OpenFails(c) \/ BackoffEnds(c) \/ UseEnds(c) \/ DeadlinePasses(c)
           \/ Cancelled(c)
    PROVE  IInv'
  <1>1. /\ caller[c] \in CallerRecords /\ caller \in [Callers -> CallerRecords]
        /\ Sane(caller[c]) /\ alive \subseteq Opened /\ old \subseteq Opened
        /\ sessions \in [Keys -> Opened \cup {NoDriver}] /\ Opened \subseteq Drivers
    <2>1. Len(born) \in Nat /\ Len(born) <= MaxDrivers BY LenProperties DEF IInv, TypeOK
    <2>2. Opened \subseteq Drivers BY <2>1 DEF Opened, Drivers
    <2> QED BY <2>2 DEF IInv, TypeOK
  <1>2. ASSUME NEW key \in Keys, Ensure(c, key) PROVE IInv'
    <2> DEFINE r == [Idle EXCEPT !.pc = "lock", !.key = key]
    <2>1. r \in CallerRecords BY Records
    <2>2. r.pc = "lock" /\ r.key = key BY DEF Idle
    <2>3. Sane(r) BY <2>2 DEF Sane
    <2>4. /\ caller' = [caller EXCEPT ![c] = r]
          /\ leased => \A b \in Busy : DeviceOf(caller[b].key) # DeviceOf(key)
      BY <1>2 DEF Ensure
    <2> HIDE DEF r
    <2> QED BY <1>1, <1>2, <2>1, <2>2, <2>3, <2>4, CallerMoves DEF Ensure, Holding, driverVars
  <1>3. CASE EnterEmpty(c)
    BY <1>1, <1>3, TryOpenOK DEF EnterEmpty, Enters, driverVars
  <1>4. CASE EnterCached(c)
    <2> DEFINE n == sessions[caller[c].key]
               r == [[caller[c] EXCEPT !.pc = "check"] EXCEPT !.driver = n]
    <2>1. caller[c].pc = "lock" /\ caller[c].key \in Keys /\ Holders(caller[c].key) = {}
          /\ n \in Opened /\ n # NoDriver
      BY <1>1, <1>4 DEF EnterCached, Enters, Sane
    <2>2. r \in CallerRecords BY <1>1, <2>1, Records DEF CallerPcs
    <2>3. r.pc = "check" /\ r.key = caller[c].key /\ r.driver = n
      BY <1>1 DEF CallerRecords
    <2>4. born[n].key = caller[c].key /\ n \notin closed
      <3>1. \A key \in Keys : sessions[key] # NoDriver =>
              /\ born[sessions[key]] = [key |-> key, generation |-> generations[key]]
              /\ sessions[key] \notin closed
        BY DEF IInv, CachedIsCurrent
      <3>2. born[n] = [key |-> caller[c].key, generation |-> generations[caller[c].key]]
            /\ n \notin closed
        BY <2>1, <3>1
      <3> QED BY <3>2
    <2>5. Sane(r) BY <2>1, <2>3, <2>4 DEF Sane
    <2>6. caller' = [caller EXCEPT ![c] = r] BY <1>1, <1>4 DEF EnterCached
    <2> HIDE DEF r, n
    <2> QED BY <1>1, <1>4, <2>1, <2>2, <2>3, <2>5, <2>6, CallerMoves DEF EnterCached, driverVars
  <1>5. CASE CheckPasses(c)
    <2> DEFINE r == [caller[c] EXCEPT !.pc = "use"]
    <2>1. r \in CallerRecords BY Records DEF CallerPcs
    <2>2. r.pc = "use" /\ r.key = caller[c].key /\ r.driver = caller[c].driver
      BY <1>1 DEF CallerRecords
    <2>3. caller[c].pc = "check" /\ caller' = [caller EXCEPT ![c] = r]
      BY <1>1, <1>5 DEF CheckPasses
    <2>4. Sane(r) BY <1>1, <2>2, <2>3 DEF Sane
    <2> HIDE DEF r
    <2> QED BY <1>1, <1>5, <2>1, <2>2, <2>3, <2>4, CallerMoves DEF CheckPasses, driverVars, Holding
  <1>6. CASE CloseReturns(c)
    <2>1. caller[c].pc = "close" /\ sessions[caller[c].key] = NoDriver
      BY <1>1, <1>6 DEF CloseReturns, Sane
    <2> QED BY <1>1, <1>6, <2>1, TryOpenOK DEF CloseReturns, Holding
  <1>7. CASE OpenFails(c)
    <2> DEFINE r == [caller[c] EXCEPT !.pc = "backoff"]
    <2>1. r \in CallerRecords BY Records DEF CallerPcs
    <2>2. r.pc = "backoff" /\ r.key = caller[c].key /\ r.attempt = caller[c].attempt
      BY <1>1 DEF CallerRecords
    <2>3. caller[c].pc = "open" BY <1>7 DEF OpenFails
    <2>4. CASE caller[c].attempt = MaxOpenAttempts
      <3>1. caller' = [caller EXCEPT ![c] = Idle] BY <1>1, <1>7, <2>4 DEF OpenFails
      <3>2. Idle.pc = "idle" BY DEF Idle
      <3> QED BY <1>1, <1>7, <3>1, <3>2, Records, CallerMoves DEF OpenFails, driverVars, Holding
    <2>5. CASE caller[c].attempt # MaxOpenAttempts
      <3>1. caller' = [caller EXCEPT ![c] = r] BY <1>1, <1>7, <2>5 DEF OpenFails
      <3>2. Sane(r) BY <1>1, <2>2, <2>3, <2>5 DEF Sane
      <3> HIDE DEF r
      <3> QED BY <1>1, <1>7, <2>1, <2>2, <2>3, <3>1, <3>2, CallerMoves DEF OpenFails, driverVars, Holding
    <2> QED BY <2>4, <2>5
  <1>8. CASE BackoffEnds(c)
    <2>1. /\ caller[c].pc = "backoff" /\ sessions[caller[c].key] = NoDriver
          /\ caller[c].attempt + 1 \in 1..MaxOpenAttempts
      BY <1>1, <1>8 DEF BackoffEnds, Sane
    <2> QED BY <1>1, <1>8, <2>1, TryOpenOK DEF BackoffEnds, Holding, driverVars
  <1>9. CASE UseEnds(c) \/ Cancelled(c)
    <2>1. caller' = [caller EXCEPT ![c] = Idle] /\ Idle.pc = "idle"
      BY <1>9 DEF UseEnds, Cancelled, Idle
    <2>2. alive' \subseteq Opened /\ old' \subseteq Opened
      BY <1>1, <1>9 DEF UseEnds, Cancelled, driverVars
    <2> QED BY <1>9, <2>1, <2>2, Records, CallerMoves DEF UseEnds, Cancelled, driverVars, Holding
  <1>10. CASE DeadlinePasses(c)
    <2> DEFINE r == [caller[c] EXCEPT !.late = TRUE]
    <2>1. r \in CallerRecords BY Records
    <2>2. /\ r.pc = caller[c].pc /\ r.key = caller[c].key /\ r.driver = caller[c].driver
          /\ r.attempt = caller[c].attempt
      BY <1>1 DEF CallerRecords
    <2>3. Sane(r) BY <1>1, <2>2 DEF Sane
    <2>4. caller' = [caller EXCEPT ![c] = r] BY <1>1, <1>10 DEF DeadlinePasses
    <2> HIDE DEF r
    <2> QED BY <1>1, <1>10, <2>1, <2>2, <2>3, <2>4, CallerMoves DEF DeadlinePasses, driverVars
  <1> QED
    BY <1>2, <1>3, <1>4, <1>5, <1>6, <1>7, <1>8, <1>9, <1>10

-----------------------------------------------------------------------------
\* Steps that change the cache.

LEMMA Types ==
    ASSUME IInv
    PROVE  /\ caller \in [Callers -> CallerRecords]
           /\ sessions \in [Keys -> Opened \cup {NoDriver}]
           /\ generations \in [Keys -> Nat]
           /\ Len(born) \in Nat /\ Len(born) <= MaxDrivers /\ Opened \subseteq Drivers
           /\ \A i \in Opened : born[i].key \in Keys /\ born[i].generation \in Nat
           /\ NoDriver \notin Opened
  <1>1. Len(born) \in Nat /\ Len(born) <= MaxDrivers
    BY LenProperties DEF IInv, TypeOK
  <1>2. Opened \subseteq Drivers /\ NoDriver \notin Opened
    BY <1>1 DEF Opened, Drivers, NoDriver
  <1>3. \A i \in Opened : born[i] \in [key : Keys, generation : Nat]
    BY ElementOfSeq DEF IInv, TypeOK, Opened
  <1> QED BY <1>1, <1>2, <1>3 DEF IInv, TypeOK

\* _discard() by a caller that holds the lock or just took it: nobody else can have
\* the session in the cache, and under leases nobody else can be using it.
LEMMA DiscardOK ==
    ASSUME IInv, NEW c \in Callers, NEW n \in Opened, Discard(c, n),
           caller[c].pc # "idle", born[n].key = caller[c].key,
           caller[c].pc \in Holding \/ Holders(caller[c].key) = {},
           UNCHANGED <<leased, generations, driverVars, stale>>
    PROVE  IInv'
  <1> DEFINE key == caller[c].key
             r == [[caller[c] EXCEPT !.pc = "close"] EXCEPT !.driver = n]
  <1>1. caller[c] \in CallerRecords /\ Sane(caller[c]) /\ key \in Keys
    BY Types DEF IInv, Sane
  <1>2. r \in CallerRecords /\ r.pc = "close" /\ r.key = key /\ r.driver = n
    <2>1. n \in Drivers /\ "close" \in CallerPcs BY Types DEF CallerPcs
    <2>2. r \in CallerRecords BY <2>1, Records
    <2> QED BY <1>1, <2>2 DEF CallerRecords
  <1>3. caller' = [caller EXCEPT ![c] = r] BY <1>1, Types DEF Discard
  <1> HIDE DEF r
  <1>4. /\ caller' \in [Callers -> CallerRecords] /\ caller'[c] = r
        /\ \A b \in Callers : b # c => caller'[b] = caller[b]
    BY <1>2, <1>3, Types
  <1>5. /\ sessions' \in [Keys -> Opened \cup {NoDriver}] /\ sessions'[key] = NoDriver
        /\ \A k \in Keys : sessions'[k] = sessions[k] \/ sessions'[k] = NoDriver
        /\ \A k \in Keys : k # key => sessions'[k] = sessions[k]
    BY <1>1, Types DEF Discard
  <1>6. closed' = closed \cup {n} BY DEF Discard
  <1>7. UNCHANGED <<leased, generations, born, alive, old, stale>> /\ Opened' = Opened
    BY DEF driverVars, Opened
  <1>8. TypeOK'
    BY <1>4, <1>5, <1>6, <1>7 DEF IInv, TypeOK
  <1>9. ASSUME NEW b \in Callers PROVE Sane(caller[b])'
    <2>1. CASE b = c
      BY <1>1, <1>2, <1>4, <1>5, <1>7, <2>1 DEF Sane
    <2>2. CASE b # c
      <3>1. Sane(caller[b]) /\ caller'[b] = caller[b] BY <1>4, <2>2 DEF IInv
      <3>2. leased /\ caller[b].pc \in {"check", "use"} => caller[b].driver \notin closed'
        BY <1>6, <2>2, <3>1 DEF IInv, Sane, Exclusive
      <3> QED BY <1>5, <1>7, <3>1, <3>2 DEF Sane
    <2> QED BY <2>1, <2>2
  <1>10. Exclusive'
    <2> SUFFICES ASSUME NEW a \in Callers, NEW b \in Callers, a # b
                 PROVE  /\ caller'[a].pc \in Holding /\ caller'[b].pc \in Holding
                             => caller'[a].key # caller'[b].key
                        /\ leased' /\ caller'[a].pc # "idle" /\ caller'[b].pc # "idle"
                             => DeviceOf(caller'[a].key) # DeviceOf(caller'[b].key)
      BY DEF Exclusive
    <2>1. \A x \in Callers : x # c /\ caller[x].pc \in Holding => caller[x].key # key
      BY DEF IInv, Exclusive, Holders, Holding
    <2>2. \A x \in Callers : x # c /\ leased /\ caller[x].pc # "idle"
             => DeviceOf(caller[x].key) # DeviceOf(key)
      BY DEF IInv, Exclusive
    <2> QED BY <1>2, <1>4, <1>7, <2>1, <2>2 DEF IInv, Exclusive
  <1>11. GenerationsCounted' /\ GenerationsGrow'
    BY <1>7 DEF IInv, GenerationsCounted, GenerationsGrow
  <1>12. CachedIsCurrent'
    <2> SUFFICES ASSUME NEW k \in Keys, sessions'[k] # NoDriver
                 PROVE  /\ born[sessions'[k]] = [key |-> k, generation |-> generations[k]]
                        /\ sessions'[k] \notin closed' /\ sessions'[k] \notin stale
      BY <1>7 DEF CachedIsCurrent
    <2>1. k # key /\ sessions'[k] = sessions[k] BY <1>5
    <2>2. born[sessions[k]] = [key |-> k, generation |-> generations[k]]
          /\ sessions[k] \notin closed /\ sessions[k] \notin stale
      BY <2>1 DEF IInv, CachedIsCurrent
    <2>3. born[sessions[k]].key = k BY <2>2
    <2> QED BY <1>6, <2>1, <2>2, <2>3
  <1> QED BY <1>8, <1>9, <1>10, <1>11, <1>12 DEF IInv

\* A new driver is stored by the caller that holds the lock.
LEMMA StoreOK ==
    ASSUME IInv, NEW c \in Callers, OpenSucceeds(c)
    PROVE  IInv'
  <1> DEFINE key == caller[c].key
             n == Len(born) + 1
             g == generations[key] + 1
             r == [[caller[c] EXCEPT !.pc = "use"] EXCEPT !.driver = n]
  <1>1. /\ caller[c] \in CallerRecords /\ Sane(caller[c]) /\ caller[c].pc = "open"
        /\ key \in Keys /\ n \in Drivers /\ sessions[key] = NoDriver
    BY Types DEF IInv, Sane, OpenSucceeds, Store
  <1>2. g \in Nat /\ [key |-> key, generation |-> g] \in [key : Keys, generation : Nat]
    BY <1>1, Types
  <1>3. r \in CallerRecords /\ r.pc = "use" /\ r.key = key /\ r.driver = n
    <2>1. "use" \in CallerPcs BY DEF CallerPcs
    <2>2. r \in CallerRecords BY <1>1, <2>1, Records
    <2> QED BY <1>1, <2>2 DEF CallerRecords
  <1>4. /\ born' = Append(born, [key |-> key, generation |-> g])
        /\ alive' = alive \cup {n} /\ generations' = [generations EXCEPT ![key] = g]
        /\ sessions' = [sessions EXCEPT ![key] = n] /\ caller' = [caller EXCEPT ![c] = r]
        /\ UNCHANGED <<leased, old, closed, stale>>
    BY <1>1, Types DEF OpenSucceeds, Store
  <1>5. /\ born' \in Seq([key : Keys, generation : Nat]) /\ Len(born') = n
        /\ \A i \in Opened : born'[i] = born[i]
        /\ born'[n] = [key |-> key, generation |-> g]
    BY <1>2, <1>4, AppendProperties DEF IInv, TypeOK, Opened
  <1> HIDE DEF r
  <1>6. Opened' = Opened \cup {n} /\ n \notin Opened /\ Len(born') <= MaxDrivers
    BY <1>1, <1>5, Types DEF Opened, Drivers
  <1>7. /\ caller' \in [Callers -> CallerRecords] /\ caller'[c] = r
        /\ \A b \in Callers : b # c => caller'[b] = caller[b]
    BY <1>3, <1>4, Types
  <1>8. /\ sessions' \in [Keys -> Opened' \cup {NoDriver}] /\ sessions'[key] = n
        /\ \A k \in Keys : k # key => sessions'[k] = sessions[k]
    BY <1>1, <1>4, <1>6, Types
  <1>9. /\ generations' \in [Keys -> Nat] /\ generations'[key] = g
        /\ \A k \in Keys : k # key => generations'[k] = generations[k]
    BY <1>1, <1>2, <1>4, Types
  <1> HIDE DEF n, g, key
  <1>10. TypeOK'
    BY <1>4, <1>5, <1>6, <1>7, <1>8, <1>9 DEF IInv, TypeOK
  <1>11. ASSUME NEW b \in Callers PROVE Sane(caller[b])'
    <2>1. CASE b = c
      <3>1. n \notin closed BY <1>6 DEF IInv, TypeOK
      <3> QED BY <1>1, <1>3, <1>4, <1>5, <1>6, <1>7, <2>1, <3>1 DEF Sane
    <2>2. CASE b # c
      <3>1. Sane(caller[b]) /\ caller'[b] = caller[b] BY <1>7, <2>2 DEF IInv
      <3>2. caller[b].pc \in Holding => caller[b].key # key
        BY <1>1, <2>2 DEF IInv, Exclusive, Holding, key
      <3>3. caller[b].pc \in {"check", "close", "use"} => caller[b].driver \in Opened'
                /\ born'[caller[b].driver].key = caller[b].key
        BY <1>5, <1>6, <3>1 DEF Sane
      <3>4. caller[b].pc \in Holding => sessions'[caller[b].key] = sessions[caller[b].key]
        BY <1>8, <3>1, <3>2 DEF Sane, Holding
      <3>5. /\ caller[b].pc \in {"close", "open", "backoff"} => sessions'[caller[b].key] = NoDriver
            /\ caller[b].pc = "check" => sessions'[caller[b].key] \in {NoDriver, caller[b].driver}
        BY <3>1, <3>4 DEF Sane, Holding
      <3>6. leased' = leased /\ closed' = closed BY <1>4
      <3> QED BY <3>1, <3>3, <3>5, <3>6 DEF Sane
    <2> QED BY <2>1, <2>2
  <1>12. Exclusive'
    BY <1>1, <1>3, <1>4, <1>7 DEF IInv, Exclusive, Holding, key
  <1>13. GenerationsCounted'
    <2> SUFFICES ASSUME NEW i \in Opened' PROVE born'[i].generation <= generations'[born'[i].key]
      BY DEF GenerationsCounted
    <2>1. CASE i = n BY <1>2, <1>5, <1>9, <2>1
    <2>2. CASE i \in Opened
      <3>1. born[i].generation <= generations[born[i].key] /\ born[i].generation \in Nat
            /\ born[i].key \in Keys /\ generations[key] \in Nat /\ g = generations[key] + 1
        BY <1>1, <2>2, Types DEF IInv, GenerationsCounted, g
      <3>2. born'[i] = born[i] BY <1>5, <2>2
      <3>3. CASE born[i].key = key
        <4>1. generations'[born[i].key] = generations[key] + 1 BY <1>9, <3>1, <3>3
        <4>2. born[i].generation <= generations[key] BY <3>1, <3>3
        <4> DEFINE was == generations[key]
                   own == born[i].generation
        <4>3. was \in Nat /\ own \in Nat /\ own <= was BY <3>1, <4>2
        <4> HIDE DEF was, own
        <4>4. own <= was + 1 BY <4>3
        <4> QED BY <3>2, <4>1, <4>4 DEF was, own
      <3>4. CASE born[i].key # key
        <4>1. generations'[born[i].key] = generations[born[i].key] BY <1>9, <3>1, <3>4
        <4> QED BY <3>1, <3>2, <4>1
      <3> QED BY <3>3, <3>4
    <2> QED BY <1>6, <2>1, <2>2
  <1>14. GenerationsGrow'
    <2> SUFFICES ASSUME NEW i \in Opened', NEW j \in Opened', i < j, born'[i].key = born'[j].key
                 PROVE  born'[i].generation < born'[j].generation
      BY DEF GenerationsGrow
    <2>1. CASE j = n
      <3>1. i \in Opened BY <1>6, <2>1, Types DEF Opened, n
      <3>2. born[i].generation <= generations[key] /\ born[i].generation \in Nat
            /\ generations[key] \in Nat /\ g = generations[key] + 1
        BY <1>1, <1>5, <2>1, <3>1, Types DEF IInv, GenerationsCounted, g
      <3> QED BY <1>5, <2>1, <3>1, <3>2
    <2>2. CASE j \in Opened
      <3>1. i \in Opened BY <1>6, <2>2, Types DEF Opened, n
      <3> QED BY <1>5, <2>2, <3>1 DEF IInv, GenerationsGrow
    <2> QED BY <1>6, <2>1, <2>2
  <1>15. CachedIsCurrent'
    <2> SUFFICES ASSUME NEW k \in Keys, sessions'[k] # NoDriver
                 PROVE  /\ born'[sessions'[k]] = [key |-> k, generation |-> generations'[k]]
                        /\ sessions'[k] \notin closed /\ sessions'[k] \notin stale
      BY <1>4 DEF CachedIsCurrent
    <2>1. CASE k = key
      <3>1. n \notin closed /\ n \notin stale BY <1>6 DEF IInv, TypeOK
      <3> QED BY <1>5, <1>8, <1>9, <2>1, <3>1
    <2>2. CASE k # key
      <3>1. sessions[k] \in Opened BY <1>8, <2>2, Types
      <3>2. born[sessions[k]] = [key |-> k, generation |-> generations[k]]
            /\ sessions[k] \notin closed /\ sessions[k] \notin stale
        BY <1>8, <2>2 DEF IInv, CachedIsCurrent
      <3> QED BY <1>5, <1>8, <1>9, <2>2, <3>1, <3>2
    <2> QED BY <2>1, <2>2
  <1> QED BY <1>10, <1>11, <1>12, <1>13, <1>14, <1>15 DEF IInv

\* Dropping sessions takes them out of the cache before it calls them stale.
LEMMA DropOK ==
    ASSUME IInv, NEW keys \in SUBSET Keys, Drop(keys), UNCHANGED closed
    PROVE  IInv'
  <1>1. /\ UNCHANGED <<leased, generations, caller, born, alive, old, closed>> /\ Opened' = Opened
        /\ stale' = stale \cup {n \in Opened : born[n].key \in keys}
    BY DEF Drop, driverVars, Opened
  <1>2. /\ sessions' \in [Keys -> Opened \cup {NoDriver}]
        /\ \A k \in keys : sessions'[k] = NoDriver
        /\ \A k \in Keys : sessions'[k] = sessions[k] \/ sessions'[k] = NoDriver
    BY Types DEF Drop
  <1>3. TypeOK' BY <1>1, <1>2 DEF IInv, TypeOK
  <1>4. \A c \in Callers : Sane(caller[c])'
    BY <1>1, <1>2 DEF IInv, Sane
  <1>5. CachedIsCurrent'
    <2> SUFFICES ASSUME NEW k \in Keys, sessions'[k] # NoDriver
                 PROVE  /\ born[sessions'[k]] = [key |-> k, generation |-> generations[k]]
                        /\ sessions'[k] \notin closed /\ sessions'[k] \notin stale'
      BY <1>1 DEF CachedIsCurrent
    <2>1. k \notin keys /\ sessions'[k] = sessions[k] BY <1>2
    <2>2. born[sessions[k]] = [key |-> k, generation |-> generations[k]]
          /\ sessions[k] \notin closed /\ sessions[k] \notin stale
      BY <2>1 DEF IInv, CachedIsCurrent
    <2>3. born[sessions[k]].key = k BY <2>2
    <2> QED BY <1>1, <2>1, <2>2, <2>3
  <1>6. Exclusive' /\ GenerationsCounted' /\ GenerationsGrow'
    BY <1>1 DEF IInv, Exclusive, GenerationsCounted, GenerationsGrow
  <1> QED BY <1>3, <1>4, <1>5, <1>6 DEF IInv

\* Nothing the invariant looks at depends on whether a driver answers or is old.
LEMMA DriverOK ==
    ASSUME IInv, alive' \subseteq Opened, old' \subseteq Opened,
           UNCHANGED <<leased, sessions, generations, caller, born, closed, stale>>
    PROVE  IInv'
  BY DEF IInv, TypeOK, Opened, Sane, Exclusive, GenerationsCounted, GenerationsGrow,
     CachedIsCurrent

LEMMA NextOK == IInv /\ [Next]_vars => IInv'
  <1> SUFFICES ASSUME IInv, [Next]_vars PROVE IInv' OBVIOUS
  <1>1. alive \subseteq Opened /\ old \subseteq Opened /\ \A c \in Callers : Sane(caller[c])
    BY DEF IInv, TypeOK
  <1>2. ASSUME NEW c \in Callers,
               \/ \E key \in Keys : Ensure(c, key)
               \/ EnterEmpty(c) \/ EnterCached(c) \/ CheckPasses(c) \/ CloseReturns(c)
               \/ OpenFails(c) \/ BackoffEnds(c) \/ UseEnds(c) \/ DeadlinePasses(c)
               \/ Cancelled(c)
        PROVE  IInv'
    BY <1>2, CallerSteps
  <1>3. ASSUME NEW c \in Callers, EnterOld(c) PROVE IInv'
    <2> DEFINE n == sessions[caller[c].key]
    <2>1. /\ caller[c].pc = "lock" /\ Holders(caller[c].key) = {} /\ caller[c].key \in Keys
          /\ n \in Opened /\ n # NoDriver
      BY <1>1, <1>3, Types DEF EnterOld, Enters, Sane
    <2>2. born[n] = [key |-> caller[c].key, generation |-> generations[caller[c].key]]
      BY <2>1 DEF IInv, CachedIsCurrent
    <2>3. born[n].key = caller[c].key BY <2>2
    <2> QED BY <1>3, <2>1, <2>3, DiscardOK DEF EnterOld
  <1>4. ASSUME NEW c \in Callers, CheckFails(c) PROVE IInv'
    BY <1>1, <1>4, DiscardOK DEF CheckFails, Sane, Holding
  <1>5. ASSUME NEW c \in Callers, OpenSucceeds(c) PROVE IInv'
    BY <1>5, StoreOK
  <1>6. ASSUME NEW d \in Devices, Invalidate(d) PROVE IInv'
    BY <1>6, DropOK DEF Invalidate
  <1>7. CASE CloseAll BY <1>7, DropOK DEF CloseAll
  <1>8. ASSUME NEW n \in Drivers, DriverDies(n) \/ DriverAges(n) PROVE IInv'
    <2>1. Cached \subseteq Opened BY Types DEF Cached
    <2> QED BY <1>1, <1>8, <2>1, DriverOK DEF DriverDies, DriverAges
  <1>9. CASE UNCHANGED vars
    BY <1>1, <1>9, DriverOK DEF vars, driverVars
  <1> QED
    BY <1>2, <1>3, <1>4, <1>5, <1>6, <1>7, <1>8, <1>9 DEF Next, EnsureStep

LEMMA Invariance == Spec => []IInv
  BY InitOK, NextOK, PTL DEF Spec

-----------------------------------------------------------------------------
\* Theorems.

\* The manager's variables keep their types: no attempt too many, no handle of a
\* driver that was never opened.
THEOREM TypeCorrect == Spec => []TypeOK
  <1>1. IInv => TypeOK BY DEF IInv
  <1> QED BY <1>1, Invariance, PTL

\* A generation names one session of its key for ever.
THEOREM GenerationsName == Spec => []GenerationsGrow
  <1>1. IInv => GenerationsGrow BY DEF IInv
  <1> QED BY <1>1, Invariance, PTL

\* The cache never holds a session that was invalidated, closed or superseded.
THEOREM CacheIsFresh == Spec => []CachedIsCurrent
  <1>1. IInv => CachedIsCurrent BY DEF IInv
  <1> QED BY <1>1, Invariance, PTL

\* Under leases the session an attempt uses is closed by nobody.
THEOREM UseIsSafe == Spec => []InUseNotClosed
  <1>1. IInv => InUseNotClosed BY DEF IInv, Sane, InUseNotClosed
  <1> QED BY <1>1, Invariance, PTL

\* The lock of a key keeps two callers from overwriting each other's session.
THEOREM NoSessionLost == Spec => NeverOverwritten
  <1>1. IInv /\ [Next]_vars => [\A key \in Keys :
           sessions[key] = NoDriver \/ sessions'[key] \in {NoDriver, sessions[key]}]_vars
    <2> SUFFICES ASSUME IInv, Next, NEW key \in Keys
                 PROVE  sessions[key] = NoDriver \/ sessions'[key] \in {NoDriver, sessions[key]}
      BY DEF vars
    <2>1. ASSUME NEW c \in Callers, OpenSucceeds(c)
          PROVE  sessions[key] = NoDriver \/ sessions'[key] = sessions[key]
      BY <2>1, Types DEF OpenSucceeds, Store, IInv, Sane
    <2>2. ASSUME NEW c \in Callers, NEW n, Discard(c, n)
          PROVE  sessions'[key] \in {NoDriver, sessions[key]}
      BY <2>2, Types DEF Discard
    <2>3. ASSUME NEW c \in Callers,
                 (\E k \in Keys : Ensure(c, k)) \/ EnsureStep(c) \/ UseEnds(c)
                   \/ DeadlinePasses(c) \/ Cancelled(c)
          PROVE  sessions[key] = NoDriver \/ sessions'[key] \in {NoDriver, sessions[key]}
      BY <2>1, <2>2, <2>3 DEF Ensure, EnsureStep, EnterEmpty, EnterOld, EnterCached, CheckPasses,
         CheckFails, CloseReturns, OpenFails, BackoffEnds, UseEnds, DeadlinePasses, Cancelled
    <2>4. ASSUME NEW keys \in SUBSET Keys, Drop(keys)
          PROVE  sessions'[key] \in {NoDriver, sessions[key]}
      BY <2>4 DEF Drop
    <2>5. ASSUME NEW n \in Drivers, DriverDies(n) \/ DriverAges(n)
          PROVE  sessions'[key] = sessions[key]
      BY <2>5 DEF DriverDies, DriverAges
    <2>6. CASE CloseAll \/ \E d \in Devices : Invalidate(d)
      BY <2>4, <2>6 DEF CloseAll, Invalidate
    <2> QED BY <2>3, <2>5, <2>6 DEF Next
  <1> QED BY <1>1, Invariance, PTL DEF Spec, NeverOverwritten

\* ensure() returns what answers, and what belongs to the caller's key.
THEOREM EnsureIsVerified == Spec => ReturnsLive
  <1> DEFINE Live(c) == (caller[c].pc # "use" /\ caller'[c].pc = "use") =>
                          LET n == caller'[c].driver
                          IN n \in alive' /\ born'[n].key = caller[c].key
  <1>1. IInv /\ [Next]_vars => [\A c \in Callers : Live(c)]_vars
    <2> SUFFICES ASSUME IInv, Next, NEW c \in Callers,
                        caller[c].pc # "use", caller'[c].pc = "use"
                 PROVE  caller'[c].driver \in alive' /\ born'[caller'[c].driver].key = caller[c].key
      BY DEF vars
    <2>1. caller \in [Callers -> CallerRecords] /\ Idle.pc = "idle" BY Types DEF Idle
    <2>2. caller[c] \in CallerRecords /\ Sane(caller[c]) BY <2>1 DEF IInv
    <2>3. CASE CheckPasses(c)
      BY <2>1, <2>2, <2>3 DEF CheckPasses, driverVars, Sane, CallerRecords
    <2>4. CASE OpenSucceeds(c)
      <3>1. /\ caller[c].key \in Keys /\ caller[c].pc = "open" BY <2>2, <2>4 DEF OpenSucceeds, Store, Sane
      <3>2. [key |-> caller[c].key, generation |-> generations[caller[c].key] + 1]
              \in [key : Keys, generation : Nat]
        BY <3>1, Types
      <3>3. born'[Len(born) + 1] = [key |-> caller[c].key, generation |-> generations[caller[c].key] + 1]
        BY <2>4, <3>2, AppendProperties DEF OpenSucceeds, Store, IInv, TypeOK
      <3>4. caller'[c].driver = Len(born) + 1 /\ alive' = alive \cup {Len(born) + 1}
        BY <2>1, <2>2, <2>4 DEF OpenSucceeds, Store, CallerRecords
      <3> QED BY <3>3, <3>4
    <2>5. ASSUME NEW b \in Callers, b # c, CheckPasses(b) \/ OpenSucceeds(b) PROVE FALSE
      BY <2>1, <2>5 DEF CheckPasses, OpenSucceeds, Store
    <2>6. ASSUME NEW b \in Callers, NEW n, Discard(b, n) PROVE FALSE
      BY <2>1, <2>6 DEF Discard, CallerRecords
    <2>7. ASSUME NEW b \in Callers, NEW n, TryOpen(b, n) PROVE FALSE
      BY <2>1, <2>7 DEF TryOpen, CallerRecords
    <2>8. ASSUME NEW b \in Callers, NEW key \in Keys, Ensure(b, key) PROVE FALSE
      BY <2>1, <2>8 DEF Ensure, Idle
    <2>9. ASSUME NEW b \in Callers,
                 EnterCached(b) \/ OpenFails(b) \/ UseEnds(b) \/ DeadlinePasses(b) \/ Cancelled(b)
          PROVE  FALSE
      BY <2>1, <2>9 DEF EnterCached, OpenFails, UseEnds, DeadlinePasses, Cancelled, CallerRecords
    <2>10. CASE UNCHANGED caller BY <2>10
    <2> QED
      BY <2>3, <2>4, <2>5, <2>6, <2>7, <2>8, <2>9, <2>10 DEF Next, EnsureStep, EnterEmpty,
         EnterOld, CheckFails, CloseReturns, BackoffEnds, Invalidate, CloseAll, Drop,
         DriverDies, DriverAges
  <1> QED BY <1>1, Invariance, PTL DEF Spec, ReturnsLive

-----------------------------------------------------------------------------
\* What is gone stays gone.

\* An opened session that is not cached is never cached again.
GoneForGood == [][\A n \in Opened \ Cached : n \notin Cached']_vars

\* A session that was discarded or invalidated is not put back: not by the check it
\* passed meanwhile, nor by the open that replaces it (session.py:201-228).
THEOREM NeverReinstated == Spec => GoneForGood
  <1>1. IInv /\ [Next]_vars => [\A n \in Opened \ Cached : n \notin Cached']_vars
    <2> SUFFICES ASSUME IInv, Next, NEW n \in Opened, n \notin Cached
                 PROVE  n \notin Cached'
      BY DEF vars
    <2>a. /\ sessions \in [Keys -> Opened \cup {NoDriver}] /\ Len(born) \in Nat
          /\ \A k \in Keys : sessions[k] # n
      BY Types DEF Cached, Opened, NoDriver
    <2> SUFFICES ASSUME NEW key \in Keys PROVE sessions'[key] # n
      BY DEF Cached
    <2>n. n \in Nat /\ n # NoDriver /\ n # Len(born) + 1
      BY <2>a DEF Opened, NoDriver
    <2>1. ASSUME NEW c \in Callers, OpenSucceeds(c) PROVE sessions'[key] # n
      BY <2>1, <2>a, <2>n DEF OpenSucceeds, Store
    <2>2. ASSUME NEW c \in Callers, NEW m, Discard(c, m) PROVE sessions'[key] # n
      BY <2>2, <2>a, <2>n DEF Discard
    <2>3. ASSUME NEW keys \in SUBSET Keys, Drop(keys) PROVE sessions'[key] # n
      BY <2>3, <2>a, <2>n DEF Drop
    <2>4. CASE UNCHANGED sessions
      BY <2>4, <2>a
    <2>5. ASSUME NEW c \in Callers,
                 (\E k \in Keys : Ensure(c, k)) \/ EnsureStep(c) \/ UseEnds(c)
                   \/ DeadlinePasses(c) \/ Cancelled(c)
          PROVE  sessions'[key] # n
      BY <2>1, <2>2, <2>4, <2>5 DEF Ensure, EnsureStep, EnterEmpty, EnterOld, EnterCached,
         CheckPasses, CheckFails, CloseReturns, OpenFails, BackoffEnds, UseEnds,
         DeadlinePasses, Cancelled
    <2>6. CASE CloseAll \/ \E d \in Devices : Invalidate(d)
      BY <2>3, <2>6 DEF CloseAll, Invalidate
    <2>7. ASSUME NEW m \in Drivers, DriverDies(m) \/ DriverAges(m) PROVE sessions'[key] # n
      BY <2>4, <2>7 DEF DriverDies, DriverAges
    <2> QED BY <2>5, <2>6, <2>7 DEF Next
  <1> QED BY <1>1, Invariance, PTL DEF Spec, GoneForGood

-----------------------------------------------------------------------------
\* ensure() is bounded.

\* The awaits a call of ensure() has before it at most, the one it is in included:
\* the lock, the check, the close, and an open and a backoff per attempt that is left.
StepsLeft(r) ==
    CASE r.pc = "lock"    -> 2 * MaxOpenAttempts + 2
      [] r.pc = "check"   -> 2 * MaxOpenAttempts + 1
      [] r.pc = "close"   -> 2 * MaxOpenAttempts
      [] r.pc = "open"    -> 2 * (MaxOpenAttempts - r.attempt) + 1
      [] r.pc = "backoff" -> 2 * (MaxOpenAttempts - r.attempt)
      [] OTHER            -> 0

\* Whatever a step does to a call of ensure(), but for its deadline to pass, leaves
\* it fewer awaits; a call that is not over has one.
EnsureAdvances ==
    [][\A c \in Callers : caller[c].pc \notin {"idle", "use"} =>
          /\ StepsLeft(caller[c]) \in 1..(2 * MaxOpenAttempts + 2)
          /\ \/ caller'[c] \in {caller[c], [caller[c] EXCEPT !.late = TRUE]}
             \/ StepsLeft(caller'[c]) < StepsLeft(caller[c])]_vars

LEMMA StepsLeftIs ==
    ASSUME IInv, NEW c \in Callers, caller[c].pc \notin {"idle", "use"}
    PROVE  StepsLeft(caller[c]) \in 1..(2 * MaxOpenAttempts + 2)
  <1>1. caller[c] \in CallerRecords /\ Sane(caller[c])
    BY Types DEF IInv
  <1>2. caller[c].pc \in {"lock", "check", "close", "open", "backoff"}
    BY <1>1 DEF CallerRecords, CallerPcs
  <1> QED
    BY <1>1, <1>2 DEF StepsLeft, Sane

\* The next attempt leaves fewer awaits than the one before, or than none.
LEMMA TryOpenAdvances ==
    ASSUME IInv, NEW c \in Callers, NEW n \in 1..MaxOpenAttempts, TryOpen(c, n),
           caller[c].pc \in {"lock", "close", "backoff"},
           caller[c].pc = "backoff" => n = caller[c].attempt + 1
    PROVE  StepsLeft(caller'[c]) < StepsLeft(caller[c])
  <1>1. /\ caller \in [Callers -> CallerRecords] /\ caller[c] \in CallerRecords
        /\ Sane(caller[c]) /\ StepsLeft(Idle) = 0
    BY Types DEF IInv, StepsLeft, Idle
  <1>2. StepsLeft(caller[c]) \in 1..(2 * MaxOpenAttempts + 2)
    BY StepsLeftIs
  <1>3. CASE caller[c].late
    BY <1>1, <1>2, <1>3 DEF TryOpen
  <1>4. CASE ~caller[c].late
    <2>1. caller'[c].pc = "open" /\ caller'[c].attempt = n
      BY <1>1, <1>4 DEF TryOpen, CallerRecords
    <2>2. StepsLeft(caller'[c]) = 2 * (MaxOpenAttempts - n) + 1
      BY <2>1 DEF StepsLeft
    <2> QED BY <1>1, <2>2 DEF StepsLeft, Sane, CallerRecords
  <1> QED BY <1>3, <1>4

\* Safety's half of EnsureEnds: a call of ensure() makes at most 2 MaxOpenAttempts + 2
\* moves, so it ends unless it is suspended in one await for ever
\* (the bounded loop of session.py:134-161).
THEOREM EnsureIsBounded == Spec => EnsureAdvances
  <1> DEFINE Ok(c) == \/ caller'[c] \in {caller[c], [caller[c] EXCEPT !.late = TRUE]}
                      \/ StepsLeft(caller'[c]) < StepsLeft(caller[c])
  <1>1. IInv /\ [Next]_vars =>
          [\A c \in Callers : caller[c].pc \notin {"idle", "use"} =>
              /\ StepsLeft(caller[c]) \in 1..(2 * MaxOpenAttempts + 2)
              /\ Ok(c)]_vars
    <2> SUFFICES ASSUME IInv, Next, NEW c \in Callers, caller[c].pc \notin {"idle", "use"}
                 PROVE  Ok(c)
      BY StepsLeftIs DEF vars
    <2>1. /\ caller \in [Callers -> CallerRecords] /\ caller[c] \in CallerRecords
          /\ Sane(caller[c]) /\ StepsLeft(caller[c]) \in 1..(2 * MaxOpenAttempts + 2)
          /\ StepsLeft(Idle) = 0 /\ MaxOpenAttempts \in Nat \ {0}
      BY Types, StepsLeftIs DEF IInv, StepsLeft, Idle
    <2>3. ASSUME NEW b \in Callers, b # c,
                 (\E k \in Keys : Ensure(b, k)) \/ EnsureStep(b) \/ UseEnds(b)
                   \/ DeadlinePasses(b) \/ Cancelled(b)
          PROVE  caller'[c] = caller[c]
      BY <2>1, <2>3 DEF Ensure, EnsureStep, EnterEmpty, EnterOld, EnterCached, CheckPasses,
         CheckFails, CloseReturns, OpenSucceeds, OpenFails, BackoffEnds, UseEnds,
         DeadlinePasses, Cancelled, TryOpen, Discard, Store
    <2>4. ASSUME EnterEmpty(c) \/ CloseReturns(c) \/ BackoffEnds(c) PROVE Ok(c)
      <3>1. PICK n \in 1..MaxOpenAttempts :
               /\ TryOpen(c, n) /\ caller[c].pc \in {"lock", "close", "backoff"}
               /\ caller[c].pc = "backoff" => n = caller[c].attempt + 1
        BY <2>1, <2>4 DEF EnterEmpty, Enters, CloseReturns, BackoffEnds, Sane
      <3> QED BY <3>1, TryOpenAdvances
    <2>5. ASSUME EnterOld(c) \/ CheckFails(c) PROVE Ok(c)
      <3>1. caller[c].pc \in {"lock", "check"} /\ caller'[c].pc = "close"
        BY <2>1, <2>5 DEF EnterOld, Enters, CheckFails, Discard, CallerRecords
      <3> QED BY <2>1, <3>1 DEF StepsLeft
    <2>6. ASSUME EnterCached(c) PROVE Ok(c)
      <3>1. caller[c].pc = "lock" /\ caller'[c].pc = "check"
        BY <2>1, <2>6 DEF EnterCached, Enters, CallerRecords
      <3> QED BY <2>1, <3>1 DEF StepsLeft
    <2>7. ASSUME CheckPasses(c) \/ OpenSucceeds(c) PROVE Ok(c)
      <3>1. caller'[c].pc = "use"
        BY <2>1, <2>7 DEF CheckPasses, OpenSucceeds, Store, CallerRecords
      <3>2. StepsLeft(caller'[c]) = 0
        BY <3>1 DEF StepsLeft
      <3> QED BY <2>1, <3>2
    <2>8. ASSUME OpenFails(c) PROVE Ok(c)
      <3>1. CASE caller[c].attempt = MaxOpenAttempts
        BY <2>1, <2>8, <3>1 DEF OpenFails
      <3>2. CASE caller[c].attempt # MaxOpenAttempts
        <4>1. /\ caller[c].pc = "open" /\ caller'[c].pc = "backoff"
              /\ caller'[c].attempt = caller[c].attempt
          BY <2>1, <2>8, <3>2 DEF OpenFails, CallerRecords
        <4> QED BY <2>1, <4>1 DEF StepsLeft, CallerRecords
      <3> QED BY <3>1, <3>2
    <2>9. ASSUME Cancelled(c) \/ UseEnds(c) PROVE Ok(c)
      BY <2>1, <2>9 DEF Cancelled, UseEnds
    <2>10. ASSUME DeadlinePasses(c) PROVE Ok(c)
      BY <2>1, <2>10 DEF DeadlinePasses
    <2>11. ASSUME NEW k \in Keys, Ensure(c, k) PROVE Ok(c)
      BY <2>11 DEF Ensure
    <2> HIDE DEF Ok
    <2>12. ASSUME (\E k \in Keys : Ensure(c, k)) \/ EnsureStep(c) \/ UseEnds(c)
                     \/ DeadlinePasses(c) \/ Cancelled(c)
           PROVE  Ok(c)
      BY <2>4, <2>5, <2>6, <2>7, <2>8, <2>9, <2>10, <2>11, <2>12 DEF EnsureStep
    <2>13. caller'[c] = caller[c] => Ok(c)
      BY DEF Ok
    <2>14. ASSUME NEW b \in Callers,
                  (\E k \in Keys : Ensure(b, k)) \/ EnsureStep(b) \/ UseEnds(b)
                    \/ DeadlinePasses(b) \/ Cancelled(b)
           PROVE  Ok(c)
      BY <2>3, <2>12, <2>13, <2>14
    <2>15. CASE \/ CloseAll \/ \E d \in Devices : Invalidate(d)
                \/ \E m \in Drivers : DriverDies(m) \/ DriverAges(m)
      BY <2>13, <2>15 DEF Invalidate, CloseAll, Drop, DriverDies, DriverAges
    <2> QED
      BY <2>14, <2>15 DEF Next
  <1> QED BY <1>1, Invariance, PTL DEF Spec, EnsureAdvances
=============================================================================
