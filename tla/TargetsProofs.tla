----------------------------- MODULE TargetsProofs -----------------------------
(***************************************************************************)
(* Theorems about Targets, for every set of tasks, phones, browser slots   *)
(* and realms, every choice of specs, and any number of hashing slots.     *)
(***************************************************************************)
EXTENDS Targets, FiniteSetTheorems, SequenceTheorems, TLAPS

USE ContractAssumption, ApkAssumption, TokenAssumption, WebAssumption

\* Each kind of task waits in its own target's code.
ApkAwaits == {"slot", "hash", "install", "verify", "uninstall", "shell"}
WebAwaits == {"restore", "headers", "lock", "refresh", "page", "cookies", "storage"}
AndroidAwaits == {"find", "act"}

Fits(k, a) ==
    /\ a \in ApkAwaits => k = "apk"
    /\ a \in WebAwaits => k = "web"
    /\ a \in AndroidAwaits => k = "android"
    /\ a = "session" => k # "apk"

KindsFit == \A t \in Tasks : Fits(Kind(t), at[t])

\* A task is in some await, on some device, while it is running and only then.
RunningHere ==
    \A t \in Tasks :
      /\ status[t] = "running" <=> at[t] # "idle"
      /\ at[t] # "idle" => dev[t] \in Devices /\ dev[t] \in plan[t].where

\* Every slot of the hashing semaphore is free or held by an attempt that hashes.
Hashing == {t \in Tasks : at[t] = "hash"}
SlotsCount == slots + Cardinality(Hashing) = HashSlots

Contract == ContractTypeOK /\ KindsFit /\ RunningHere /\ FaultsAreSorted

-----------------------------------------------------------------------------
\* The outcome of an attempt at a task of kind k fits what went wrong.
Sorted(k, o, c) ==
    /\ o = "fatal" => c \in {"item", "version"}
    /\ c = "item" => o = "fatal" \/ (k = "apk" /\ o = "retry")
    /\ c \in {"misfit", "adb", "far"} => o = "retry"

\* What a running attempt does to its task: it suspends in an await of its own
\* target, goes on to the next step, or ends.
Suspends(t) == \E a \in AtStates \ {"idle"} : Goes(t, a) /\ Fits(Kind(t), a)
Stops(t) == \E o \in Outcomes \ {"none"}, c \in Causes : Sorted(Kind(t), o, c) /\ Ends(t, o, c)
Move(t) == at[t] # "idle" /\ (Suspends(t) \/ Advances(t) \/ Stops(t))

LEMMA PlanType ==
    ASSUME ContractTypeOK, NEW t \in Tasks
    PROVE  plan[t] \in Specs /\ Realm(t) \in Realms /\ plan[t].where \subseteq Devices
  BY DEF ContractTypeOK, Specs, Realm

LEMMA MoveContract ==
    ASSUME Contract, NEW t \in Tasks, Move(t)
    PROVE  Contract'
  <1> USE DEF Contract
  <1>1. CASE Suspends(t)
    <2>1. PICK a \in AtStates \ {"idle"} : Goes(t, a) /\ Fits(Kind(t), a)
      BY <1>1 DEF Suspends
    <2> QED
      BY <2>1 DEF Move, Goes, ContractTypeOK, KindsFit, RunningHere, Kind, Fits, FaultsAreSorted
  <1>2. CASE Advances(t)
    <2>1. "next" \in AtStates /\ Fits(Kind(t), "next")
      BY DEF AtStates, Fits, ApkAwaits, WebAwaits, AndroidAwaits
    <2> QED
      BY <1>2, <2>1 DEF Move, Advances, ContractTypeOK, KindsFit, RunningHere, Kind, Fits,
         FaultsAreSorted
  <1>3. CASE Stops(t)
    <2>1. PICK o \in Outcomes \ {"none"}, c \in Causes : Sorted(Kind(t), o, c) /\ Ends(t, o, c)
      BY <1>3 DEF Stops
    <2>2. "idle" \in AtStates /\ Fits(Kind(t), "idle")
      BY DEF AtStates, Fits, ApkAwaits, WebAwaits, AndroidAwaits
    <2>3. \E s \in {"succeeded", "rejected", "failed", "waiting"} :
            status' = [status EXCEPT ![t] = s]
      BY <2>1 DEF Ends
    <2>4. ContractTypeOK'
      BY <2>1, <2>2, <2>3 DEF Ends, ContractTypeOK
    <2>5. KindsFit'
      BY <2>1, <2>2 DEF Ends, ContractTypeOK, KindsFit, Kind, Fits
    <2>6. RunningHere'
      BY <2>1, <2>3 DEF Ends, ContractTypeOK, RunningHere
    <2>7. FaultsAreSorted'
      BY <2>1 DEF Ends, ContractTypeOK, FaultsAreSorted, Sorted, Kind
    <2> QED BY <2>4, <2>5, <2>6, <2>7
  <1> QED BY <1>1, <1>2, <1>3 DEF Move

\* The set of hashing attempts follows the one coroutine that moves.
LEMMA HashingMoves ==
    ASSUME ContractTypeOK, NEW t \in Tasks, NEW a, at' = [at EXCEPT ![t] = a]
    PROVE  /\ Cardinality(Hashing) \in Nat
           /\ Cardinality(Hashing)' = IF a = "hash" /\ at[t] # "hash" THEN Cardinality(Hashing) + 1
                                      ELSE IF a # "hash" /\ at[t] = "hash" THEN Cardinality(Hashing) - 1
                                      ELSE Cardinality(Hashing)
  <1>1. IsFiniteSet(Hashing) /\ Cardinality(Hashing) \in Nat
    BY FS_Subset, FS_CardinalityType DEF Hashing
  <1>2. t \in Hashing <=> at[t] = "hash"
    BY DEF Hashing
  <1>3. CASE a = "hash"
    <2>1. Hashing' = Hashing \cup {t}
      BY <1>3 DEF Hashing, ContractTypeOK
    <2> QED BY <1>1, <1>2, <1>3, <2>1, FS_AddElement
  <1>4. CASE a # "hash"
    <2>1. Hashing' = Hashing \ {t}
      BY <1>4 DEF Hashing, ContractTypeOK
    <2> QED BY <1>1, <1>2, <1>4, <2>1, FS_RemoveElement
  <1> QED BY <1>1, <1>3, <1>4

-----------------------------------------------------------------------------
\* ApkTarget.

ApkData ==
    /\ file \in 0..MaxBuilds /\ written \in 0..MaxBuilds
    /\ installed \in [Devices -> 0..Newer]
    /\ digest \in [Tasks -> 0..MaxBuilds]
    /\ shipped \in [Tasks -> 0..MaxBuilds]

Apk == ApkTypeOK /\ SlotsCount

\* A slot is taken on the way into the hash and given back on the way out.
SlotFollows(t) ==
    /\ at' = [at EXCEPT ![t] = at'[t]]
    /\ slots' = IF at'[t] = "hash" /\ at[t] # "hash" THEN slots - 1
                ELSE IF at'[t] # "hash" /\ at[t] = "hash" THEN slots + 1 ELSE slots
    /\ at'[t] = "hash" /\ at[t] # "hash" => slots > 0

LEMMA SlotBack ==
    ASSUME ContractTypeOK, Apk, NEW t \in Tasks, SlotFollows(t), ApkData'
    PROVE  Apk'
  <1> DEFINE a == at'[t]
  <1>1. /\ at' = [at EXCEPT ![t] = a]
        /\ slots' = IF a = "hash" /\ at[t] # "hash" THEN slots - 1
                    ELSE IF a # "hash" /\ at[t] = "hash" THEN slots + 1 ELSE slots
        /\ a = "hash" /\ at[t] # "hash" => slots > 0
    BY DEF SlotFollows
  <1> HIDE DEF a
  <1>2. Cardinality(Hashing) \in Nat /\ slots \in Nat /\ HashSlots \in Nat
    <2>1. Cardinality(Hashing) \in Nat
      BY <1>1, HashingMoves
    <2> QED BY <2>1 DEF Apk, ApkTypeOK
  <1>3. Cardinality(Hashing)' = IF a = "hash" /\ at[t] # "hash" THEN Cardinality(Hashing) + 1
                                ELSE IF a # "hash" /\ at[t] = "hash" THEN Cardinality(Hashing) - 1
                                ELSE Cardinality(Hashing)
    BY <1>1, HashingMoves DEF Apk
  <1>4. slots' + Cardinality(Hashing)' = HashSlots /\ slots' \in Nat
    BY <1>1, <1>2, <1>3 DEF Apk, SlotsCount
  <1>5. SlotsCount'
    BY <1>4 DEF SlotsCount
  <1>6. Cardinality(Hashing)' \in Nat
    <2>1. Hashing' \subseteq Tasks
      BY DEF Hashing
    <2> QED BY <2>1, FS_Subset, FS_CardinalityType
  <1>7. slots' \in 0..HashSlots
    BY <1>2, <1>4, <1>6
  <1> QED BY <1>5, <1>7 DEF Apk, ApkTypeOK, ApkData

\* An ApkTarget step moves its own task, keeps the types, and the slots follow.
ApkEffect(t) == Move(t) /\ SlotFollows(t) /\ ApkData'

LEMMA FailsEffect ==
    ASSUME ContractTypeOK, ApkTypeOK, NEW t \in Tasks, at[t] # "idle",
           NEW o \in Outcomes \ {"none"}, NEW c \in Causes, Sorted(Kind(t), o, c), Fails(t, o, c),
           slots' = IF at[t] = "hash" THEN slots + 1 ELSE slots,
           installed' \in [Devices -> 0..Newer], UNCHANGED <<file, written>>
    PROVE  ApkEffect(t)
  <1>1. Move(t)
    BY DEF Fails, Move, Stops
  <1>2. SlotFollows(t)
    <2>1. at' = [at EXCEPT ![t] = "idle"]
      BY DEF Fails, Ends
    <2> QED BY <2>1 DEF SlotFollows, ContractTypeOK
  <1>3. ApkData'
    BY DEF Fails, Forgets, ApkData, ApkTypeOK
  <1> QED BY <1>1, <1>2, <1>3 DEF ApkEffect

LEMMA AdvancesEffect ==
    ASSUME ContractTypeOK, ApkTypeOK, NEW t \in Tasks, at[t] \notin {"idle", "hash"},
           Advances(t), UNCHANGED <<digest, shipped, slots, file, written>>,
           installed' \in [Devices -> 0..Newer]
    PROVE  ApkEffect(t)
  <1>1. SlotFollows(t)
    BY DEF SlotFollows, Advances, ContractTypeOK
  <1> QED BY <1>1 DEF ApkEffect, Move, ApkData, ApkTypeOK

LEMMA GoesEffect ==
    ASSUME ContractTypeOK, ApkTypeOK, NEW t \in Tasks, at[t] # "idle", Kind(t) = "apk",
           NEW a \in ApkAwaits, Goes(t, a),
           slots' = IF a = "hash" /\ at[t] # "hash" THEN slots - 1
                    ELSE IF a # "hash" /\ at[t] = "hash" THEN slots + 1 ELSE slots,
           a = "hash" /\ at[t] # "hash" => slots > 0,
           ApkData'
    PROVE  ApkEffect(t)
  <1>1. a \in AtStates \ {"idle"} /\ Fits(Kind(t), a)
    BY DEF AtStates, Fits, ApkAwaits, WebAwaits, AndroidAwaits
  <1>2. Move(t)
    BY <1>1 DEF Move, Suspends
  <1>3. SlotFollows(t)
    BY DEF Goes, SlotFollows, ContractTypeOK
  <1> QED BY <1>2, <1>3 DEF ApkEffect

\* What the code makes of adb's output, whatever the phone's reason was.
LEMMA ReasonsAreSorted ==
    ASSUME NEW c \in {"device", "item", "version", "misfit"}, NEW code \in CodesFor(c),
           NEW result, result.said = code
    PROVE  /\ Classify(result) = code
           /\ RaiseFor(code) \in Outcomes \ {"none"}
           /\ Sorted("apk", RaiseFor(code), c)
           /\ RaiseFor(code) = "blame" => c = "device"
  <1>1. code \in {"UPDATE_INCOMPATIBLE", "PARSE_FAILED_BAD_MANIFEST", "VERSION_DOWNGRADE",
                  "NO_MATCHING_ABIS", "INSUFFICIENT_STORAGE"}
    BY DEF CodesFor, MismatchCodes, DeviceCodes
  <1>2. code # Silent
    BY <1>1 DEF Silent
  <1>3. Classify(result) = code
    BY <1>2 DEF Classify
  <1>4. CASE c = "device"
    BY <1>3, <1>4 DEF CodesFor, RaiseFor, Outcomes, Sorted, FatalCodes, MismatchCodes, DeviceCodes
  <1>5. CASE c = "item"
    BY <1>3, <1>5 DEF CodesFor, RaiseFor, Outcomes, Sorted, FatalCodes, MismatchCodes, DeviceCodes
  <1>6. CASE c = "version"
    BY <1>3, <1>6 DEF CodesFor, RaiseFor, Outcomes, Sorted, FatalCodes, MismatchCodes, DeviceCodes
  <1>7. CASE c = "misfit"
    BY <1>3, <1>7 DEF CodesFor, RaiseFor, Outcomes, Sorted, FatalCodes, MismatchCodes, DeviceCodes
  <1> QED BY <1>4, <1>5, <1>6, <1>7

\* Silence is never fatal, and no verdict but Success is one.
LEMMA SilenceIsSorted ==
    ASSUME NEW result \in Lost, NEW c \in {"host", "device"}
    PROVE  /\ Classify(result) # "Success"
           /\ RaiseFor(Classify(result)) \in {"retry", "blame"}
           /\ Sorted("apk", RaiseFor(Classify(result)), c)
  <1>1. result.said = Silent
    BY DEF Lost, Output
  <1>2. Classify(result) \in {"INSTALL_TIMED_OUT", "INSTALL_FAILED_UNKNOWN", "INSTALL_NO_VERDICT"}
    BY <1>1 DEF Classify
  <1> QED BY <1>2 DEF RaiseFor, Sorted, FatalCodes, MismatchCodes, DeviceCodes

\* One step per action of ApkTarget.
LEMMA ApkSteps ==
    ASSUME Contract, Apk, NEW t \in Tasks, ApkStep(t)
    PROVE  ApkEffect(t)
  <1> USE DEF Contract, Apk
  <1>0. Kind(t) = "apk"
    BY DEF ApkStep
  <1> installed \in [Devices -> 0..Newer] /\ 0 \in 0..Newer /\ slots \in Nat
    BY DEF ApkTypeOK, Newer
  <1>1. CASE InstallNoFile(t)
    BY <1>1, FailsEffect DEF InstallNoFile, AtOp, KeepWorld, worldVars, Outcomes, Causes, Sorted
  <1>2. CASE InstallStarts(t)
    <2>1. ApkData'
      BY <1>2 DEF InstallStarts, Forgets, KeepWorld, worldVars, ApkTypeOK, ApkData
    <2>2. "hash" \in ApkAwaits /\ "slot" \in ApkAwaits
      BY DEF ApkAwaits
    <2> QED BY <1>0, <1>2, <2>1, <2>2, GoesEffect DEF InstallStarts, AtOp
  <1>3. CASE GetsSlot(t)
    <2>1. ApkData'
      BY <1>3 DEF GetsSlot, KeepWorld, worldVars, ApkTypeOK, ApkData
    <2> QED BY <1>0, <1>3, <2>1, GoesEffect DEF GetsSlot, ApkAwaits
  <1>4. CASE HashFails(t)
    BY <1>4, FailsEffect DEF HashFails, KeepWorld, worldVars, Outcomes, Causes, Sorted
  <1>5. CASE Hashed(t)
    <2>1. ApkData'
      BY <1>5 DEF Hashed, KeepWorld, worldVars, ApkTypeOK, ApkData
    <2> QED BY <1>0, <1>5, <2>1, GoesEffect DEF Hashed, ApkAwaits
  <1>6. CASE InstallAnswers(t)
    <2>1. at[t] \notin {"idle", "hash"} /\ UNCHANGED <<slots, worldVars>>
      BY <1>6 DEF InstallAnswers, KeepWorld
    <2>2. ASSUME NEW result, NEW c \in Causes, Concludes(t, result, c),
                 RaiseFor(Classify(result)) \in Outcomes \ {"none"},
                 Sorted("apk", RaiseFor(Classify(result)), c)
          PROVE  ApkEffect(t)
      <3>1. CASE Advances(t) /\ UNCHANGED <<digest, shipped>>
        BY <2>1, <3>1, AdvancesEffect DEF worldVars
      <3>2. CASE Fails(t, RaiseFor(Classify(result)), c)
        BY <1>0, <2>1, <2>2, <3>2, FailsEffect DEF worldVars
      <3> QED BY <2>2, <3>1, <3>2 DEF Concludes
    <2>3. CASE Concludes(t, Output("Success", TRUE, FALSE), "none")
      <3>1. Classify(Output("Success", TRUE, FALSE)) = "Success"
        BY DEF Classify, Output, Silent
      <3> QED BY <2>1, <2>3, <3>1, AdvancesEffect DEF Concludes, worldVars
    <2>4. ASSUME NEW c \in Refusals(t), NEW ok \in BOOLEAN, NEW code \in CodesFor(c),
                 Concludes(t, Output(code, ok, FALSE), c)
          PROVE  ApkEffect(t)
      <3>1. c \in {"device", "item", "version", "misfit"} /\ c \in Causes
        BY DEF Refusals, Causes
      <3> DEFINE result == Output(code, ok, FALSE)
      <3>2. result.said = code
        BY DEF Output
      <3>3. Concludes(t, result, c)
        BY <2>4
      <3> HIDE DEF result
      <3> QED BY <2>2, <3>1, <3>2, <3>3, ReasonsAreSorted
    <2>5. ASSUME NEW result \in Lost, NEW c \in {"host", "device"}, Concludes(t, result, c)
          PROVE  ApkEffect(t)
      BY <2>2, <2>5, SilenceIsSorted DEF Causes, Outcomes
    <2> QED BY <1>6, <2>3, <2>4, <2>5 DEF InstallAnswers
  <1>7. CASE InstallSizeFails(t)
    BY <1>7, FailsEffect DEF InstallSizeFails, KeepWorld, worldVars, Outcomes, Causes, Sorted
  <1>8. CASE StepCalls(t)
    <2>1. PICK op \in ApkOps, a \in {"verify", "uninstall", "shell"} : Calls(t, op, a)
      BY <1>8 DEF StepCalls, ApkOps
    <2>2. ApkData'
      BY <2>1 DEF Calls, apkVars, worldVars, ApkTypeOK, ApkData
    <2> QED BY <1>0, <2>1, <2>2, GoesEffect DEF Calls, AtOp, apkVars, ApkAwaits
  <1>9. CASE AdbMissing(t)
    BY <1>9, FailsEffect DEF AdbMissing, KeepWorld, worldVars, Outcomes, Causes, Sorted
  <1>10. CASE VerifyAnswers(t)
    <2>1. CASE Fails(t, "fatal", "version")
      BY <1>10, <2>1, FailsEffect DEF VerifyAnswers, KeepWorld, worldVars, Outcomes, Causes, Sorted
    <2>2. CASE Advances(t) /\ UNCHANGED <<digest, shipped>>
      BY <1>10, <2>2, AdvancesEffect DEF VerifyAnswers, KeepWorld, worldVars
    <2> QED BY <1>10, <2>1, <2>2 DEF VerifyAnswers
  <1>11. CASE VerifyFails(t)
    <2>1. \E c \in {"device", "version"} : Fails(t, "blame", c)
      BY <1>11 DEF VerifyFails
    <2> QED BY <1>11, <2>1, FailsEffect DEF VerifyFails, KeepWorld, worldVars, Outcomes, Causes, Sorted
  <1>12. CASE UninstallAnswers(t)
    BY <1>12, AdvancesEffect DEF UninstallAnswers
  <1>13. CASE UninstallFails(t)
    <2>1. dev[t] \in Devices
      BY <1>13 DEF UninstallFails, RunningHere
    <2>2. installed' \in [Devices -> 0..Newer]
      BY <1>13, <2>1 DEF UninstallFails
    <2> QED BY <1>13, <2>2, FailsEffect DEF UninstallFails, Outcomes, Causes, Sorted
  <1>14. CASE ShellAnswers(t)
    BY <1>14, AdvancesEffect DEF ShellAnswers, apkVars, worldVars
  <1>15. CASE ShellTimesOut(t)
    BY <1>15, FailsEffect DEF ShellTimesOut, KeepWorld, worldVars, Outcomes, Causes, Sorted
  <1>16. CASE ApkUnknownOp(t)
    BY <1>16, FailsEffect DEF ApkUnknownOp, UnknownOp, Fails, KeepWorld, worldVars,
       Outcomes, Causes, Sorted
  <1> QED
    BY <1>1, <1>2, <1>3, <1>4, <1>5, <1>6, <1>7, <1>8, <1>9, <1>10, <1>11, <1>12, <1>13,
       <1>14, <1>15, <1>16 DEF ApkStep

LEMMA ApkDeadline ==
    ASSUME Contract, Apk, NEW t \in Tasks, ApkTimesOut(t)
    PROVE  ApkEffect(t)
  BY FailsEffect DEF Contract, Apk, ApkTypeOK, ApkTimesOut, TimesOut, Fails, KeepWorld,
     worldVars, Outcomes, Causes, Sorted

-----------------------------------------------------------------------------
\* TokenCache and WebTarget.

\* The lock of a realm is the refreshing attempt's: it is held by whoever awaits the
\* refresh of that realm's token, and no fresh token is ever being refreshed.
LockIsRefresh ==
    /\ \A t \in Tasks : at[t] = "refresh" => lock[Realm(t)] = t
    /\ \A r \in Realms : lock[r] # NoOne =>
         lock[r] \in Tasks /\ at[lock[r]] = "refresh" /\ Realm(lock[r]) = r
    /\ \A r \in Realms : lock[r] # NoOne => ~Fresh(r)

Token == TokenTypeOK /\ LockIsRefresh /\ RefreshesEarned

\* What an attempt may do to the token cache while it goes from one await to another
\* (a is the next one), and what the world may do.
Same(r) == UNCHANGED <<token[r], lock[r], asked[r], lost[r]>>
Others(r) == \A q \in Realms \ {r} : Same(q)

LEMMA EndsMoves ==
    ASSUME NEW t \in Tasks, at[t] # "idle", NEW o \in Outcomes \ {"none"}, NEW c \in Causes,
           Sorted(Kind(t), o, c), Ends(t, o, c)
    PROVE  Move(t) /\ at' = [at EXCEPT ![t] = "idle"] /\ plan' = plan
  BY DEF Move, Stops, Ends

LEMMA AdvancesMoves ==
    ASSUME NEW t \in Tasks, at[t] # "idle", Advances(t)
    PROVE  Move(t) /\ at' = [at EXCEPT ![t] = "next"] /\ plan' = plan
  BY DEF Move, Advances

LEMMA GoesMoves ==
    ASSUME NEW t \in Tasks, at[t] # "idle", NEW a \in AtStates \ {"idle"}, Goes(t, a),
           Fits(Kind(t), a)
    PROVE  Move(t) /\ at' = [at EXCEPT ![t] = a] /\ plan' = plan
  BY DEF Move, Suspends, Goes

\* Nothing changes in the cache: the attempt neither enters nor leaves a refresh.
LEMMA TokenKept ==
    ASSUME ContractTypeOK, Token, NEW t \in Tasks, NEW a, at' = [at EXCEPT ![t] = a],
           plan' = plan, a # "refresh", at[t] # "refresh", UNCHANGED tokenVars
    PROVE  Token'
  <1>1. TokenTypeOK'
    BY DEF Token, TokenTypeOK, tokenVars
  <1>2. LockIsRefresh'
    BY DEF Token, TokenTypeOK, LockIsRefresh, ContractTypeOK, Fresh, Realm, tokenVars
  <1>3. RefreshesEarned'
    BY DEF Token, RefreshesEarned, Fresh, RefreshInFlight, tokenVars
  <1> QED BY <1>1, <1>2, <1>3 DEF Token

\* A refresh begins: the token is not fresh and the lock is free.
LEMMA RefreshBegins ==
    ASSUME ContractTypeOK, Token, NEW t \in Tasks, at[t] # "refresh", StartsRefresh(t),
           lock[Realm(t)] = NoOne, ~Fresh(Realm(t))
    PROVE  Token'
  <1> DEFINE r == Realm(t)
  <1>0. r \in Realms
    BY PlanType
  <1>1. TokenTypeOK'
    BY <1>0 DEF Token, TokenTypeOK, StartsRefresh, Goes
  <1>2. LockIsRefresh'
    <2>1. \A u \in Tasks : Realm(u)' = Realm(u)
      BY DEF StartsRefresh, Goes, Realm
    <2>2. \A q \in Realms : Fresh(q)' = Fresh(q)
      BY DEF StartsRefresh, Fresh
    <2>3. at' = [at EXCEPT ![t] = "refresh"] /\ lock' = [lock EXCEPT ![r] = t]
      BY DEF StartsRefresh, Goes
    <2> HIDE DEF r
    <2>4. \A u \in Tasks : at[u] = "refresh" => Realm(u) # r
      BY DEF Token, LockIsRefresh, r
    <2>5. Realm(t) = r
      BY DEF r
    <2> QED BY <1>0, <2>1, <2>2, <2>3, <2>4, <2>5
            DEF Token, TokenTypeOK, LockIsRefresh, ContractTypeOK, r
  <1>3. RefreshesEarned'
    <2>1. ASSUME NEW q \in Realms
          PROVE  asked'[q] <= lost'[q] + (IF Fresh(q)' \/ RefreshInFlight(q)' THEN 1 ELSE 0)
      <3>1. asked[q] \in Nat /\ lost[q] \in Nat
        BY DEF Token, TokenTypeOK
      <3>2. asked[q] <= lost[q] + (IF Fresh(q) \/ RefreshInFlight(q) THEN 1 ELSE 0)
        BY DEF Token, RefreshesEarned
      <3>3. CASE q = r
        <4>1. asked'[q] = asked[q] + 1 /\ lost'[q] = lost[q] /\ lock'[q] = t
          BY <1>0, <3>3 DEF StartsRefresh, Token, TokenTypeOK
        <4>2. ~Fresh(q) /\ ~RefreshInFlight(q) /\ RefreshInFlight(q)'
          BY <3>3, <4>1 DEF RefreshInFlight
        <4> QED BY <3>1, <3>2, <4>1, <4>2
      <3>4. CASE q # r
        <4>1. asked'[q] = asked[q] /\ lost'[q] = lost[q] /\ lock'[q] = lock[q]
              /\ token'[q] = token[q]
          BY <1>0, <3>4 DEF StartsRefresh, Token, TokenTypeOK
        <4>2. Fresh(q)' = Fresh(q) /\ RefreshInFlight(q)' = RefreshInFlight(q)
          BY <4>1 DEF Fresh, RefreshInFlight
        <4> QED BY <3>2, <4>1, <4>2
      <3> QED BY <3>3, <3>4
    <2> QED BY <2>1 DEF RefreshesEarned
  <1> QED BY <1>1, <1>2, <1>3 DEF Token

\* A refresh is over: a fresh token, or one reason more to ask again.
LEMMA RefreshOver ==
    ASSUME ContractTypeOK, Token, NEW t \in Tasks, at[t] = "refresh",
           NEW a, a # "refresh", at' = [at EXCEPT ![t] = a], plan' = plan,
           Frees(t), UNCHANGED asked,
           \/ token' = [token EXCEPT ![Realm(t)] = "fresh"] /\ UNCHANGED lost
           \/ token' = [token EXCEPT ![Realm(t)] = "stale"] /\ Loses(Realm(t))
           \/ UNCHANGED token /\ Loses(Realm(t))
    PROVE  Token'
  <1> DEFINE r == Realm(t)
  <1>0. r \in Realms /\ lock[r] = t /\ ~Fresh(r) /\ t # NoOne
    BY PlanType DEF Token, LockIsRefresh
  <1>a. \A q \in Realms : q # r =>
          token'[q] = token[q] /\ lock'[q] = lock[q] /\ lost'[q] = lost[q]
    BY DEF Token, TokenTypeOK, Frees, Loses
  <1>b. lock'[r] = NoOne
    BY <1>0 DEF Token, TokenTypeOK, Frees
  <1>c. asked' = asked /\ (\/ token'[r] = "fresh" /\ lost'[r] = lost[r]
                          \/ lost'[r] = lost[r] + 1)
    BY <1>0 DEF Token, TokenTypeOK, Loses
  <1>1. TokenTypeOK'
    BY <1>0 DEF Token, TokenTypeOK, Frees, Loses
  <1> HIDE DEF r
  <1>2. LockIsRefresh'
    <2>1. \A u \in Tasks : Realm(u)' = Realm(u)
      BY DEF Realm
    <2>2. \A q \in Realms : q # r => (Fresh(q)' <=> Fresh(q))
      BY <1>a DEF Fresh
    <2>3. \A u \in Tasks : u # t /\ at[u] = "refresh" => Realm(u) # r
      BY <1>0 DEF Token, LockIsRefresh
    <2>4. \A u \in Tasks : Realm(u) \in Realms
      BY PlanType
    <2> QED BY <1>0, <1>a, <1>b, <2>1, <2>2, <2>3, <2>4
            DEF Token, TokenTypeOK, LockIsRefresh, ContractTypeOK, r
  <1>3. RefreshesEarned'
    <2>1. ASSUME NEW q \in Realms
          PROVE  asked'[q] <= lost'[q] + (IF Fresh(q)' \/ RefreshInFlight(q)' THEN 1 ELSE 0)
      <3>1. asked[q] \in Nat /\ lost[q] \in Nat
        BY DEF Token, TokenTypeOK
      <3>2. asked[q] <= lost[q] + (IF Fresh(q) \/ RefreshInFlight(q) THEN 1 ELSE 0)
        BY DEF Token, RefreshesEarned
      <3>3. CASE q = r
        BY <1>c, <3>1, <3>2, <3>3 DEF Fresh
      <3>4. CASE q # r
        <4>1. (Fresh(q)' <=> Fresh(q)) /\ (RefreshInFlight(q)' <=> RefreshInFlight(q))
          BY <1>a, <3>4 DEF Fresh, RefreshInFlight
        <4> QED BY <1>a, <1>c, <3>2, <3>4, <4>1
      <3> QED BY <3>3, <3>4
    <2> QED BY <2>1 DEF RefreshesEarned
  <1> QED BY <1>1, <1>2, <1>3 DEF Token

\* The token of a realm nobody refreshes is replaced: a fresh one that goes is a
\* reason to ask again.
LEMMA TokenReplaced ==
    ASSUME ContractTypeOK, Token, plan' = plan, NEW r \in Realms,
           \A t \in Tasks : at'[t] = "refresh" <=> at[t] = "refresh",
           UNCHANGED <<lock, asked>>,
           NEW v \in {"none", "fresh", "stale"}, token' = [token EXCEPT ![r] = v],
           v = "fresh" => lock[r] = NoOne,
           \/ UNCHANGED lost /\ ~Fresh(r)
           \/ Loses(r)
    PROVE  Token'
  <1>a. \A q \in Realms : q # r => token'[q] = token[q] /\ lost'[q] = lost[q]
    BY DEF Token, TokenTypeOK, Loses
  <1>b. token'[r] = v /\ ((lost'[r] = lost[r] /\ ~Fresh(r)) \/ lost'[r] = lost[r] + 1)
    BY DEF Token, TokenTypeOK, Loses
  <1>1. TokenTypeOK'
    BY DEF Token, TokenTypeOK, Loses
  <1>2. LockIsRefresh'
    <2>1. \A u \in Tasks : Realm(u)' = Realm(u)
      BY DEF Realm
    <2>2. \A q \in Realms : q # r => (Fresh(q)' <=> Fresh(q))
      BY <1>a DEF Fresh
    <2>3. Fresh(r)' => lock[r] = NoOne
      BY <1>b DEF Fresh
    <2> QED BY <2>1, <2>2, <2>3 DEF Token, LockIsRefresh
  <1>3. RefreshesEarned'
    <2>1. ASSUME NEW q \in Realms
          PROVE  asked'[q] <= lost'[q] + (IF Fresh(q)' \/ RefreshInFlight(q)' THEN 1 ELSE 0)
      <3>1. asked[q] \in Nat /\ lost[q] \in Nat
        BY DEF Token, TokenTypeOK
      <3>2. asked[q] <= lost[q] + (IF Fresh(q) \/ RefreshInFlight(q) THEN 1 ELSE 0)
        BY DEF Token, RefreshesEarned
      <3>3. RefreshInFlight(q)' <=> RefreshInFlight(q)
        BY DEF RefreshInFlight
      <3>4. CASE q = r
        BY <1>b, <3>1, <3>2, <3>3, <3>4
      <3>5. CASE q # r
        <4>1. Fresh(q)' <=> Fresh(q)
          BY <1>a, <3>5 DEF Fresh
        <4> QED BY <1>a, <3>2, <3>3, <3>5, <4>1
      <3> QED BY <3>4, <3>5
    <2> QED BY <2>1 DEF RefreshesEarned
  <1> QED BY <1>1, <1>2, <1>3 DEF Token

\* Storing what the browser held needs the lock free.
LEMMA StoresToken ==
    ASSUME ContractTypeOK, Token, NEW t \in Tasks, at[t] # "refresh", Advances(t),
           Stores(Realm(t)), lock[Realm(t)] = NoOne, ~Fresh(Realm(t))
    PROVE  Token'
  <1>1. PICK v \in {"fresh", "stale"} : token' = [token EXCEPT ![Realm(t)] = v]
    BY DEF Stores
  <1>2. plan' = plan /\ \A u \in Tasks : at'[u] = "refresh" <=> at[u] = "refresh"
    BY DEF Advances, ContractTypeOK
  <1> QED BY <1>1, <1>2, PlanType, TokenReplaced DEF Stores

Away(t) == at' = [at EXCEPT ![t] = at'[t]] /\ at[t] # "hash" /\ at'[t] # "hash"

\* A WebTarget step moves its own task, and keeps the types and the token cache.
WebEffect(t) == Kind(t) = "web" /\ Move(t) /\ Away(t) /\ WebTypeOK' /\ Token'

\* Steps that leave the token cache alone.
LEMMA WebGoes ==
    ASSUME Contract, Token, NEW t \in Tasks, Kind(t) = "web", at[t] # "idle",
           NEW a \in WebAwaits \cup {"next"}, a # "refresh", at[t] # "refresh", Goes(t, a),
           UNCHANGED tokenVars, WebTypeOK'
    PROVE  WebEffect(t)
  <1>1. a \in AtStates \ {"idle"} /\ Fits(Kind(t), a) /\ a # "hash"
    BY DEF AtStates, Fits, ApkAwaits, WebAwaits, AndroidAwaits
  <1>2. Move(t) /\ at' = [at EXCEPT ![t] = a] /\ plan' = plan
    BY <1>1, GoesMoves
  <1>3. at[t] # "hash"
    BY DEF Contract, KindsFit, Fits, ApkAwaits
  <1>4. Away(t)
    BY <1>1, <1>2, <1>3 DEF Away, Contract, ContractTypeOK
  <1> QED BY <1>2, <1>4, TokenKept DEF WebEffect, Contract

LEMMA WebAdvances ==
    ASSUME Contract, Token, NEW t \in Tasks, Kind(t) = "web", at[t] \notin {"idle", "refresh"},
           Advances(t), UNCHANGED tokenVars, WebTypeOK'
    PROVE  WebEffect(t)
  <1>1. Move(t) /\ at' = [at EXCEPT ![t] = "next"] /\ plan' = plan
    BY AdvancesMoves
  <1>2. at[t] # "hash"
    BY DEF Contract, KindsFit, Fits, ApkAwaits
  <1>3. Away(t)
    BY <1>1, <1>2 DEF Away, Contract, ContractTypeOK
  <1> QED BY <1>1, <1>3, TokenKept DEF WebEffect, Contract

LEMMA WebEnds ==
    ASSUME Contract, Token, NEW t \in Tasks, Kind(t) = "web", at[t] \notin {"idle", "refresh"},
           NEW o \in Outcomes \ {"none"}, NEW c \in Causes, Sorted(Kind(t), o, c), Ends(t, o, c),
           UNCHANGED tokenVars, WebTypeOK'
    PROVE  WebEffect(t)
  <1>1. Move(t) /\ at' = [at EXCEPT ![t] = "idle"] /\ plan' = plan
    BY EndsMoves
  <1>2. at[t] # "hash"
    BY DEF Contract, KindsFit, Fits, ApkAwaits
  <1>3. Away(t)
    BY <1>1, <1>2 DEF Away, Contract, ContractTypeOK
  <1> QED BY <1>1, <1>3, TokenKept DEF WebEffect, Contract

\* The coroutine that enters a refresh, and the one that leaves it.
LEMMA WebRefreshes ==
    ASSUME Contract, Token, NEW t \in Tasks, Kind(t) = "web", at[t] \notin {"idle", "refresh"},
           StartsRefresh(t), lock[Realm(t)] = NoOne, ~Fresh(Realm(t)), WebTypeOK'
    PROVE  WebEffect(t)
  <1>1. "refresh" \in AtStates \ {"idle"} /\ Fits(Kind(t), "refresh")
    BY DEF AtStates, Fits, ApkAwaits, WebAwaits, AndroidAwaits
  <1>2. Move(t) /\ at' = [at EXCEPT ![t] = "refresh"]
    BY <1>1, GoesMoves DEF StartsRefresh
  <1>3. at[t] # "hash"
    BY DEF Contract, KindsFit, Fits, ApkAwaits
  <1>4. Away(t)
    BY <1>2, <1>3 DEF Away, Contract, ContractTypeOK
  <1> QED BY <1>2, <1>4, RefreshBegins DEF WebEffect, Contract

LEMMA WebStores ==
    ASSUME Contract, Token, NEW t \in Tasks, Kind(t) = "web", at[t] \notin {"idle", "refresh"},
           Stores(Realm(t)), Advances(t), lock[Realm(t)] = NoOne, ~Fresh(Realm(t)), WebTypeOK'
    PROVE  WebEffect(t)
  <1>1. Move(t) /\ at' = [at EXCEPT ![t] = "next"]
    BY AdvancesMoves
  <1>2. at[t] # "hash"
    BY DEF Contract, KindsFit, Fits, ApkAwaits
  <1>3. Away(t)
    BY <1>1, <1>2 DEF Away, Contract, ContractTypeOK
  <1> QED BY <1>1, <1>3, StoresToken DEF WebEffect, Contract

LEMMA CookieTypes ==
    ASSUME WebTypeOK, NEW t \in Tasks, ContractTypeOK, dev[t] \in Devices
    PROVE  browser[dev[t]] \subseteq DOMAIN cookies /\ jar[Realm(t)] \subseteq DOMAIN cookies
  BY PlanType DEF WebTypeOK

\* One step per action of WebTarget and TokenCache.
LEMMA WebSteps ==
    ASSUME Contract, Token, WebTypeOK, NEW t \in Tasks, WebStep(t)
    PROVE  WebEffect(t)
  <1>0. Kind(t) = "web" /\ at[t] # "idle" /\ dev[t] \in Devices
    BY DEF WebStep, WebSessionReady, WebSessionFails, SessionFails, CookieRestores,
       CookieReports, AtWeb, AtOp, NoCredential, Basic, Bearer, PageCall,
       BrowserAnswers, BrowserFails, CaptureCall, SaveCookies, StorageAnswers, WebUnknownOp,
       UnknownOp, GetsLock, Refreshed, RefreshFails, Contract, KindsFit, Fits, WebAwaits,
       RunningHere
  <1>w. UNCHANGED webVars => WebTypeOK'
    BY DEF webVars, WebTypeOK
  <1>r. Realm(t) \in Realms
    BY PlanType DEF Contract
  <1>1. CASE WebSessionReady(t)
    <2>1. WebTypeOK'
      BY <1>0, <1>1, CookieTypes DEF WebSessionReady, WebTypeOK, Contract
    <2> QED BY <1>0, <1>1, <2>1, WebGoes DEF WebSessionReady
  <1>2. CASE WebSessionFails(t)
    BY <1>0, <1>w, <1>2, WebEnds DEF WebSessionFails, SessionFails, Outcomes, Causes, Sorted
  <1>3. CASE CookieRestores(t)
    <2>1. WebTypeOK'
      BY <1>0, <1>3, CookieTypes DEF CookieRestores, Given, WebTypeOK, Contract
    <2> QED BY <1>0, <1>3, <2>1, WebGoes DEF CookieRestores, AtWeb, AtOp, WebAwaits
  <1>4. CASE CookieReports(t)
    BY <1>0, <1>w, <1>4, WebAdvances DEF CookieReports, AtWeb, AtOp
  <1>5. CASE NoCredential(t)
    BY <1>0, <1>w, <1>5, WebEnds DEF NoCredential, AtWeb, AtOp, Outcomes, Causes, Sorted
  <1>6. CASE Basic(t)
    BY <1>0, <1>w, <1>6, WebGoes DEF Basic, AtWeb, AtOp, WebAwaits
  <1>7. CASE Bearer(t)
    <2>1. CASE TokenHit(t)
      BY <1>0, <1>w, <1>7, <2>1, WebGoes DEF Bearer, TokenHit, AtWeb, AtOp, WebAwaits
    <2>2. CASE TokenMiss(t)
      <3>1. CASE LockFree(Realm(t))
        BY <1>0, <1>w, <1>7, <2>2, <3>1, WebRefreshes
           DEF Bearer, TokenMiss, LockFree, AtWeb, AtOp
      <3>2. CASE ~LockFree(Realm(t))
        BY <1>0, <1>w, <1>7, <2>2, <3>2, WebGoes
           DEF Bearer, TokenMiss, AtWeb, AtOp, WebAwaits
      <3> QED BY <3>1, <3>2
    <2> QED BY <1>7, <2>1, <2>2 DEF Bearer
  <1>8. CASE PageCall(t)
    BY <1>0, <1>w, <1>8, WebGoes DEF PageCall, AtOp, WebAwaits
  <1>9. CASE BrowserAnswers(t)
    BY <1>0, <1>w, <1>9, WebAdvances DEF BrowserAnswers
  <1>10. CASE BrowserFails(t)
    BY <1>0, <1>w, <1>10, WebEnds DEF BrowserFails, Outcomes, Causes, Sorted
  <1>11. CASE CaptureCall(t)
    BY <1>0, <1>w, <1>11, WebGoes DEF CaptureCall, AtWeb, AtOp, WebAwaits
  <1>12. CASE SaveCookies(t)
    <2>1. WebTypeOK'
      BY <1>0, <1>12, <1>r, CookieTypes DEF SaveCookies, WebTypeOK, Contract
    <2> QED BY <1>0, <1>12, <2>1, WebGoes DEF SaveCookies, WebAwaits
  <1>13. CASE StorageAnswers(t)
    <2>1. CASE CaptureHit(t)
      BY <1>0, <1>w, <1>13, <2>1, WebAdvances DEF StorageAnswers, CaptureHit
    <2>2. CASE CaptureMiss(t) /\ LockFree(Realm(t))
      BY <1>0, <1>w, <1>13, <2>2, WebStores DEF StorageAnswers, CaptureMiss, LockFree
    <2>3. CASE CaptureMiss(t) /\ ~LockFree(Realm(t))
      BY <1>0, <1>w, <1>13, <2>3, WebGoes DEF StorageAnswers, CaptureMiss, WebAwaits
    <2>4. CASE Advances(t) /\ UNCHANGED tokenVars
      BY <1>0, <1>w, <1>13, <2>4, WebAdvances DEF StorageAnswers
    <2> QED BY <1>13, <2>1, <2>2, <2>3, <2>4 DEF StorageAnswers
  <1>14. CASE WebUnknownOp(t)
    BY <1>0, <1>w, <1>14, WebEnds DEF WebUnknownOp, UnknownOp, Outcomes, Causes, Sorted
  <1>15. CASE GetsLock(t) /\ UNCHANGED webVars
    <2>1. CASE Fresh(Realm(t)) /\ Captures(t)
      BY <1>0, <1>w, <1>15, <2>1, WebAdvances DEF GetsLock
    <2>2. CASE Fresh(Realm(t)) /\ ~Captures(t)
      BY <1>0, <1>w, <1>15, <2>2, WebGoes DEF GetsLock, WebAwaits
    <2>3. CASE ~Fresh(Realm(t)) /\ Captures(t)
      BY <1>0, <1>w, <1>15, <2>3, WebStores DEF GetsLock
    <2>4. CASE ~Fresh(Realm(t)) /\ ~Captures(t)
      BY <1>0, <1>w, <1>15, <2>4, WebRefreshes DEF GetsLock
    <2> QED BY <2>1, <2>2, <2>3, <2>4
  <1>16. CASE Refreshed(t) /\ UNCHANGED webVars
    <2>1. at[t] = "refresh" /\ Goes(t, "headers")
      BY <1>16 DEF Refreshed
    <2>2. "headers" \in AtStates \ {"idle"} /\ Fits(Kind(t), "headers")
      BY <1>0 DEF AtStates, Fits, ApkAwaits, WebAwaits, AndroidAwaits
    <2>3. Move(t) /\ at' = [at EXCEPT ![t] = "headers"] /\ plan' = plan
      BY <1>0, <2>1, <2>2, GoesMoves
    <2>4. Token'
      BY <1>16, <2>1, <2>3, RefreshOver DEF Refreshed, Contract
    <2>5. Away(t)
      BY <2>1, <2>3 DEF Away, Contract, ContractTypeOK
    <2> QED BY <1>0, <1>16, <1>w, <2>3, <2>4, <2>5 DEF WebEffect
  <1>17. CASE RefreshFails(t) /\ UNCHANGED webVars
    <2>1. at[t] = "refresh" /\ (Ends(t, "fatal", "item") \/ Ends(t, "retry", "far"))
      BY <1>17 DEF RefreshFails
    <2>2. Move(t) /\ at' = [at EXCEPT ![t] = "idle"] /\ plan' = plan
      BY <1>0, <2>1, EndsMoves DEF Outcomes, Causes, Sorted
    <2>3. Token'
      BY <1>17, <2>1, <2>2, RefreshOver DEF RefreshFails, Contract
    <2>4. Away(t)
      BY <2>1, <2>2 DEF Away, Contract, ContractTypeOK
    <2> QED BY <1>0, <1>17, <1>w, <2>2, <2>3, <2>4 DEF WebEffect
  <1> QED
    BY <1>1, <1>2, <1>3, <1>4, <1>5, <1>6, <1>7, <1>8, <1>9, <1>10, <1>11, <1>12,
       <1>13, <1>14, <1>15, <1>16, <1>17 DEF WebStep

\* The deadline cuts through the cache: a cancelled refresh frees its lock.
LEMMA WebDeadline ==
    ASSUME Contract, Token, WebTypeOK, NEW t \in Tasks, WebTimesOut(t)
    PROVE  WebEffect(t)
  <1>1. Kind(t) = "web" /\ at[t] # "idle" /\ Ends(t, "blame", "time")
    BY DEF WebTimesOut, TimesOut
  <1>2. WebTypeOK'
    BY DEF WebTimesOut, webVars, WebTypeOK
  <1>3. CASE at[t] # "refresh"
    BY <1>1, <1>2, <1>3, WebEnds DEF WebTimesOut, TokenCancelled, Outcomes, Causes, Sorted
  <1>4. CASE at[t] = "refresh"
    <2>1. Move(t) /\ at' = [at EXCEPT ![t] = "idle"] /\ plan' = plan
      BY <1>1, EndsMoves DEF Outcomes, Causes, Sorted
    <2>2. Token'
      BY <1>4, <2>1, RefreshOver DEF WebTimesOut, TokenCancelled, Contract
    <2>3. Away(t)
      BY <1>4, <2>1 DEF Away, Contract, ContractTypeOK
    <2> QED BY <1>1, <1>2, <2>1, <2>2, <2>3 DEF WebEffect
  <1> QED BY <1>3, <1>4

-----------------------------------------------------------------------------
\* AndroidTarget.

LEMMA AndroidSteps ==
    ASSUME Contract, NEW t \in Tasks, AndroidStep(t) \/ AndroidTimesOut(t)
    PROVE  Move(t) /\ Kind(t) = "android"
  <1>0. Kind(t) = "android" /\ at[t] # "idle"
    BY DEF AndroidStep, AndroidTimesOut, TimesOut, AndroidSessionReady, AndroidSessionFails,
       SessionFails, AndroidCall, AtOp, Found, Acted, AppiumFails, AndroidUnknownOp, UnknownOp,
       Contract, KindsFit, Fits, AndroidAwaits
  <1>1. CASE AndroidSessionReady(t)
    <2>1. "next" \in AtStates \ {"idle"} /\ Fits(Kind(t), "next")
      BY DEF AtStates, Fits, ApkAwaits, WebAwaits, AndroidAwaits
    <2> QED BY <1>0, <1>1, <2>1, GoesMoves DEF AndroidSessionReady
  <1>2. CASE AndroidSessionFails(t)
    BY <1>0, <1>2, EndsMoves DEF AndroidSessionFails, SessionFails, Outcomes, Causes, Sorted
  <1>a. \A a \in {"find", "act"} : a \in AtStates \ {"idle"} /\ Fits(Kind(t), a)
    BY <1>0 DEF AtStates, Fits, ApkAwaits, WebAwaits, AndroidAwaits
  <1>3. CASE AndroidCall(t)
    <2>1. PICK a \in {"find", "act"} : Goes(t, a)
      BY <1>3 DEF AndroidCall
    <2> QED BY <1>0, <1>a, <2>1, GoesMoves
  <1>4. CASE Found(t)
    <2>1. CASE Ends(t, "fatal", "item")
      BY <1>0, <2>1, EndsMoves DEF Outcomes, Causes, Sorted
    <2>2. CASE Goes(t, "act")
      BY <1>0, <1>a, <2>2, GoesMoves
    <2> QED BY <1>4, <2>1, <2>2 DEF Found
  <1>5. CASE Acted(t)
    BY <1>0, <1>5, AdvancesMoves DEF Acted
  <1>6. CASE AppiumFails(t)
    <2>1. PICK answer \in Answers : \E c \in Behind(answer) : Ends(t, Raised(answer), c)
      BY <1>6 DEF AppiumFails
    <2>2. PICK c \in Behind(answer) : Ends(t, Raised(answer), c)
      BY <2>1
    <2>3. Raised(answer) \in Outcomes \ {"none"} /\ c \in Causes
          /\ Sorted(Kind(t), Raised(answer), c)
      BY DEF Raised, Behind, Outcomes, Causes, Sorted
    <2> QED BY <1>0, <2>2, <2>3, EndsMoves
  <1>7. CASE AndroidUnknownOp(t)
    BY <1>0, <1>7, EndsMoves DEF AndroidUnknownOp, UnknownOp, Outcomes, Causes, Sorted
  <1>8. CASE AndroidTimesOut(t)
    BY <1>0, <1>8, EndsMoves DEF AndroidTimesOut, TimesOut, Outcomes, Causes, Sorted
  <1> QED
    BY <1>0, <1>1, <1>2, <1>3, <1>4, <1>5, <1>6, <1>7, <1>8 DEF AndroidStep

-----------------------------------------------------------------------------
\* Whole steps.

Inv ==
    /\ Contract /\ Apk /\ Token /\ WebTypeOK
    /\ cli \in CliStates /\ targets \subseteq Tasks

\* A task that moves leaves the other targets' state alone.
LEMMA OtherSlots ==
    ASSUME ContractTypeOK, Apk, NEW t \in Tasks, Away(t), UNCHANGED apkVars
    PROVE  Apk'
  <1>1. SlotFollows(t)
    BY DEF SlotFollows, Away, apkVars
  <1>2. ApkData'
    BY DEF Apk, ApkTypeOK, ApkData, apkVars, worldVars
  <1> QED BY <1>1, <1>2, SlotBack

LEMMA OtherCache ==
    ASSUME Contract, Contract', Token, NEW t \in Tasks, Kind(t) # "web", plan' = plan,
           at' = [at EXCEPT ![t] = at'[t]], UNCHANGED tokenVars
    PROVE  Token'
  <1>1. at[t] # "refresh" /\ at'[t] # "refresh"
    BY DEF Contract, KindsFit, Fits, WebAwaits, Kind
  <1> QED BY <1>1, TokenKept DEF Contract

LEMMA MoveShape ==
    ASSUME ContractTypeOK, NEW t \in Tasks, Move(t)
    PROVE  plan' = plan /\ at' = [at EXCEPT ![t] = at'[t]]
  BY DEF Move, Suspends, Advances, Stops, Goes, Ends, ContractTypeOK

\* A command's step, an attempt's step, the clock and the world keep Inv.
LEMMA CommandKeeps ==
    ASSUME Inv, StartFails \/ RunRefused \/ RunSubmits \/ DeploySubmits \/ Exits
    PROVE  Inv'
  <1> USE DEF Inv
  <1>1. UNCHANGED <<apkVars, tokenVars, webVars>> /\ UNCHANGED <<plan, at, dev>>
    BY DEF StartFails, RunRefused, RunSubmits, DeploySubmits, Exits, KeepTargets, taskVars,
       Submits
  <1>2. Contract'
    <2>1. CASE UNCHANGED taskVars
      BY <2>1 DEF Contract, ContractTypeOK, KindsFit, Kind, RunningHere,
         FaultsAreSorted, taskVars
    <2>2. ASSUME NEW T, Submits(T) PROVE Contract'
      <3>1. ContractTypeOK'
        BY <2>2 DEF Submits, Contract, ContractTypeOK
      <3>2. RunningHere'
        BY <2>2 DEF Submits, Contract, ContractTypeOK, RunningHere
      <3>3. FaultsAreSorted'
        BY <2>2 DEF Submits, Contract, FaultsAreSorted, Kind
      <3> QED BY <1>1, <3>1, <3>2, <3>3 DEF Contract, KindsFit, Kind
    <2> QED BY <2>1, <2>2 DEF StartFails, RunRefused, RunSubmits, DeploySubmits, Exits
  <1>3. Apk'
    BY <1>1 DEF Apk, ApkTypeOK, SlotsCount, Hashing, apkVars, worldVars
  <1>4. Token'
    BY <1>1 DEF Token, TokenTypeOK, LockIsRefresh, RefreshesEarned, RefreshInFlight, Fresh,
       Realm, tokenVars
  <1>5. WebTypeOK'
    BY <1>1 DEF webVars, WebTypeOK
  <1>6. cli' \in CliStates /\ targets' \subseteq Tasks
    BY DEF StartFails, RunRefused, RunSubmits, DeploySubmits, Exits, Code, CliStates
  <1> QED BY <1>2, <1>3, <1>4, <1>5, <1>6

LEMMA StepsKeep ==
    ASSUME Inv, NEW t \in Tasks, Steps(t)
    PROVE  Inv'
  <1> USE DEF Inv
  <1>0. cli' \in CliStates /\ targets' \subseteq Tasks
    BY DEF Steps, cliVars
  <1>1. CASE Begins(t) /\ KeepTargets
    <2> DEFINE a == IF Kind(t) = "apk" THEN "next" ELSE "session"
    <2>1. at[t] = "idle" /\ at' = [at EXCEPT ![t] = a] /\ plan' = plan
      BY <1>1 DEF Begins, Contract, RunningHere
    <2>2. a \in AtStates /\ a \notin {"idle", "hash", "refresh"} /\ Fits(Kind(t), a)
      BY DEF AtStates, Fits, ApkAwaits, WebAwaits, AndroidAwaits
    <2> HIDE DEF a
    <2>3. Contract'
      <3>1. PICK d \in plan[t].where : dev' = [dev EXCEPT ![t] = d]
        BY <1>1 DEF Begins
      <3>2. d \in Devices
        BY PlanType DEF Contract
      <3>3. ContractTypeOK'
        BY <1>1, <2>1, <2>2, <3>1, <3>2
           DEF Begins, Contract, ContractTypeOK, Outcomes, Causes, Sorted
      <3>4. KindsFit'
        BY <2>1, <2>2 DEF Contract, ContractTypeOK, KindsFit, Kind, Fits
      <3>5. RunningHere'
        BY <1>1, <2>1, <2>2, <3>1, <3>2 DEF Begins, Contract, ContractTypeOK, RunningHere
      <3>6. FaultsAreSorted'
        BY <1>1 DEF Begins, Contract, ContractTypeOK, FaultsAreSorted, Kind
      <3> QED BY <3>3, <3>4, <3>5, <3>6 DEF Contract
    <2>4. Away(t)
      BY <2>1, <2>2 DEF Away, Contract, ContractTypeOK
    <2>5. Apk'
      BY <1>1, <2>4, OtherSlots DEF KeepTargets, Contract
    <2>6. Token'
      BY <1>1, <2>1, <2>2, TokenKept DEF KeepTargets, Contract
    <2> QED BY <1>0, <1>1, <2>3, <2>5, <2>6 DEF KeepTargets, webVars, WebTypeOK
  <1>2. CASE Returns(t) /\ KeepTargets
    <2>1. at[t] = "next" /\ Move(t) /\ at' = [at EXCEPT ![t] = "idle"] /\ plan' = plan
      BY <1>2, EndsMoves DEF Returns, Outcomes, Causes, Sorted
    <2>2. Contract' /\ Away(t)
      BY <2>1, MoveContract DEF Away, Contract, ContractTypeOK
    <2>3. Apk'
      BY <1>2, <2>2, OtherSlots DEF KeepTargets, Contract
    <2>4. Token'
      BY <1>2, <2>1, TokenKept DEF KeepTargets, Contract
    <2> QED BY <1>0, <1>2, <2>2, <2>3, <2>4 DEF KeepTargets, webVars, WebTypeOK
  <1>3. CASE ApkStep(t) /\ UNCHANGED <<tokenVars, webVars>>
    <2>1. Kind(t) = "apk"
      BY <1>3 DEF ApkStep
    <2>2. ApkEffect(t) /\ Contract'
      BY <1>3, <2>1, ApkSteps, MoveContract DEF ApkEffect
    <2>3. Apk'
      BY <2>2, SlotBack DEF ApkEffect, Contract
    <2>4. Token'
      BY <1>3, <2>1, <2>2, MoveShape, OtherCache DEF ApkEffect, Contract
    <2> QED BY <1>0, <1>3, <2>2, <2>3, <2>4 DEF webVars, WebTypeOK
  <1>4. CASE WebStep(t) /\ UNCHANGED apkVars
    <2>1. WebEffect(t) /\ Contract'
      BY <1>4, WebSteps, MoveContract DEF WebEffect
    <2>2. Apk'
      BY <1>4, <2>1, OtherSlots DEF WebEffect, Contract
    <2> QED BY <1>0, <2>1, <2>2 DEF WebEffect
  <1>5. CASE AndroidStep(t) /\ KeepTargets
    <2>1. Move(t) /\ Kind(t) = "android" /\ Contract'
      BY <1>5, AndroidSteps, MoveContract
    <2>2. Away(t) /\ plan' = plan
      BY <2>1, MoveShape DEF Away, Contract, KindsFit, Fits, ApkAwaits, Kind
    <2>3. Apk'
      BY <1>5, <2>2, OtherSlots DEF KeepTargets, Contract
    <2>4. Token'
      BY <1>5, <2>1, <2>2, OtherCache DEF KeepTargets, Away
    <2> QED BY <1>0, <1>5, <2>1, <2>3, <2>4 DEF KeepTargets, webVars, WebTypeOK
  <1> QED BY <1>1, <1>2, <1>3, <1>4, <1>5 DEF Steps

LEMMA ClockKeeps ==
    ASSUME Inv, NEW t \in Tasks, Clock(t)
    PROVE  Inv'
  <1> USE DEF Inv
  <1>0. cli' \in CliStates /\ targets' \subseteq Tasks
    BY DEF Clock, cliVars
  <1>1. CASE RunsOutOfTime(t) /\ Forgets(t) /\ UNCHANGED <<worldVars, slots, tokenVars, webVars>>
    <2>1. at[t] = "next" /\ Move(t) /\ at' = [at EXCEPT ![t] = "idle"] /\ plan' = plan
      BY <1>1, EndsMoves DEF RunsOutOfTime, Outcomes, Causes, Sorted
    <2>2. Contract'
      BY <2>1, MoveContract
    <2>3. Apk'
      <3>1. SlotFollows(t)
        BY <1>1, <2>1 DEF SlotFollows, Contract, ContractTypeOK
      <3>2. ApkData'
        BY <1>1 DEF Forgets, worldVars, Apk, ApkTypeOK, ApkData
      <3> QED BY <3>1, <3>2, SlotBack DEF Contract
    <2>4. Token'
      BY <1>1, <2>1, TokenKept DEF Contract
    <2> QED BY <1>0, <1>1, <2>2, <2>3, <2>4 DEF webVars, WebTypeOK
  <1>2. CASE ApkTimesOut(t) /\ UNCHANGED <<tokenVars, webVars>>
    <2>1. ApkEffect(t) /\ Contract' /\ Kind(t) = "apk"
      BY <1>2, ApkDeadline, MoveContract DEF ApkEffect, ApkTimesOut
    <2>2. Apk'
      BY <2>1, SlotBack DEF ApkEffect, Contract
    <2>3. Token'
      BY <1>2, <2>1, MoveShape, OtherCache DEF ApkEffect, Contract
    <2> QED BY <1>0, <1>2, <2>1, <2>2, <2>3 DEF webVars, WebTypeOK
  <1>3. CASE WebTimesOut(t) /\ UNCHANGED apkVars
    <2>1. WebEffect(t) /\ Contract'
      BY <1>3, WebDeadline, MoveContract DEF WebEffect
    <2>2. Apk'
      BY <1>3, <2>1, OtherSlots DEF WebEffect, Contract
    <2> QED BY <1>0, <2>1, <2>2 DEF WebEffect
  <1>4. CASE AndroidTimesOut(t) /\ KeepTargets
    <2>1. Move(t) /\ Kind(t) = "android" /\ Contract'
      BY <1>4, AndroidSteps, MoveContract
    <2>2. Away(t) /\ plan' = plan
      BY <2>1, MoveShape DEF Away, Contract, KindsFit, Fits, ApkAwaits, Kind
    <2>3. Apk'
      BY <1>4, <2>2, OtherSlots DEF KeepTargets, Contract
    <2>4. Token'
      BY <1>4, <2>1, <2>2, OtherCache DEF KeepTargets, Away
    <2> QED BY <1>0, <1>4, <2>1, <2>3, <2>4 DEF KeepTargets, webVars, WebTypeOK
  <1> QED BY <1>1, <1>2, <1>3, <1>4 DEF Clock

\* A page that sets a cookie adds one to the cookies there are.
LEMMA CookieAdded ==
    ASSUME WebTypeOK, NEW new \in Cookies, cookies' = Append(cookies, new)
    PROVE  /\ cookies' \in Seq(Cookies) /\ Len(cookies') = Len(cookies) + 1
           /\ DOMAIN cookies' = DOMAIN cookies \cup {Len(cookies) + 1}
           /\ \A c \in DOMAIN cookies : cookies'[c] = cookies[c]
           /\ cookies'[Len(cookies) + 1] = new
  BY AppendProperties, LenProperties DEF WebTypeOK

LEMMA PageKeepsTypes ==
    ASSUME WebTypeOK, Contract, NEW t \in Tasks, PageSetsCookie(t)
    PROVE  WebTypeOK'
  <1>1. dev[t] \in Devices /\ Realm(t) \in Realms
    BY PlanType DEF PageSetsCookie, Contract, RunningHere
  <1>2. PICK login \in BOOLEAN :
          LET new == [of |-> Realm(t), login |-> login]
          IN  /\ cookies' = Append(cookies, new)
              /\ browser' = [browser EXCEPT ![dev[t]] =
                   {b \in @ : cookies[b] # new} \cup {Len(cookies) + 1}]
    BY DEF PageSetsCookie
  <1> DEFINE new == [of |-> Realm(t), login |-> login]
  <1>3. new \in Cookies
    BY <1>1 DEF Cookies
  <1>4. browser' = [browser EXCEPT ![dev[t]] =
          {b \in browser[dev[t]] : cookies[b] # new} \cup {Len(cookies) + 1}]
    BY <1>2
  <1>5. cookies' = Append(cookies, new)
    BY <1>2
  <1> HIDE DEF new
  <1>6. /\ cookies' \in Seq(Cookies) /\ Len(cookies') = Len(cookies) + 1
        /\ DOMAIN cookies' = DOMAIN cookies \cup {Len(cookies) + 1}
    BY <1>3, <1>5, CookieAdded
  <1>7. Len(cookies') <= MaxCookies
    BY <1>6, LenProperties DEF PageSetsCookie, WebTypeOK
  <1>8. expired' = expired /\ jar' = jar
    BY DEF PageSetsCookie
  <1> QED BY <1>1, <1>4, <1>6, <1>7, <1>8 DEF WebTypeOK

LEMMA WorldKeeps ==
    ASSUME Inv, World
    PROVE  Inv'
  <1> USE DEF Inv
  <1>0. cli' \in CliStates /\ targets' \subseteq Tasks /\ UNCHANGED taskVars
    BY DEF World, cliVars, CIWrites, CIRemoves, VendorUpdates, PhoneTakesBuild,
       PageSetsCookie, DatePasses
  <1>1. Contract'
    BY <1>0 DEF Contract, ContractTypeOK, KindsFit, Kind, RunningHere,
         FaultsAreSorted, taskVars
  <1>2. ASSUME ApkData', UNCHANGED slots PROVE Apk'
    <2>1. Hashing' = Hashing
      BY <1>0 DEF Hashing, taskVars
    <2> QED BY <1>2, <2>1 DEF Apk, ApkTypeOK, ApkData, SlotsCount
  <1>3. ASSUME UNCHANGED tokenVars PROVE Token'
    BY <1>0, <1>3 DEF Token, TokenTypeOK, LockIsRefresh, RefreshesEarned, RefreshInFlight,
       Fresh, Realm, tokenVars, taskVars
  <1>4. CASE \E t \in Tasks : PhoneTakesBuild(t) /\ UNCHANGED <<tokenVars, webVars>>
    <2>1. PICK t \in Tasks : PhoneTakesBuild(t)
      BY <1>4
    <2>2. ApkData'
      <3>1. file \in 0..MaxBuilds /\ file \in 0..Newer
        BY DEF Apk, ApkTypeOK, Newer
      <3> QED BY <2>1, <3>1 DEF PhoneTakesBuild, Apk, ApkTypeOK, ApkData
    <2> QED BY <1>0, <1>1, <1>2, <1>3, <1>4, <2>1, <2>2 DEF PhoneTakesBuild, webVars, WebTypeOK
  <1>5. CASE /\ CIWrites \/ CIRemoves \/ \E d \in Devices : VendorUpdates(d)
             /\ UNCHANGED <<taskVars, tokenVars, webVars>>
    <2>1. ApkData'
      <3>1. CASE CIWrites
        BY <3>1 DEF CIWrites, Apk, ApkTypeOK, ApkData
      <3>2. CASE CIRemoves
        BY <3>2 DEF CIRemoves, Apk, ApkTypeOK, ApkData
      <3>3. ASSUME NEW d \in Devices, VendorUpdates(d) PROVE ApkData'
        BY <3>3 DEF VendorUpdates, Apk, ApkTypeOK, ApkData, Newer
      <3> QED BY <1>5, <3>1, <3>2, <3>3
    <2>2. UNCHANGED slots
      BY <1>5 DEF CIWrites, CIRemoves, VendorUpdates
    <2> QED BY <1>0, <1>1, <1>2, <1>3, <1>5, <2>1, <2>2 DEF webVars, WebTypeOK
  <1>6. CASE /\ \E r \in Realms : TokenExpires(r) \/ Invalidate(r)
             /\ UNCHANGED <<taskVars, apkVars, webVars>>
    <2>0. Apk'
      BY <1>2, <1>6 DEF apkVars, worldVars, Apk, ApkTypeOK, ApkData
    <2> PICK r \in Realms : TokenExpires(r) \/ Invalidate(r)
      BY <1>6
    <2>1. CASE TokenExpires(r)
      <3>1. Token'
        BY <1>0, <2>1, TokenReplaced DEF TokenExpires, taskVars, Contract
      <3> QED BY <1>0, <1>1, <1>6, <2>0, <3>1 DEF webVars, WebTypeOK
    <2>2. CASE Invalidate(r)
      <3>1. (UNCHANGED lost /\ ~Fresh(r)) \/ Loses(r)
        BY <2>2 DEF Invalidate
      <3>2. Token'
        BY <1>0, <2>2, <3>1, TokenReplaced DEF Invalidate, taskVars, Contract
      <3> QED BY <1>0, <1>1, <1>6, <2>0, <3>2 DEF webVars, WebTypeOK
    <2> QED BY <2>1, <2>2
  <1>7. CASE UNCHANGED apkVars /\ UNCHANGED tokenVars /\ WebTypeOK'
    <2>1. Apk'
      BY <1>2, <1>7 DEF apkVars, worldVars, Apk, ApkTypeOK, ApkData
    <2> QED BY <1>0, <1>1, <1>3, <1>7, <2>1
  <1>8. ASSUME NEW t \in Tasks, PageSetsCookie(t), UNCHANGED apkVars PROVE Inv'
    BY <1>7, <1>8, PageKeepsTypes DEF PageSetsCookie
  <1>9. ASSUME NEW c \in DOMAIN cookies, DatePasses(c), UNCHANGED apkVars PROVE Inv'
    <2>1. WebTypeOK'
      BY <1>9 DEF DatePasses, WebTypeOK
    <2> QED BY <1>7, <1>9, <2>1 DEF DatePasses
  <1> QED BY <1>4, <1>5, <1>6, <1>8, <1>9 DEF World

LEMMA InvInit == Init => Inv
  <1> SUFFICES ASSUME Init PROVE Inv
    OBVIOUS
  <1> USE DEF Init
  <1>1. Contract
    BY DEF ContractInit, Contract, ContractTypeOK, KindsFit, RunningHere, Fits, ApkAwaits,
       WebAwaits, AndroidAwaits, AtStates, Outcomes, Causes, FaultsAreSorted
  <1>2. Apk
    <2>1. Hashing = {}
      BY DEF ContractInit, Hashing
    <2>2. Cardinality(Hashing) = 0
      BY <2>1, FS_EmptySet
    <2>3. ApkTypeOK /\ slots = HashSlots
      BY DEF ApkInit, ApkTypeOK, Newer
    <2> QED BY <2>2, <2>3 DEF Apk, SlotsCount
  <1>3. Token
    BY DEF TokenInit, ContractInit, Token, TokenTypeOK, LockIsRefresh, RefreshesEarned,
       RefreshInFlight, Fresh
  <1>4. WebTypeOK
    BY DEF WebInit, WebTypeOK
  <1> QED BY <1>1, <1>2, <1>3, <1>4 DEF Inv, CliStates

LEMMA InvNext == Inv /\ [Next]_vars => Inv'
  <1> SUFFICES ASSUME Inv, [Next]_vars PROVE Inv'
    OBVIOUS
  <1>1. CASE UNCHANGED vars
    <2>1. UNCHANGED <<taskVars, apkVars, tokenVars, webVars, cliVars>>
      BY <1>1 DEF vars
    <2>2. Contract'
      BY <2>1 DEF Inv, Contract, ContractTypeOK, KindsFit, Kind, RunningHere,
         FaultsAreSorted, taskVars
    <2>3. Apk'
      BY <2>1 DEF Inv, Apk, ApkTypeOK, SlotsCount, Hashing, taskVars, apkVars, worldVars
    <2>4. Token'
      BY <2>1 DEF Inv, Token, TokenTypeOK, LockIsRefresh, RefreshesEarned, RefreshInFlight,
         Fresh, Realm, tokenVars, taskVars
    <2> QED BY <2>1, <2>2, <2>3, <2>4 DEF Inv, webVars, WebTypeOK, cliVars
  <1> QED BY <1>1, CommandKeeps, StepsKeep, ClockKeeps, WorldKeeps DEF Next

THEOREM InvHolds == Spec => []Inv
  <1> QED BY InvInit, InvNext, PTL DEF Spec

\* Every variable holds what it should.
THEOREM TargetsTypeCorrect == Spec => []TypeOK
  <1>1. Inv => TypeOK
    BY DEF Inv, TypeOK, Contract, Apk, Token
  <1> QED BY <1>1, InvHolds, PTL

\* A realm's token endpoint is never asked once too often, whoever waits for the token
\* and however the waiting ends: auth.py's lock per realm and the look at the cache
\* after taking it.
THEOREM TokensAreRefreshedOnce == Spec => []RefreshesEarned
  <1>1. Inv => RefreshesEarned
    BY DEF Inv, Token
  <1> QED BY <1>1, InvHolds, PTL

\* Only what no other phone could cure is given up at once; and what is wrong with the
\* work, the phone's kind, a host without adb or the far side is never held against a
\* phone: the tables of codes of apk.py and the handlers around every step.
THEOREM EveryFaultIsSorted == Spec => []FaultsAreSorted
  <1>1. Inv => FaultsAreSorted
    BY DEF Inv, Contract
  <1> QED BY <1>1, InvHolds, PTL

-----------------------------------------------------------------------------
\* No attempt waits for nobody, and none goes round in circles.

\* Who waits for a hashing slot waits for an attempt that hashes, who waits for a
\* realm's lock waits for one that awaits its refresh, and neither of these waits for
\* anything but the disk or the token endpoint.
WaitersHaveHolders ==
    \A t \in Tasks :
      /\ at[t] = "slot" /\ slots = 0 => \E u \in Tasks : at[u] = "hash"
      /\ at[t] = "lock" /\ lock[Realm(t)] # NoOne =>
           \E u \in Tasks : u = lock[Realm(t)] /\ at[u] = "refresh" /\ Realm(u) = Realm(t)

\* No two targets can wait for each other, whoever was cancelled while it held a slot
\* or a lock (apk.py:114, auth.py:297).
THEOREM NobodyWaitsInVain == Spec => []WaitersHaveHolders
  <1>1. Inv => WaitersHaveHolders
    <2> SUFFICES ASSUME Inv, NEW t \in Tasks
                 PROVE  /\ at[t] = "slot" /\ slots = 0 => \E u \in Tasks : at[u] = "hash"
                        /\ at[t] = "lock" /\ lock[Realm(t)] # NoOne =>
                             \E u \in Tasks : u = lock[Realm(t)] /\ at[u] = "refresh"
                                                /\ Realm(u) = Realm(t)
      BY DEF WaitersHaveHolders
    <2>1. ASSUME slots = 0 PROVE Hashing # {}
      <3>1. Cardinality(Hashing) # 0
        BY <2>1, FS_Subset, FS_CardinalityType DEF Inv, Apk, SlotsCount, Hashing
      <3> QED BY <3>1, FS_EmptySet
    <2>2. Realm(t) \in Realms
      BY PlanType DEF Inv, Contract
    <2> QED BY <2>1, <2>2 DEF Hashing, Inv, Token, LockIsRefresh
  <1> QED BY <1>1, InvHolds, PTL

\* The order in which an attempt can come to its awaits within a step; the session is
\* before the first step, and "next" is the head of the loop.
Depth(a) ==
    CASE a = "idle" -> 0
      [] a = "session" -> 8
      [] a = "next" -> 7
      [] a \in {"slot", "cookies"} -> 6
      [] a \in {"hash", "storage"} -> 5
      [] a \in {"install", "lock"} -> 4
      [] a \in {"refresh", "find"} -> 3
      [] a = "headers" -> 2
      [] OTHER -> 1

StepsOf(t) == Len(plan[t].steps)

\* What an attempt has before it at most.
AwaitsLeft(t) ==
    IF at[t] = "idle" THEN 0 ELSE 7 * (StepsOf(t) - step[t]) + Depth(at[t])

Stays(t) == UNCHANGED <<at[t], step[t]>>

\* Whatever happens to a running attempt leaves it less to do; none starts over.
AttemptAdvances ==
    [][\A t \in Tasks : at[t] # "idle" =>
          /\ AwaitsLeft(t) \in 1..(7 * StepsOf(t) + 8)
          /\ Stays(t) \/ AwaitsLeft(t)' < AwaitsLeft(t)]_vars

\* An attempt is within the steps of its spec, and at one when it awaits something.
Placed ==
    \A t \in Tasks :
      /\ step[t] \in 0..StepsOf(t)
      /\ at[t] \in {"idle", "session"} => step[t] = 0
      /\ at[t] \notin {"idle", "session", "next"} => step[t] < StepsOf(t)

\* How an attempt goes on: to a later await of the same step, to the next step, or to
\* its end.
GoesOn(t, a) ==
    /\ Goes(t, a) /\ Depth(a) < Depth(at[t]) /\ a \in AtStates \ {"idle", "session"}
    /\ a # "next" => step[t] < StepsOf(t)
Onward(t) ==
    /\ at[t] # "idle"
    /\ \/ \E a \in AtStates : GoesOn(t, a)
       \/ Advances(t) /\ step[t] < StepsOf(t)
       \/ \E o, c : Ends(t, o, c)

LEMMA DepthIs == \A a \in AtStates : Depth(a) \in 0..8 /\ (a # "idle" => Depth(a) > 0)
  BY DEF AtStates, Depth

LEMMA OnwardLeavesLess ==
    ASSUME ContractTypeOK, Placed, NEW t \in Tasks, Onward(t)
    PROVE  Placed' /\ AwaitsLeft(t)' < AwaitsLeft(t)
  <1>1. StepsOf(t) \in Nat /\ StepsOf(t)' = StepsOf(t) /\ plan' = plan /\ step[t] \in Nat
    <2>1. plan' = plan
      BY DEF Onward, GoesOn, Goes, Advances, Ends
    <2>2. plan[t].steps \in Seq(STRING)
      BY PlanType DEF Specs
    <2> QED BY <2>1, <2>2, LenProperties DEF StepsOf, ContractTypeOK
  <1>2. at[t] \in AtStates /\ at[t] # "idle" /\ Depth(at[t]) \in 1..8
    BY DepthIs DEF Onward, ContractTypeOK
  <1>3. \A u \in Tasks \ {t} : at'[u] = at[u] /\ step'[u] = step[u] /\ StepsOf(u)' = StepsOf(u)
    BY <1>1 DEF Onward, GoesOn, Goes, Advances, Ends, ContractTypeOK, StepsOf
  <1>a. ASSUME step'[t] \in 0..StepsOf(t), at'[t] \in {"idle", "session"} => step'[t] = 0,
               at'[t] \notin {"idle", "session", "next"} => step'[t] < StepsOf(t)
        PROVE  Placed'
    BY <1>1, <1>3, <1>a DEF Placed
  <1>4. ASSUME NEW a \in AtStates, GoesOn(t, a) PROVE Placed' /\ AwaitsLeft(t)' < AwaitsLeft(t)
    <2>1. at'[t] = a /\ step' = step /\ a \notin {"idle", "session"}
      BY <1>4 DEF GoesOn, Goes, ContractTypeOK
    <2>2. Placed'
      BY <1>4, <1>a, <2>1 DEF GoesOn, Placed
    <2>3. Depth(a) < Depth(at[t]) /\ Depth(a) \in 0..8
      BY <1>4, DepthIs DEF GoesOn
    <2> QED BY <1>1, <1>2, <2>1, <2>2, <2>3 DEF AwaitsLeft
  <1>5. ASSUME Advances(t), step[t] < StepsOf(t) PROVE Placed' /\ AwaitsLeft(t)' < AwaitsLeft(t)
    <2>1. at'[t] = "next" /\ step'[t] = step[t] + 1
      BY <1>5 DEF Advances, ContractTypeOK
    <2>2. Placed'
      BY <1>1, <1>5, <1>a, <2>1
    <2>3. Depth(at'[t]) = 7
      BY <2>1 DEF Depth
    <2> QED BY <1>1, <1>2, <2>1, <2>2, <2>3 DEF AwaitsLeft
  <1>6. ASSUME NEW o, NEW c, Ends(t, o, c) PROVE Placed' /\ AwaitsLeft(t)' < AwaitsLeft(t)
    <2>1. at'[t] = "idle" /\ step'[t] = 0
      BY <1>6 DEF Ends, ContractTypeOK
    <2>2. Placed'
      BY <1>1, <1>a, <2>1
    <2>3. 7 * (StepsOf(t) - step[t]) \in Nat
      BY <1>1 DEF Placed
    <2> QED BY <1>2, <2>1, <2>2, <2>3 DEF AwaitsLeft
  <1> QED BY <1>4, <1>5, <1>6 DEF Onward

\* The awaits of a step in the order an attempt comes to them.
LEMMA AwaitsInOrder ==
    /\ Depth("session") = 8 /\ Depth("next") = 7
    /\ Depth("slot") = 6 /\ Depth("cookies") = 6
    /\ Depth("hash") = 5 /\ Depth("storage") = 5
    /\ Depth("install") = 4 /\ Depth("lock") = 4
    /\ Depth("refresh") = 3 /\ Depth("find") = 3
    /\ Depth("headers") = 2
    /\ \A a \in {"verify", "uninstall", "shell", "restore", "page", "act"} : Depth(a) = 1
  BY DEF Depth

\* Within a step there is a step to be within.
LEMMA MidStep ==
    ASSUME Placed, NEW t \in Tasks,
           \/ at[t] \notin {"idle", "session", "next"}
           \/ \E o : AtOp(t, o)
    PROVE  at[t] # "idle" /\ step[t] < StepsOf(t)
  BY DEF Placed, AtOp, StepsOf

LEMMA GoesOnward ==
    ASSUME NEW t \in Tasks, at[t] # "idle",
           NEW a \in AtStates \ {"idle", "session"}, Goes(t, a), Depth(a) < Depth(at[t]),
           a # "next" => step[t] < StepsOf(t)
    PROVE  Onward(t)
  BY DEF Onward, GoesOn

LEMMA AdvancesOnward ==
    ASSUME NEW t \in Tasks, at[t] # "idle", Advances(t), step[t] < StepsOf(t)
    PROVE  Onward(t)
  BY DEF Onward

LEMMA EndsOnward ==
    ASSUME NEW t \in Tasks, at[t] # "idle", NEW o, NEW c, Ends(t, o, c)
    PROVE  Onward(t)
  BY DEF Onward

\* One step per action of ApkTarget.
LEMMA ApkOnward ==
    ASSUME Contract, Placed, NEW t \in Tasks, ApkStep(t) \/ ApkTimesOut(t)
    PROVE  Onward(t)
  <1>1. ASSUME InstallNoFile(t) \/ HashFails(t) \/ InstallSizeFails(t) \/ AdbMissing(t)
               \/ VerifyFails(t) \/ UninstallFails(t) \/ ShellTimesOut(t) \/ ApkUnknownOp(t)
               \/ ApkTimesOut(t)
        PROVE  Onward(t)
    <2>1. at[t] # "idle" /\ \E o, c : Ends(t, o, c)
      BY <1>1 DEF InstallNoFile, AtOp, HashFails, InstallSizeFails, AdbMissing, VerifyFails,
         UninstallFails, ShellTimesOut, ApkUnknownOp, UnknownOp, ApkTimesOut, TimesOut, Fails
    <2> QED BY <2>1, EndsOnward
  <1>2. CASE InstallStarts(t)
    <2>1. at[t] = "next" /\ step[t] < StepsOf(t) /\ \E a \in {"hash", "slot"} : Goes(t, a)
      BY <1>2 DEF InstallStarts, AtOp, StepsOf
    <2> QED BY <2>1, AwaitsInOrder, GoesOnward DEF AtStates
  <1>3. CASE GetsSlot(t)
    <2>1. at[t] = "slot" /\ Goes(t, "hash")
      BY <1>3 DEF GetsSlot
    <2> QED BY <2>1, MidStep, AwaitsInOrder, GoesOnward DEF AtStates
  <1>4. CASE Hashed(t)
    <2>1. at[t] = "hash" /\ Goes(t, "install")
      BY <1>4 DEF Hashed
    <2> QED BY <2>1, MidStep, AwaitsInOrder, GoesOnward DEF AtStates
  <1>5. CASE InstallAnswers(t)
    <2>1. at[t] = "install" /\ (Advances(t) \/ \E o, c : Ends(t, o, c))
      <3>1. \A result, c : Concludes(t, result, c) => Advances(t) \/ \E o, x : Ends(t, o, x)
        BY DEF Concludes, Fails
      <3> QED BY <1>5, <3>1 DEF InstallAnswers
    <2> QED BY <2>1, MidStep, AdvancesOnward, EndsOnward
  <1>6. CASE StepCalls(t)
    <2>1. PICK op \in ApkOps, a \in {"verify", "uninstall", "shell"} : Calls(t, op, a)
      BY <1>6 DEF StepCalls, ApkOps
    <2>2. at[t] = "next" /\ step[t] < StepsOf(t) /\ Goes(t, a)
      BY <2>1 DEF Calls, AtOp, StepsOf
    <2> QED BY <2>2, AwaitsInOrder, GoesOnward DEF AtStates
  <1>7. CASE VerifyAnswers(t)
    <2>1. at[t] = "verify" /\ (Advances(t) \/ \E o, c : Ends(t, o, c))
      BY <1>7 DEF VerifyAnswers, Fails
    <2> QED BY <2>1, MidStep, AdvancesOnward, EndsOnward
  <1>8. CASE UninstallAnswers(t) \/ ShellAnswers(t)
    <2>1. at[t] \in {"uninstall", "shell"} /\ Advances(t)
      BY <1>8 DEF UninstallAnswers, ShellAnswers
    <2> QED BY <2>1, MidStep, AdvancesOnward
  <1> QED BY <1>1, <1>2, <1>3, <1>4, <1>5, <1>6, <1>7, <1>8 DEF ApkStep

\* One step per action of WebTarget and TokenCache.
LEMMA WebOnward ==
    ASSUME Contract, Placed, NEW t \in Tasks, WebStep(t) \/ WebTimesOut(t)
    PROVE  Onward(t)
  <1>1. ASSUME WebSessionFails(t) \/ NoCredential(t) \/ BrowserFails(t) \/ WebUnknownOp(t)
               \/ RefreshFails(t) \/ WebTimesOut(t)
        PROVE  Onward(t)
    <2>1. at[t] # "idle" /\ \E o, c : Ends(t, o, c)
      BY <1>1 DEF WebSessionFails, SessionFails, NoCredential, AtWeb, AtOp, BrowserFails,
         WebUnknownOp, UnknownOp, RefreshFails, WebTimesOut, TimesOut
    <2> QED BY <2>1, EndsOnward
  <1>2. CASE WebSessionReady(t)
    <2>1. at[t] = "session" /\ Goes(t, "next")
      BY <1>2 DEF WebSessionReady
    <2> QED BY <2>1, AwaitsInOrder, GoesOnward DEF AtStates
  <1>3. CASE CookieRestores(t) \/ Basic(t) \/ PageCall(t) \/ CaptureCall(t)
    <2>1. at[t] = "next" /\ step[t] < StepsOf(t)
          /\ \E a \in {"restore", "headers", "page", "cookies"} : Goes(t, a)
      BY <1>3 DEF CookieRestores, Basic, PageCall, CaptureCall, AtWeb, AtOp, StepsOf
    <2> QED BY <2>1, AwaitsInOrder, GoesOnward DEF AtStates
  <1>4. CASE CookieReports(t)
    <2>1. at[t] = "next" /\ step[t] < StepsOf(t) /\ Advances(t)
      BY <1>4 DEF CookieReports, AtWeb, AtOp, StepsOf
    <2> QED BY <2>1, AdvancesOnward
  <1>5. CASE Bearer(t)
    <2>1. at[t] = "next" /\ step[t] < StepsOf(t)
          /\ \E a \in {"headers", "refresh", "lock"} : Goes(t, a)
      BY <1>5 DEF Bearer, TokenHit, TokenMiss, StartsRefresh, AtWeb, AtOp, StepsOf
    <2> QED BY <2>1, AwaitsInOrder, GoesOnward DEF AtStates
  <1>6. CASE BrowserAnswers(t)
    <2>1. at[t] \in {"page", "restore", "headers"} /\ Advances(t)
      BY <1>6 DEF BrowserAnswers
    <2> QED BY <2>1, MidStep, AdvancesOnward
  <1>7. CASE SaveCookies(t)
    <2>1. at[t] = "cookies" /\ Goes(t, "storage")
      BY <1>7 DEF SaveCookies
    <2> QED BY <2>1, MidStep, AwaitsInOrder, GoesOnward DEF AtStates
  <1>8. CASE StorageAnswers(t)
    <2>1. at[t] = "storage" /\ (Advances(t) \/ Goes(t, "lock"))
      BY <1>8 DEF StorageAnswers, CaptureHit, CaptureMiss
    <2> QED BY <2>1, MidStep, AwaitsInOrder, AdvancesOnward, GoesOnward DEF AtStates
  <1>9. CASE GetsLock(t)
    <2>1. at[t] = "lock"
          /\ (Advances(t) \/ \E a \in {"headers", "refresh"} : Goes(t, a))
      BY <1>9 DEF GetsLock, StartsRefresh
    <2> QED BY <2>1, MidStep, AwaitsInOrder, AdvancesOnward, GoesOnward DEF AtStates
  <1>10. CASE Refreshed(t)
    <2>1. at[t] = "refresh" /\ Goes(t, "headers")
      BY <1>10 DEF Refreshed
    <2> QED BY <2>1, MidStep, AwaitsInOrder, GoesOnward DEF AtStates
  <1> QED BY <1>1, <1>2, <1>3, <1>4, <1>5, <1>6, <1>7, <1>8, <1>9, <1>10 DEF WebStep

\* One step per action of AndroidTarget.
LEMMA AndroidOnward ==
    ASSUME Contract, Placed, NEW t \in Tasks, AndroidStep(t) \/ AndroidTimesOut(t)
    PROVE  Onward(t)
  <1>1. ASSUME AndroidSessionFails(t) \/ AppiumFails(t) \/ AndroidUnknownOp(t)
               \/ AndroidTimesOut(t)
        PROVE  Onward(t)
    <2>1. at[t] # "idle" /\ \E o, c : Ends(t, o, c)
      BY <1>1 DEF AndroidSessionFails, SessionFails, AppiumFails, AndroidUnknownOp, UnknownOp,
         AndroidTimesOut, TimesOut
    <2> QED BY <2>1, EndsOnward
  <1>2. CASE AndroidSessionReady(t)
    <2>1. at[t] = "session" /\ Goes(t, "next")
      BY <1>2 DEF AndroidSessionReady
    <2> QED BY <2>1, AwaitsInOrder, GoesOnward DEF AtStates
  <1>3. CASE AndroidCall(t)
    <2>1. at[t] = "next" /\ step[t] < StepsOf(t) /\ \E a \in {"find", "act"} : Goes(t, a)
      BY <1>3 DEF AndroidCall, AtOp, StepsOf
    <2> QED BY <2>1, AwaitsInOrder, GoesOnward DEF AtStates
  <1>4. CASE Found(t)
    <2>1. at[t] = "find" /\ (Goes(t, "act") \/ \E o, c : Ends(t, o, c))
      BY <1>4 DEF Found
    <2> QED BY <2>1, MidStep, AwaitsInOrder, EndsOnward, GoesOnward DEF AtStates
  <1>5. CASE Acted(t)
    <2>1. at[t] = "act" /\ Advances(t)
      BY <1>5 DEF Acted
    <2> QED BY <2>1, MidStep, AdvancesOnward
  <1> QED BY <1>1, <1>2, <1>3, <1>4, <1>5 DEF AndroidStep

\* Whatever happens, one attempt goes on, or one begins, or none is touched.
LEMMA OneGoesOn ==
    ASSUME Inv, Placed, [Next]_vars
    PROVE  \/ \E t \in Tasks : Onward(t) \/ Begins(t)
           \/ UNCHANGED <<plan, at, step>>
  <1>1. CASE UNCHANGED vars
    BY <1>1 DEF vars, taskVars
  <1>2. CASE StartFails \/ RunRefused \/ RunSubmits \/ DeploySubmits \/ Exits
    BY <1>2 DEF StartFails, RunRefused, RunSubmits, DeploySubmits, Exits, Submits, taskVars
  <1>3. ASSUME NEW t \in Tasks, Steps(t) PROVE Onward(t) \/ Begins(t)
    <2>1. CASE Returns(t)
      BY <2>1, EndsOnward DEF Returns
    <2> QED BY <1>3, <2>1, ApkOnward, WebOnward, AndroidOnward DEF Steps, Inv
  <1>4. ASSUME NEW t \in Tasks, Clock(t) PROVE Onward(t)
    <2>1. CASE RunsOutOfTime(t)
      BY <2>1, EndsOnward DEF RunsOutOfTime
    <2> QED BY <1>4, <2>1, ApkOnward, WebOnward, AndroidOnward DEF Clock, Inv
  <1>5. CASE World
    BY <1>5 DEF World, PhoneTakesBuild, PageSetsCookie, DatePasses, taskVars
  <1> QED BY <1>1, <1>2, <1>3, <1>4, <1>5 DEF Next

LEMMA StepCount ==
    ASSUME ContractTypeOK, NEW t \in Tasks
    PROVE  StepsOf(t) \in Nat
  <1>1. plan[t].steps \in Seq(STRING)
    BY PlanType DEF Specs
  <1> QED BY <1>1, LenProperties DEF StepsOf

\* An attempt begins at its first step.
LEMMA BeginsPlaced ==
    ASSUME Contract, Placed, NEW t \in Tasks, Begins(t)
    PROVE  /\ Placed' /\ at[t] = "idle"
           /\ \A u \in Tasks \ {t} : Stays(u)
  <1>1. /\ at[t] = "idle" /\ step[t] = 0 /\ plan' = plan /\ step' = step
        /\ at'[t] \in {"next", "session"}
        /\ \A u \in Tasks \ {t} : at'[u] = at[u]
    BY DEF Begins, Contract, ContractTypeOK, RunningHere, Placed
  <1>2. \A u \in Tasks : StepsOf(u)' = StepsOf(u)
    BY <1>1 DEF StepsOf
  <1>3. Placed'
    BY <1>1, <1>2 DEF Placed
  <1> QED BY <1>1, <1>3 DEF Stays

LEMMA PlacedNext ==
    ASSUME Inv, Placed, [Next]_vars
    PROVE  Placed'
  <1>1. ASSUME NEW t \in Tasks, Onward(t) PROVE Placed'
    BY <1>1, OnwardLeavesLess DEF Inv, Contract
  <1>2. ASSUME NEW t \in Tasks, Begins(t) PROVE Placed'
    BY <1>2, BeginsPlaced DEF Inv
  <1>3. CASE UNCHANGED <<plan, at, step>>
    BY <1>3 DEF Placed, StepsOf
  <1> QED BY <1>1, <1>2, <1>3, OneGoesOn

\* An attempt at a target comes to its end after at most 7 awaits per step and the
\* session: the code has no loop in a step and no way back to an earlier step, and
\* nobody else can set an attempt back (apk.py:183-203, web.py:239,
\* android.py:317); asyncio.wait_for in the scheduler only cuts an attempt short.
THEOREM AttemptIsBounded == Spec => AttemptAdvances
  <1>1. Init => Placed
    <2> SUFFICES ASSUME Init PROVE Placed
      OBVIOUS
    <2>1. ContractTypeOK
      BY InvInit DEF Inv, Contract
    <2>2. \A t \in Tasks : at[t] = "idle" /\ step[t] = 0
      BY DEF Init, ContractInit
    <2> QED BY <2>1, <2>2, StepCount DEF Placed
  <1>2. Inv /\ Placed /\ [Next]_vars => Placed'
    BY PlacedNext
  <1>3. Inv /\ Placed /\ [Next]_vars =>
          [\A t \in Tasks : at[t] # "idle" =>
              /\ AwaitsLeft(t) \in 1..(7 * StepsOf(t) + 8)
              /\ Stays(t) \/ AwaitsLeft(t)' < AwaitsLeft(t)]_vars
    <2> SUFFICES ASSUME Inv, Placed, [Next]_vars, NEW t \in Tasks, at[t] # "idle"
                 PROVE  /\ AwaitsLeft(t) \in 1..(7 * StepsOf(t) + 8)
                        /\ Stays(t) \/ AwaitsLeft(t)' < AwaitsLeft(t)
      OBVIOUS
    <2>1. AwaitsLeft(t) \in 1..(7 * StepsOf(t) + 8)
      <3>1. StepsOf(t) \in Nat /\ step[t] \in 0..StepsOf(t)
        BY StepCount DEF Inv, Contract, Placed
      <3>2. at[t] \in AtStates /\ Depth(at[t]) \in 1..8
        BY DepthIs DEF Inv, Contract, ContractTypeOK
      <3> QED BY <3>1, <3>2 DEF AwaitsLeft
    <2>2. ASSUME NEW u \in Tasks, Onward(u)
          PROVE  Stays(t) \/ AwaitsLeft(t)' < AwaitsLeft(t)
      <3>1. CASE u = t
        BY <2>2, <3>1, OnwardLeavesLess DEF Inv, Contract
      <3>2. CASE u # t
        BY <2>2, <3>2 DEF Onward, GoesOn, Goes, Advances, Ends, Stays, Inv, Contract,
           ContractTypeOK
      <3> QED BY <3>1, <3>2
    <2>3. ASSUME NEW u \in Tasks, Begins(u) PROVE Stays(t)
      BY <2>3, BeginsPlaced DEF Inv
    <2>4. CASE UNCHANGED <<plan, at, step>>
      BY <2>1, <2>4 DEF Stays
    <2> QED BY <2>1, <2>2, <2>3, <2>4, OneGoesOn
  <1> QED BY <1>1, <1>2, <1>3, InvHolds, PTL DEF Spec, AttemptAdvances

-----------------------------------------------------------------------------
\* The rule of task.py:57-60: blame counts towards quarantining hardware, so that a
\* buggy script cannot take a healthy phone out of the pool.  How far the code keeps it.

\* What stands behind the blame of a target of kind k: the device, or the deadline that
\* passed on it, whoever spent the time; but the host as well, without Playwright
\* (session.py wraps web.py:105), with its Appium down (android.py:102-103) or its
\* build gone (apk.py:232, 262); an element that is not on the screen (android.py:99);
\* and an app that verify does not find, whoever removed it (apk.py:273-280).
Accountable(k, c) ==
    \/ c \in {"device", "time", "host"}
    \/ k = "android" /\ c = "app"
    \/ k = "apk" /\ c = "version"

BlameIsExplained ==
    \A t \in Tasks : outcome[t] = "blame" => Accountable(Kind(t), cause[t])

\* A step that ends no attempt changes no verdict; one that does explains its blame.
Explains(t) ==
    \/ UNCHANGED <<plan, outcome, cause>>
    \/ \E o, c : Ends(t, o, c) /\ (o = "blame" => Accountable(Kind(t), c))

LEMMA SuspendedExplains ==
    ASSUME NEW t \in Tasks, Advances(t) \/ \E a : Goes(t, a)
    PROVE  Explains(t)
  BY DEF Explains, Advances, Goes

LEMMA EndsExplained ==
    ASSUME NEW t \in Tasks, NEW o, NEW c, Ends(t, o, c),
           o = "blame" => Accountable(Kind(t), c)
    PROVE  Explains(t)
  BY DEF Explains

LEMMA ApkExplains ==
    ASSUME NEW t \in Tasks, ApkStep(t) \/ ApkTimesOut(t)
    PROVE  Explains(t)
  <1>0. Kind(t) = "apk"
    BY DEF ApkStep, ApkTimesOut
  <1>1. CASE InstallNoFile(t) \/ AdbMissing(t) \/ ApkUnknownOp(t)
    <2>1. \E o, c : Ends(t, o, c) /\ o # "blame"
      BY <1>1 DEF InstallNoFile, AdbMissing, ApkUnknownOp, UnknownOp, Fails
    <2> QED BY <2>1, EndsExplained
  <1>2. CASE HashFails(t) \/ InstallSizeFails(t) \/ VerifyFails(t)
    <2>1. \E c \in {"host", "device", "version"} : Ends(t, "blame", c)
      BY <1>2 DEF HashFails, InstallSizeFails, VerifyFails, Fails
    <2> QED BY <1>0, <2>1, EndsExplained DEF Accountable
  <1>3. CASE UninstallFails(t) \/ ShellTimesOut(t) \/ ApkTimesOut(t)
    <2>1. \E c \in {"device", "time"} : Ends(t, "blame", c)
      BY <1>3 DEF UninstallFails, ShellTimesOut, ApkTimesOut, TimesOut, Fails
    <2> QED BY <2>1, EndsExplained DEF Accountable
  <1>4. CASE InstallStarts(t) \/ GetsSlot(t) \/ Hashed(t) \/ StepCalls(t)
             \/ UninstallAnswers(t) \/ ShellAnswers(t)
    <2>1. Advances(t) \/ \E a : Goes(t, a)
      BY <1>4 DEF InstallStarts, GetsSlot, Hashed, StepCalls, Calls, UninstallAnswers,
         ShellAnswers
    <2> QED BY <2>1, SuspendedExplains
  <1>5. CASE VerifyAnswers(t)
    <2>1. Ends(t, "fatal", "version") \/ Advances(t)
      BY <1>5 DEF VerifyAnswers, Fails
    <2> QED BY <2>1, EndsExplained, SuspendedExplains
  <1>6. CASE InstallAnswers(t)
    <2>1. ASSUME NEW result, NEW c, Concludes(t, result, c),
                 RaiseFor(Classify(result)) = "blame" => c \in {"device", "host"}
          PROVE  Explains(t)
      <3>1. CASE Advances(t)
        BY <3>1, SuspendedExplains
      <3>2. CASE Ends(t, RaiseFor(Classify(result)), c)
        BY <2>1, <3>2, EndsExplained DEF Accountable
      <3> QED BY <2>1, <3>1, <3>2 DEF Concludes, Fails
    <2>2. CASE Concludes(t, Output("Success", TRUE, FALSE), "none")
      <3>1. Classify(Output("Success", TRUE, FALSE)) = "Success"
        BY DEF Classify, Output, Silent
      <3> QED BY <2>2, <3>1, SuspendedExplains DEF Concludes
    <2>3. ASSUME NEW c \in Refusals(t), NEW ok \in BOOLEAN, NEW code \in CodesFor(c),
                 Concludes(t, Output(code, ok, FALSE), c)
          PROVE  Explains(t)
      <3>1. c \in {"device", "item", "version", "misfit"}
        BY DEF Refusals
      <3> DEFINE result == Output(code, ok, FALSE)
      <3>2. result.said = code
        BY DEF Output
      <3>3. Concludes(t, result, c)
        BY <2>3
      <3> HIDE DEF result
      <3> QED BY <2>1, <3>1, <3>2, <3>3, ReasonsAreSorted
    <2>4. ASSUME NEW result \in Lost, NEW c \in {"host", "device"}, Concludes(t, result, c)
          PROVE  Explains(t)
      BY <2>1, <2>4
    <2> QED BY <1>6, <2>2, <2>3, <2>4 DEF InstallAnswers
  <1> QED BY <1>1, <1>2, <1>3, <1>4, <1>5, <1>6 DEF ApkStep

LEMMA WebExplains ==
    ASSUME NEW t \in Tasks, WebStep(t) \/ WebTimesOut(t)
    PROVE  Explains(t)
  <1>1. CASE NoCredential(t) \/ BrowserFails(t) \/ WebUnknownOp(t) \/ RefreshFails(t)
    <2>1. \E o, c : Ends(t, o, c) /\ o # "blame"
      BY <1>1 DEF NoCredential, BrowserFails, WebUnknownOp, UnknownOp, RefreshFails
    <2> QED BY <2>1, EndsExplained
  <1>2. CASE WebSessionFails(t) \/ WebTimesOut(t)
    <2>1. \E c \in {"device", "host", "time"} : Ends(t, "blame", c)
      BY <1>2 DEF WebSessionFails, SessionFails, WebTimesOut, TimesOut
    <2> QED BY <2>1, EndsExplained DEF Accountable
  <1>3. CASE WebSessionReady(t) \/ CookieRestores(t) \/ CookieReports(t) \/ Basic(t)
             \/ Bearer(t) \/ PageCall(t) \/ BrowserAnswers(t)
             \/ CaptureCall(t) \/ SaveCookies(t) \/ StorageAnswers(t) \/ GetsLock(t)
             \/ Refreshed(t)
    <2>1. Advances(t) \/ \E a : Goes(t, a)
      BY <1>3 DEF WebSessionReady, CookieRestores, CookieReports, Basic, Bearer, TokenHit,
         TokenMiss, StartsRefresh, PageCall, BrowserAnswers, CaptureCall,
         SaveCookies, StorageAnswers, CaptureHit, CaptureMiss, GetsLock, Refreshed
    <2> QED BY <2>1, SuspendedExplains
  <1> QED BY <1>1, <1>2, <1>3 DEF WebStep

LEMMA AndroidExplains ==
    ASSUME NEW t \in Tasks, AndroidStep(t) \/ AndroidTimesOut(t), KindsFit
    PROVE  Explains(t)
  <1>1. CASE AndroidUnknownOp(t)
    BY <1>1, EndsExplained DEF AndroidUnknownOp, UnknownOp
  <1>2. CASE AndroidSessionFails(t) \/ AndroidTimesOut(t)
    <2>1. \E c \in {"device", "host", "time"} : Ends(t, "blame", c)
      BY <1>2 DEF AndroidSessionFails, SessionFails, AndroidTimesOut, TimesOut
    <2> QED BY <2>1, EndsExplained DEF Accountable
  <1>3. CASE AndroidSessionReady(t) \/ AndroidCall(t) \/ Acted(t)
    <2>1. Advances(t) \/ \E a : Goes(t, a)
      BY <1>3 DEF AndroidSessionReady, AndroidCall, Acted
    <2> QED BY <2>1, SuspendedExplains
  <1>4. CASE Found(t)
    <2>1. Ends(t, "fatal", "item") \/ Goes(t, "act")
      BY <1>4 DEF Found
    <2> QED BY <2>1, EndsExplained, SuspendedExplains
  <1>5. CASE AppiumFails(t)
    <2>1. Kind(t) = "android"
      BY <1>5 DEF AppiumFails, KindsFit, Fits, AndroidAwaits
    <2>2. PICK answer \in Answers : \E c \in Behind(answer) : Ends(t, Raised(answer), c)
      BY <1>5 DEF AppiumFails
    <2>3. \A c \in Behind(answer) : Raised(answer) = "blame" => c \in {"app", "device", "host"}
      BY DEF Raised, Behind
    <2> QED BY <2>1, <2>2, <2>3, EndsExplained DEF Accountable
  <1> QED BY <1>1, <1>2, <1>3, <1>4, <1>5 DEF AndroidStep

\* No device is blamed for a spec, a build or a credential that is no good, for being
\* of the wrong kind, for a host without adb or for a site, whatever adb and Appium say
\* and however answers are cut short.  What else than itself and the time it may be
\* blamed for is what Accountable lists, each at its line: the rule is kept no further.
THEOREM BlameIsAccountedFor == Spec => []BlameIsExplained
  <1>1. Init => BlameIsExplained
    BY DEF Init, ContractInit, BlameIsExplained
  <1>2. Inv /\ BlameIsExplained /\ [Next]_vars => BlameIsExplained'
    <2> SUFFICES ASSUME Inv, BlameIsExplained, [Next]_vars PROVE BlameIsExplained'
      OBVIOUS
    <2>1. ASSUME NEW t \in Tasks, Explains(t) PROVE BlameIsExplained'
      <3>1. CASE UNCHANGED <<plan, outcome, cause>>
        BY <3>1 DEF BlameIsExplained, Kind
      <3>2. ASSUME NEW o, NEW c, Ends(t, o, c), o = "blame" => Accountable(Kind(t), c)
            PROVE  BlameIsExplained'
        <4>1. /\ plan' = plan /\ outcome'[t] = o /\ cause'[t] = c
              /\ \A u \in Tasks \ {t} : outcome'[u] = outcome[u] /\ cause'[u] = cause[u]
          BY <3>2 DEF Ends, Inv, Contract, ContractTypeOK
        <4> QED BY <3>2, <4>1 DEF BlameIsExplained, Kind
      <3> QED BY <2>1, <3>1, <3>2 DEF Explains
    <2>2. ASSUME NEW t \in Tasks, Begins(t) PROVE BlameIsExplained'
      <3>1. /\ plan' = plan /\ outcome'[t] = "none"
            /\ \A u \in Tasks \ {t} : outcome'[u] = outcome[u] /\ cause'[u] = cause[u]
        BY <2>2 DEF Begins, Inv, Contract, ContractTypeOK
      <3> QED BY <3>1 DEF BlameIsExplained, Kind
    <2>3. CASE UNCHANGED <<plan, outcome, cause>>
      BY <2>3 DEF BlameIsExplained, Kind
    <2>4. ASSUME NEW t \in Tasks, Steps(t) PROVE Explains(t) \/ Begins(t)
      <3>1. CASE Returns(t)
        BY <3>1, EndsExplained DEF Returns
      <3> QED BY <2>4, <3>1, ApkExplains, WebExplains, AndroidExplains
              DEF Steps, Inv, Contract
    <2>5. ASSUME NEW t \in Tasks, Clock(t) PROVE Explains(t)
      <3>1. CASE RunsOutOfTime(t)
        BY <3>1, EndsExplained DEF RunsOutOfTime
      <3> QED BY <2>5, <3>1, ApkExplains, WebExplains, AndroidExplains
              DEF Clock, Inv, Contract
    <2>6. CASE StartFails \/ RunRefused \/ RunSubmits \/ DeploySubmits \/ Exits \/ World
               \/ UNCHANGED vars
      <3>1. UNCHANGED <<plan, outcome, cause>>
        BY <2>6 DEF StartFails, RunRefused, RunSubmits, DeploySubmits, Exits, Submits, World,
           PhoneTakesBuild, PageSetsCookie, DatePasses, taskVars, vars
      <3> QED BY <2>3, <3>1
    <2> QED BY <2>1, <2>2, <2>4, <2>5, <2>6 DEF Next
  <1> QED BY <1>1, <1>2, InvHolds, PTL DEF Spec
=============================================================================
