----------------------------- MODULE RolloutProofs -----------------------------
(***************************************************************************)
(* A green task, and a green exit code, mean a build on every phone: the   *)
(* proof that Targets never breaks GreenIsDeployed.                        *)
(***************************************************************************)
EXTENDS TargetsProofs

\* What the attempt reports was put on its phone.
Put(t) == digest[t] \in 1..shipped[t]
Later == {"next", "verify", "uninstall", "shell"}
PastInstall(t) == \E i \in DOMAIN plan[t].steps : i <= step[t] /\ plan[t].steps[i] = "install"

\* From one await of an attempt to the next: whatever install step lies behind it, a
\* phone has taken a build; while adb install runs, none has taken an older one.
Deployed(t) ==
    Kind(t) = "apk" =>
      /\ at[t] = "idle" => step[t] = 0
      /\ status[t] = "succeeded" /\ Installs(t) => Put(t)
      /\ at[t] \in Later /\ PastInstall(t) => Put(t)
      /\ at[t] \in Later \ {"next"} => Op(t) # "install" /\ step[t] < Len(plan[t].steps)
      /\ at[t] \in {"slot", "hash"} => shipped[t] = 0
      /\ at[t] = "install" => /\ digest[t] \in 1..written
                              /\ shipped[t] # 0 => digest[t] <= shipped[t]

\* CI's builds are numbered in the order they reach the path.
FileIsLatest == written >= 1 /\ file \in {0, written}

Exited == cli = "0" => \A t \in targets : status[t] = "succeeded"

Green == FileIsLatest /\ (\A t \in Tasks : Deployed(t)) /\ Exited

\* A step of t looks at no other task.
Alone(t) ==
    /\ plan' = plan
    /\ \A u \in Tasks \ {t} :
         /\ at'[u] = at[u] /\ step'[u] = step[u] /\ status'[u] = status[u]
         /\ digest'[u] = digest[u] /\ shipped'[u] = shipped[u]

-----------------------------------------------------------------------------
LEMMA OthersDeployed ==
    ASSUME Green, NEW t \in Tasks, Alone(t), written' >= written, written \in Nat,
           written' \in Nat, Deployed(t)'
    PROVE  \A u \in Tasks : Deployed(u)'
  <1> SUFFICES ASSUME NEW u \in Tasks, u # t PROVE Deployed(u)'
    OBVIOUS
  <1>1. /\ at'[u] = at[u] /\ step'[u] = step[u] /\ status'[u] = status[u] /\ plan' = plan
        /\ digest'[u] = digest[u] /\ shipped'[u] = shipped[u]
    BY DEF Alone
  <1>2. Deployed(u)
    BY DEF Green
  <1> QED BY <1>1, <1>2 DEF Deployed, Kind, Installs, Put, PastInstall, Op

LEMMA MoveAlone ==
    ASSUME Contract, NEW t \in Tasks, Move(t),
           \A u \in Tasks \ {t} : digest'[u] = digest[u] /\ shipped'[u] = shipped[u]
    PROVE  Alone(t)
  BY DEF Contract, ContractTypeOK, Move, Suspends, Advances, Stops, Goes, Ends, Alone

\* The ways an attempt at an apk task can go.
LEMMA FailsDeployed ==
    ASSUME Contract, NEW t \in Tasks, at[t] # "idle", NEW o, o # "ok", NEW c, Ends(t, o, c)
    PROVE  Deployed(t)'
  <1>1. at'[t] = "idle" /\ step'[t] = 0 /\ status'[t] # "succeeded"
    BY DEF Ends, Contract, ContractTypeOK
  <1> QED BY <1>1 DEF Deployed, Later

LEMMA AdvancesDeployed ==
    ASSUME Contract, NEW t \in Tasks, Deployed(t), Advances(t), status[t] # "succeeded",
           UNCHANGED <<digest, shipped>>,
           (at[t] \in Later \ {"next"}) \/ (at[t] = "install" /\ Put(t))
    PROVE  Deployed(t)'
  <1> SUFFICES ASSUME Kind(t) = "apk" PROVE Deployed(t)'
    BY DEF Advances, Deployed, Kind
  <1>1. at'[t] = "next" /\ step'[t] = step[t] + 1 /\ status'[t] = status[t] /\ plan' = plan
    BY DEF Advances, Contract, ContractTypeOK
  <1>2. step[t] \in Nat
    BY DEF Contract, ContractTypeOK
  <1>3. Put(t)' <=> Put(t)
    BY DEF Put
  <1>4. CASE at[t] = "install" /\ Put(t)
    BY <1>1, <1>3, <1>4 DEF Deployed, Later
  <1>5. CASE at[t] \in Later \ {"next"}
    <2>1. PastInstall(t)' => PastInstall(t)
      BY <1>1, <1>2, <1>5 DEF PastInstall, Deployed, Op
    <2> QED BY <1>1, <1>3, <1>5, <2>1 DEF Deployed, Later
  <1> QED BY <1>4, <1>5

\* One step per action of ApkTarget.
LEMMA ApkDeployed ==
    ASSUME Inv, Green, NEW t \in Tasks, ApkStep(t)
    PROVE  /\ Deployed(t)' /\ UNCHANGED <<file, written>>
           /\ \A u \in Tasks \ {t} : digest'[u] = digest[u] /\ shipped'[u] = shipped[u]
  <1> USE DEF Inv
  <1>0. Contract /\ Deployed(t) /\ Kind(t) = "apk" /\ ApkTypeOK
    BY DEF Green, ApkStep, Apk
  <1>s. at[t] # "idle" => status[t] # "succeeded"
    BY <1>0 DEF Contract, RunningHere
  <1>f. ASSUME NEW o, o # "ok", NEW c, at[t] # "idle", Fails(t, o, c)
        PROVE  /\ Deployed(t)'
               /\ \A u \in Tasks \ {t} : digest'[u] = digest[u] /\ shipped'[u] = shipped[u]
    BY <1>0, <1>f, FailsDeployed DEF Fails, Forgets, ApkTypeOK
  <1> USE DEF KeepWorld, worldVars
  <1>1. CASE InstallNoFile(t)
    BY <1>1, <1>f DEF InstallNoFile, AtOp
  <1>2. CASE InstallStarts(t)
    <2>1. at'[t] \in {"slot", "hash"} /\ status'[t] = status[t]
      BY <1>2, <1>0 DEF InstallStarts, Goes, Contract, ContractTypeOK
    <2>2. at[t] # "idle"
      BY <1>2 DEF InstallStarts, AtOp
    <2> QED BY <1>0, <1>2, <1>s, <2>1, <2>2 DEF InstallStarts, Forgets, ApkTypeOK, Deployed, Later
  <1>3. CASE GetsSlot(t)
    <2>1. at'[t] = "hash" /\ status'[t] = status[t] /\ at[t] = "slot"
      BY <1>3, <1>0 DEF GetsSlot, Goes, Contract, ContractTypeOK
    <2> QED BY <1>0, <1>3, <1>s, <2>1 DEF GetsSlot, Deployed, Later
  <1>4. CASE HashFails(t)
    BY <1>4, <1>f DEF HashFails
  <1>5. CASE Hashed(t)
    <2>1. at'[t] = "install" /\ status'[t] = status[t] /\ at[t] = "hash"
      BY <1>5, <1>0 DEF Hashed, Goes, Contract, ContractTypeOK
    <2>2. digest'[t] \in 1..written' /\ shipped'[t] = 0
      BY <1>5, <1>0, <2>1 DEF Hashed, ApkTypeOK, Green, FileIsLatest, Deployed
    <2> QED BY <1>0, <1>5, <1>s, <2>1, <2>2 DEF Hashed, ApkTypeOK, Deployed, Later
  <1>6. CASE InstallAnswers(t)
    <2> DEFINE Done == /\ Deployed(t)'
                       /\ \A u \in Tasks \ {t} : digest'[u] = digest[u] /\ shipped'[u] = shipped[u]
    <2>1. at[t] = "install" /\ UNCHANGED <<file, written>>
      BY <1>6 DEF InstallAnswers
    <2> SUFFICES Done
      BY <2>1
    <2>2. ASSUME NEW result, NEW c, Concludes(t, result, c), Classify(result) # "Success",
                 RaiseFor(Classify(result)) # "ok"
          PROVE  Done
      <3>1. Fails(t, RaiseFor(Classify(result)), c)
        BY <2>2 DEF Concludes
      <3> QED BY <1>f, <2>1, <2>2, <3>1
    <2>3. CASE shipped[t] # 0 /\ Concludes(t, Output("Success", TRUE, FALSE), "none")
      <3>1. Classify(Output("Success", TRUE, FALSE)) = "Success"
        BY DEF Classify, Output, Silent
      <3>2. Advances(t) /\ UNCHANGED <<digest, shipped>>
        BY <2>3, <3>1 DEF Concludes
      <3>3. Put(t)
        BY <1>0, <2>1, <2>3 DEF ApkTypeOK, Deployed, Put
      <3> QED BY <1>0, <1>s, <2>1, <3>2, <3>3, AdvancesDeployed
    <2>4. ASSUME NEW c \in Refusals(t), NEW ok \in BOOLEAN, NEW code \in CodesFor(c),
                 Concludes(t, Output(code, ok, FALSE), c)
          PROVE  Done
      <3>1. c \in {"device", "item", "version", "misfit"}
        BY DEF Refusals
      <3> DEFINE result == Output(code, ok, FALSE)
      <3>2. result.said = code
        BY DEF Output
      <3>3. code # "Success"
        BY <3>1 DEF CodesFor, MismatchCodes, DeviceCodes
      <3>4. Concludes(t, result, c)
        BY <2>4
      <3> HIDE DEF result
      <3>5. Classify(result) = code /\ RaiseFor(code) # "ok"
        BY <3>1, <3>2, ReasonsAreSorted DEF RaiseFor
      <3> QED BY <2>2, <3>3, <3>4, <3>5
    <2>5. ASSUME NEW result \in Lost, NEW c \in {"host", "device"}, Concludes(t, result, c)
          PROVE  Done
      <3>1. Classify(result) # "Success" /\ RaiseFor(Classify(result)) # "ok"
        BY SilenceIsSorted
      <3> QED BY <2>2, <2>5, <3>1
    <2> HIDE DEF Done
    <2>6. ASSUME NEW result \in Lost, Concludes(t, result, IF file = 0 THEN "host" ELSE "device")
          PROVE  Done
      <3>1. CASE file = 0
        BY <2>5, <2>6, <3>1
      <3>2. CASE file # 0
        BY <2>5, <2>6, <3>2
      <3> QED BY <3>1, <3>2
    <2>7. CASE \E c \in Refusals(t), ok \in BOOLEAN : \E code \in CodesFor(c) :
                 Concludes(t, Output(code, ok, FALSE), c)
      BY <2>4, <2>7
    <2>8. CASE \E result \in Lost : Concludes(t, result, IF file = 0 THEN "host" ELSE "device")
      BY <2>6, <2>8
    <2> QED BY <1>6, <2>3, <2>7, <2>8 DEF InstallAnswers
  <1>7. CASE InstallSizeFails(t)
    BY <1>7, <1>f DEF InstallSizeFails
  <1>8. CASE StepCalls(t)
    <2>1. PICK op \in ApkOps \ {"install"}, a \in Later \ {"next"} : Calls(t, op, a)
      BY <1>8 DEF StepCalls, ApkOps, Later
    <2>2. at'[t] = a /\ UNCHANGED <<status, step, plan, digest, shipped, written, file>>
      BY <1>0, <2>1 DEF Calls, Goes, Contract, ContractTypeOK, apkVars
    <2>3. at[t] = "next" /\ Op(t) # "install" /\ step[t] < Len(plan[t].steps)
      BY <2>1 DEF Calls, AtOp
    <2> QED BY <1>0, <1>s, <2>1, <2>2, <2>3 DEF Deployed, Later, PastInstall, Put, Op, Installs
  <1>9. CASE AdbMissing(t)
    BY <1>9, <1>f DEF AdbMissing
  <1>10. CASE VerifyAnswers(t)
    <2>1. CASE Fails(t, "fatal", "version")
      BY <1>10, <1>f, <2>1 DEF VerifyAnswers
    <2>2. CASE Advances(t) /\ UNCHANGED <<digest, shipped>>
      BY <1>0, <1>10, <1>s, <2>2, AdvancesDeployed DEF VerifyAnswers, Later
    <2> QED BY <1>10, <2>1, <2>2 DEF VerifyAnswers
  <1>11. CASE VerifyFails(t)
    <2>1. at[t] = "verify" /\ \E c : Fails(t, "blame", c)
      BY <1>11 DEF VerifyFails
    <2> QED BY <1>11, <1>f, <2>1 DEF VerifyFails
  <1>12. CASE UninstallAnswers(t)
    BY <1>0, <1>12, <1>s, AdvancesDeployed DEF UninstallAnswers, Later
  <1>13. CASE UninstallFails(t)
    BY <1>13, <1>f DEF UninstallFails
  <1>14. CASE ShellAnswers(t)
    BY <1>0, <1>14, <1>s, AdvancesDeployed DEF ShellAnswers, Later, apkVars
  <1>15. CASE ShellTimesOut(t)
    BY <1>15, <1>f DEF ShellTimesOut
  <1>16. CASE ApkUnknownOp(t)
    BY <1>16, <1>f DEF ApkUnknownOp, UnknownOp, Fails
  <1> QED
    BY <1>1, <1>2, <1>3, <1>4, <1>5, <1>6, <1>7, <1>8, <1>9, <1>10, <1>11, <1>12, <1>13,
       <1>14, <1>15, <1>16 DEF ApkStep

\* Tasks of the other kinds deploy nothing, and leave the builds alone.
LEMMA OtherDeployed ==
    ASSUME Inv, Green, NEW t \in Tasks, Kind(t) # "apk", Move(t), UNCHANGED apkVars
    PROVE  FileIsLatest' /\ \A u \in Tasks : Deployed(u)'
  <1>1. Alone(t)
    BY MoveAlone DEF Inv, apkVars
  <1>2. Deployed(t)'
    BY <1>1 DEF Alone, Deployed, Kind
  <1>3. written \in Nat /\ written' = written /\ file' = file
    BY DEF Inv, Apk, ApkTypeOK, apkVars, worldVars
  <1> QED BY <1>1, <1>2, <1>3, OthersDeployed DEF Green, FileIsLatest

-----------------------------------------------------------------------------
LEMMA GreenInit == Init => Green
  BY DEF Init, ApkInit, ContractInit, Green, FileIsLatest, Deployed, Exited, Later

LEMMA GreenNext == Inv /\ Inv' /\ Green /\ [Next]_vars => Green'
  <1> SUFFICES ASSUME Inv, Inv', Green, [Next]_vars PROVE Green'
    OBVIOUS
  <1>w. written \in Nat /\ written' \in Nat
    BY DEF Inv, Apk, ApkTypeOK
  <1>1. CASE StartFails \/ RunRefused \/ Exits
    <2>1. UNCHANGED <<taskVars, apkVars>> /\ targets' = targets
      BY <1>1 DEF StartFails, RunRefused, Exits, KeepTargets
    <2>2. FileIsLatest' /\ \A t \in Tasks : Deployed(t)'
      BY <2>1 DEF Green, FileIsLatest, Deployed, Kind, Installs, Put, PastInstall, Op, taskVars,
         apkVars, worldVars
    <2>3. Exited'
      BY <1>1, <2>1 DEF StartFails, RunRefused, Exits, Code, Exited, taskVars
    <2> QED BY <2>2, <2>3 DEF Green
  <1>2. CASE RunSubmits \/ DeploySubmits
    <2>1. cli' # "0" /\ UNCHANGED <<apkVars, plan, at, step>>
      BY <1>2 DEF RunSubmits, DeploySubmits, KeepTargets, Submits, taskVars
    <2>2. \A t \in Tasks : status'[t] = "succeeded" => status[t] = "succeeded"
      BY <1>2 DEF RunSubmits, DeploySubmits, Submits, taskVars
    <2>3. FileIsLatest' /\ \A t \in Tasks : Deployed(t)'
      BY <2>1, <2>2 DEF Green, FileIsLatest, Deployed, Kind, Installs, Put, PastInstall, Op,
         apkVars, worldVars
    <2> QED BY <2>1, <2>3 DEF Green, Exited
  <1>3. ASSUME NEW t \in Tasks, Steps(t) PROVE Green'
    <2>0. Exited'
      BY <1>3 DEF Steps, cliVars, Exited
    <2>1. CASE Begins(t) /\ KeepTargets
      <3>1. Alone(t)
        BY <2>1 DEF Begins, KeepTargets, apkVars, Inv, Contract, ContractTypeOK, Alone
      <3>2. at[t] = "idle" /\ at'[t] \in {"next", "session"} /\ status'[t] = "running"
        BY <2>1 DEF Begins, Inv, Contract, ContractTypeOK, RunningHere
      <3>3. Kind(t) = "apk" => step[t] = 0 /\ step' = step
        BY <2>1, <3>2 DEF Green, Deployed, Begins
      <3>4. Deployed(t)'
        <4> SUFFICES ASSUME Kind(t) = "apk" PROVE Deployed(t)'
          BY <3>1 DEF Alone, Deployed, Kind
        <4>1. step'[t] = 0 /\ plan' = plan /\ plan[t].steps \in Seq(STRING)
          BY <3>1, <3>3, PlanType DEF Alone, Inv, Contract, Specs
        <4>2. ~PastInstall(t)'
          BY <4>1 DEF PastInstall
        <4> QED BY <3>2, <4>2 DEF Deployed, Later
      <3> QED BY <1>w, <2>0, <2>1, <3>1, <3>4, OthersDeployed
              DEF KeepTargets, apkVars, worldVars, Green, FileIsLatest
    <2>2. CASE Returns(t) /\ KeepTargets
      <3>1. Move(t) /\ at[t] = "next"
        BY <2>2, EndsMoves DEF Returns, Outcomes, Causes, Sorted
      <3>2. Alone(t)
        BY <2>2, <3>1, MoveAlone DEF KeepTargets, apkVars, Inv
      <3>3. at'[t] = "idle" /\ step'[t] = 0
        BY <2>2 DEF Returns, Ends, Inv, Contract, ContractTypeOK
      <3>4. ASSUME Kind(t) = "apk" PROVE Deployed(t)'
        <4>1. Installs(t) => PastInstall(t)
          BY <2>2, PlanType DEF Returns, Installs, PastInstall, Inv, Contract, ContractTypeOK, Specs
        <4>2. Installs(t) => Put(t)
          BY <3>1, <3>4, <4>1 DEF Green, Deployed, Later
        <4>3. UNCHANGED <<digest, shipped>> /\ plan' = plan
          BY <2>2, <3>2 DEF KeepTargets, apkVars, Alone
        <4>4. (Installs(t)' <=> Installs(t)) /\ (Put(t)' <=> Put(t))
          BY <4>3 DEF Installs, Put
        <4> QED BY <3>3, <4>2, <4>4 DEF Deployed, Later
      <3>5. ASSUME Kind(t) # "apk" PROVE Deployed(t)'
        <4>1. Kind(t)' = Kind(t)
          BY <3>2 DEF Alone, Kind
        <4> QED BY <3>5, <4>1 DEF Deployed
      <3> QED BY <1>w, <2>0, <2>2, <3>2, <3>4, <3>5, OthersDeployed
              DEF KeepTargets, apkVars, worldVars, Green, FileIsLatest
    <2>3. CASE ApkStep(t)
      <3>1. Move(t)
        BY <2>3, ApkSteps DEF ApkEffect, Inv
      <3> QED BY <1>w, <2>0, <2>3, <3>1, ApkDeployed, MoveAlone, OthersDeployed
              DEF Inv, Green, FileIsLatest
    <2>4. CASE WebStep(t) /\ UNCHANGED apkVars
      <3>1. Move(t) /\ Kind(t) = "web"
        BY <2>4, WebSteps DEF WebEffect, Inv
      <3> QED BY <2>0, <2>4, <3>1, OtherDeployed DEF Green
    <2>5. CASE AndroidStep(t) /\ KeepTargets
      BY <2>0, <2>5, AndroidSteps, OtherDeployed DEF KeepTargets, Green, Inv
    <2> QED BY <1>3, <2>1, <2>2, <2>3, <2>4, <2>5 DEF Steps
  <1>4. ASSUME NEW t \in Tasks, Clock(t) PROVE Green'
    <2>0. Exited'
      BY <1>4 DEF Clock, cliVars, Exited
    <2>1. PICK o \in {"retry", "blame"} : at[t] # "idle" /\ Ends(t, o, "time")
      BY <1>4 DEF Clock, RunsOutOfTime, ApkTimesOut, WebTimesOut, AndroidTimesOut, TimesOut
    <2>2. Move(t)
      BY <2>1, EndsMoves DEF Outcomes, Causes, Sorted
    <2>3. UNCHANGED <<file, written>>
      BY <1>4 DEF Clock, ApkTimesOut, KeepWorld, KeepTargets, apkVars, worldVars
    <2>4. \A u \in Tasks \ {t} : digest'[u] = digest[u] /\ shipped'[u] = shipped[u]
      BY <1>4 DEF Clock, ApkTimesOut, Forgets, KeepTargets, apkVars, Inv, Apk, ApkTypeOK
    <2>5. Alone(t) /\ Deployed(t)'
      BY <2>1, <2>2, <2>4, MoveAlone, FailsDeployed DEF Inv
    <2> QED BY <1>w, <2>0, <2>3, <2>5, OthersDeployed DEF Green, FileIsLatest
  <1>5. CASE World
    <2>1. UNCHANGED <<taskVars, cliVars, digest>>
      BY <1>5 DEF World, CIWrites, CIRemoves, VendorUpdates, PhoneTakesBuild, PageSetsCookie,
         DatePasses, apkVars
    <2>2. /\ FileIsLatest' /\ written' >= written
          /\ \A t \in Tasks : \/ shipped'[t] = shipped[t]
                              \/ at[t] = "install" /\ shipped'[t] = written
      <3>1. CASE UNCHANGED apkVars
        BY <1>w, <3>1 DEF apkVars, worldVars, Green, FileIsLatest
      <3>2. CASE CIWrites
        BY <1>w, <3>2 DEF CIWrites, Green, FileIsLatest
      <3>3. CASE CIRemoves
        BY <1>w, <3>3 DEF CIRemoves, Green, FileIsLatest
      <3>4. ASSUME NEW d \in Devices, VendorUpdates(d) PROVE UNCHANGED <<file, written, shipped>>
        BY <3>4 DEF VendorUpdates
      <3>5. ASSUME NEW t \in Tasks, PhoneTakesBuild(t)
            PROVE  /\ UNCHANGED <<file, written>>
                   /\ at[t] = "install" /\ shipped' = [shipped EXCEPT ![t] = written]
        BY <3>5 DEF PhoneTakesBuild, Green, FileIsLatest
      <3>6. shipped \in [Tasks -> 0..MaxBuilds]
        BY DEF Inv, Apk, ApkTypeOK
      <3>7. CASE UNCHANGED <<file, written, shipped>>
        BY <1>w, <3>7 DEF Green, FileIsLatest
      <3>8. CASE \E t \in Tasks : PhoneTakesBuild(t)
        BY <1>w, <3>5, <3>6, <3>8 DEF Green, FileIsLatest
      <3> QED BY <1>5, <3>1, <3>2, <3>3, <3>4, <3>7, <3>8 DEF World
    <2>3. ASSUME NEW t \in Tasks PROVE Deployed(t)'
      <3>1. Deployed(t) /\ written \in Nat /\ written' \in Nat
        BY <1>w DEF Green
      <3>2. CASE shipped'[t] = shipped[t]
        BY <2>1, <2>2, <3>1, <3>2 DEF Deployed, Kind, Installs, Put, PastInstall, Op, taskVars
      <3>3. CASE at[t] = "install" /\ shipped'[t] = written
        <4>1. status[t] # "succeeded"
          BY <3>3 DEF Inv, Contract, RunningHere
        <4> QED BY <2>1, <2>2, <3>1, <3>3, <4>1 DEF Deployed, Kind, Later, taskVars
      <3> QED BY <2>2, <3>2, <3>3
    <2> QED BY <2>1, <2>2, <2>3 DEF Green, Exited, taskVars, cliVars
  <1>6. CASE UNCHANGED vars
    BY <1>6 DEF vars, taskVars, apkVars, worldVars, cliVars, Green, FileIsLatest, Deployed,
       Kind, Installs, Put, PastInstall, Op, Exited
  <1> QED BY <1>1, <1>2, <1>3, <1>4, <1>5, <1>6 DEF Next

\* A rollout that says so has deployed: a task that succeeded after an install step put
\* a build on its phone, none older than the one it reports, and exit code 0 means every
\* task of the command did.
THEOREM GreenMeansDeployed == Spec => []GreenIsDeployed
  <1>1. Inv /\ Green => GreenIsDeployed
    BY DEF Green, Deployed, Put, Exited, GreenIsDeployed
  <1>2. Init /\ []Inv /\ [][Next]_vars => []Green
    BY GreenInit, GreenNext, PTL
  <1> QED BY <1>1, <1>2, InvHolds, PTL DEF Spec
=============================================================================
