------------------------------ MODULE ApkTarget ------------------------------
(***************************************************************************)
(* ApkTarget of src/targets/apk.py over Adb.run() of src/core/device.py:   *)
(* hash the build, install it, read its version back, remove it.  The      *)
(* world around it: the file on the host, which CI may overwrite or remove *)
(* at any moment, and the phones, which take a build, refuse it or fall    *)
(* silent, and whose vendor may update the app on its own.                 *)
(*                                                                         *)
(* A build is its number; 0 is no file, or no app.                         *)
(***************************************************************************)
EXTENDS TargetContract

CONSTANTS HashSlots,  \* _HASH_SLOTS
          MaxBuilds,  \* bound: builds CI writes to the path
          Broken      \* the builds among them that no phone takes

ASSUME ApkAssumption == HashSlots \in Nat \ {0} /\ MaxBuilds \in Nat \ {0}

VARIABLES
  file,       \* the build at the path
  written,    \* builds CI wrote so far
  installed,  \* the app on each phone
  slots,      \* free slots of the hashing semaphore
  digest,     \* the build whose bytes the attempt hashed
  shipped     \* history: the build a phone took from the attempt

worldVars == <<file, written, installed>>
apkVars == <<worldVars, slots, digest, shipped>>

\* A version CI did not build: newer than any, from the vendor's updater.
Newer == MaxBuilds + 1
Builds == 1..MaxBuilds

ApkTypeOK ==
    /\ file \in 0..MaxBuilds /\ written \in 0..MaxBuilds
    /\ installed \in [Devices -> 0..Newer]
    /\ slots \in 0..HashSlots
    /\ digest \in [Tasks -> 0..MaxBuilds]
    /\ shipped \in [Tasks -> 0..MaxBuilds]

ApkInit ==
    /\ file = 1 /\ written = 1
    /\ installed = [d \in Devices |-> 0]
    /\ slots = HashSlots
    /\ digest = [t \in Tasks |-> 0]
    /\ shipped = [t \in Tasks |-> 0]

ApkOps == {"install", "verify", "uninstall", "launch", "stop", "clear"}

Silent == "silent"

-----------------------------------------------------------------------------
\* What adb reports, and what the code makes of it.

\* The codes the code knows, a representative for each set and cause.
FatalCodes == {"UPDATE_INCOMPATIBLE", "VERSION_DOWNGRADE"}
MismatchCodes == {"NO_MATCHING_ABIS"}
DeviceCodes == {"INSUFFICIENT_STORAGE"}

\* adb's output: what was said, whether the exit code was 0, whether adb was killed.
Output(said, ok, timedOut) == [said |-> said, ok |-> ok, timedOut |-> timedOut]

\* The device vanished, adb was killed (Adb.run() then drops what was said), or the
\* output was cut short.
Lost == {Output(Silent, FALSE, TRUE), Output(Silent, FALSE, FALSE), Output(Silent, TRUE, FALSE)}

\* Mutant: the exit code is the verdict.
ClassifyByExitCode(result) ==
    IF result.ok THEN "Success"
    ELSE IF result.said # Silent THEN result.said
    ELSE IF result.timedOut THEN "INSTALL_TIMED_OUT" ELSE "INSTALL_FAILED_UNKNOWN"

\* classify_install_output(): the code of the failure, or Success.  The exit code
\* only tells two silences apart.
Classify(result) ==
    IF result.said # Silent THEN result.said
    ELSE IF result.timedOut THEN "INSTALL_TIMED_OUT"
    ELSE IF ~result.ok THEN "INSTALL_FAILED_UNKNOWN" ELSE "INSTALL_NO_VERDICT"

\* Mutant: whatever refuses a build is unwell.
RaiseForAll(code) ==
    CASE code \in FatalCodes -> "fatal"
      [] OTHER -> "blame"

\* raise_for_install_code(): the outcome of the attempt.
RaiseFor(code) ==
    CASE code \in FatalCodes -> "fatal"
      [] code \in MismatchCodes -> "retry"
      [] code \in DeviceCodes \cup {"INSTALL_TIMED_OUT", "INSTALL_FAILED_UNKNOWN"} -> "blame"
      [] OTHER -> "retry"

\* Why the phone may refuse what is at the path, and what the package manager calls
\* it.  Of the codes for a broken build some are on no list of the code.
Refusals(t) ==
    {"device"} \cup {c \in {"item", "version", "misfit"} :
                     \/ c = "item" /\ file \in Broken
                     \/ c = "version" /\ installed[dev[t]] = Newer
                     \/ c = "misfit" /\ dev[t] \notin plan[t].fits}

CodesFor(c) ==
    CASE c = "item"    -> {"UPDATE_INCOMPATIBLE", "PARSE_FAILED_BAD_MANIFEST"}
      [] c = "version" -> {"VERSION_DOWNGRADE"}
      [] c = "misfit"  -> MismatchCodes
      [] OTHER         -> DeviceCodes

-----------------------------------------------------------------------------
\* _install(), from await to await.

KeepWorld == UNCHANGED worldVars

Forgets(t) ==
    /\ digest' = [digest EXCEPT ![t] = 0]
    /\ shipped' = [shipped EXCEPT ![t] = 0]

\* The attempt fails, and what it would have reported goes with it.
Fails(t, o, c) == Ends(t, o, c) /\ Forgets(t)

\* No file at the path.
InstallNoFile(t) ==
    /\ AtOp(t, "install") /\ file = 0
    /\ Fails(t, "fatal", "item")
    /\ UNCHANGED slots /\ KeepWorld

\* sha256_of(): a slot of the semaphore, or wait for one.
InstallStarts(t) ==
    /\ AtOp(t, "install") /\ file # 0
    /\ Forgets(t)
    /\ IF slots > 0 THEN slots' = slots - 1 /\ Goes(t, "hash")
                    ELSE Goes(t, "slot") /\ UNCHANGED slots
    /\ KeepWorld

GetsSlot(t) ==
    /\ at[t] = "slot" /\ slots > 0
    /\ slots' = slots - 1
    /\ Goes(t, "hash")
    /\ UNCHANGED <<digest, shipped>> /\ KeepWorld

\* Mutant: a slot is given back on the normal way out only.
HashFailsHoldingSlot(t) ==
    /\ at[t] = "hash" /\ file = 0
    /\ Fails(t, "blame", "host")
    /\ UNCHANGED slots /\ KeepWorld

\* The file went away after isfile(): open() raises what no target classifies.
HashFails(t) ==
    /\ at[t] = "hash" /\ file = 0
    /\ slots' = slots + 1
    /\ Fails(t, "blame", "host")
    /\ KeepWorld

\* The digest is known and the slot is free again; adb install is called.
Hashed(t) ==
    /\ at[t] = "hash" /\ file # 0
    /\ slots' = slots + 1
    /\ digest' = [digest EXCEPT ![t] = file]
    /\ Goes(t, "install")
    /\ UNCHANGED shipped /\ KeepWorld

\* The phone takes the bytes that are at the path now.  Nobody heard of it yet.
PhoneTakesBuild(t) ==
    /\ at[t] = "install" /\ shipped[t] = 0
    /\ file \notin Broken \cup {0} /\ dev[t] \in plan[t].fits /\ installed[dev[t]] # Newer
    /\ installed' = [installed EXCEPT ![dev[t]] = file]
    /\ shipped' = [shipped EXCEPT ![t] = file]
    /\ UNCHANGED <<file, written, slots, digest>> /\ UNCHANGED taskVars

\* What the code makes of adb's output, when c was wrong.
Concludes(t, result, c) ==
    LET code == Classify(result)
    IN  IF code = "Success" THEN Advances(t) /\ UNCHANGED <<digest, shipped>>
                            ELSE Fails(t, RaiseFor(code), c)

\* adb install returned: the phone took the build, refused it (and adb exits 0 or
\* not), or nothing was heard of it.
InstallAnswers(t) ==
    /\ at[t] = "install"
    /\ \/ shipped[t] # 0 /\ Concludes(t, Output("Success", TRUE, FALSE), "none")
       \/ /\ shipped[t] = 0 /\ file # 0
          /\ \E c \in Refusals(t), ok \in BOOLEAN : \E code \in CodesFor(c) :
               Concludes(t, Output(code, ok, FALSE), c)
       \/ \E result \in Lost :
            Concludes(t, result, IF file = 0 THEN "host" ELSE "device")
    /\ UNCHANGED slots /\ KeepWorld

\* os.path.getsize() after the install: the file is gone meanwhile.
InstallSizeFails(t) ==
    /\ at[t] = "install" /\ shipped[t] # 0 /\ file = 0
    /\ Fails(t, "blame", "host")
    /\ UNCHANGED slots /\ KeepWorld

-----------------------------------------------------------------------------
\* The other steps.

Calls(t, op, a) == AtOp(t, op) /\ Goes(t, a) /\ UNCHANGED apkVars

StepCalls(t) ==
    \/ Calls(t, "verify", "verify") \/ Calls(t, "uninstall", "uninstall")
    \/ \E op \in {"launch", "stop", "clear"} : Calls(t, op, "shell")

\* The host has no adb (any more): seen before anything is sent.
AdbMissing(t) ==
    /\ at[t] \in {"install", "verify", "uninstall", "shell"}
    /\ at[t] = "install" => shipped[t] = 0
    /\ Fails(t, "retry", "adb")
    /\ UNCHANGED slots /\ KeepWorld

\* dumpsys names the version on the phone; CI's builds carry the expected one.
VerifyAnswers(t) ==
    /\ at[t] = "verify" /\ installed[dev[t]] # 0
    /\ IF plan[t].expect /\ installed[dev[t]] \notin Builds
       THEN Fails(t, "fatal", "version")
       ELSE Advances(t) /\ UNCHANGED <<digest, shipped>>
    /\ UNCHANGED slots /\ KeepWorld

\* dumpsys timed out or was cut off, or there is no such package on the phone: the
\* phone's fault, says the code.
VerifyFails(t) ==
    /\ at[t] = "verify"
    /\ \/ Fails(t, "blame", "device")
       \/ installed[dev[t]] = 0 /\ Fails(t, "blame", "version")
    /\ UNCHANGED slots /\ KeepWorld

\* The app is removed, or was not there: either way the step is done.
UninstallAnswers(t) ==
    /\ at[t] = "uninstall"
    /\ installed' = [installed EXCEPT ![dev[t]] = 0]
    /\ Advances(t)
    /\ UNCHANGED <<file, written, slots, digest, shipped>>

\* adb failed or said nothing; the app may be gone all the same.
UninstallFails(t) ==
    /\ at[t] = "uninstall"
    /\ \E left \in {0, installed[dev[t]]} :
         installed' = [installed EXCEPT ![dev[t]] = left]
    /\ Fails(t, "blame", "device")
    /\ UNCHANGED <<file, written, slots>>

\* launch, stop and clear look at the timeout and at nothing else.
ShellAnswers(t) == at[t] = "shell" /\ Advances(t) /\ UNCHANGED apkVars
ShellTimesOut(t) ==
    /\ at[t] = "shell"
    /\ Fails(t, "blame", "device")
    /\ UNCHANGED slots /\ KeepWorld

\* Mutant: whoever is cancelled gives a slot back, holder or not.
ApkTimesOutFreesSlot(t) ==
    /\ Kind(t) = "apk" /\ TimesOut(t) /\ Forgets(t)
    /\ slots' = IF at[t] \in {"slot", "hash"} THEN slots + 1 ELSE slots
    /\ KeepWorld

\* The deadline: leaving `async with` gives the hashing slot back.
ApkTimesOut(t) ==
    /\ Kind(t) = "apk" /\ TimesOut(t) /\ Forgets(t)
    /\ slots' = IF at[t] = "hash" THEN slots + 1 ELSE slots
    /\ KeepWorld

ApkUnknownOp(t) ==
    /\ UnknownOp(t, ApkOps) /\ Forgets(t)
    /\ UNCHANGED slots /\ KeepWorld

ApkStep(t) ==
    /\ Kind(t) = "apk"
    /\ \/ InstallNoFile(t) \/ InstallStarts(t) \/ GetsSlot(t) \/ HashFails(t) \/ Hashed(t)
       \/ InstallAnswers(t) \/ InstallSizeFails(t) \/ StepCalls(t) \/ AdbMissing(t)
       \/ VerifyAnswers(t) \/ VerifyFails(t) \/ UninstallAnswers(t) \/ UninstallFails(t)
       \/ ShellAnswers(t) \/ ShellTimesOut(t) \/ ApkUnknownOp(t)

-----------------------------------------------------------------------------
\* The world.

CIWrites ==
    /\ written < MaxBuilds
    /\ written' = written + 1 /\ file' = written + 1
    /\ UNCHANGED <<installed, slots, digest, shipped>>

CIRemoves ==
    /\ file # 0 /\ file' = 0
    /\ UNCHANGED <<written, installed, slots, digest, shipped>>

VendorUpdates(d) ==
    /\ installed[d] \in Builds
    /\ installed' = [installed EXCEPT ![d] = Newer]
    /\ UNCHANGED <<file, written, slots, digest, shipped>>
=============================================================================
