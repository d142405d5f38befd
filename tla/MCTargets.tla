------------------------------ MODULE MCTargets ------------------------------
(* Constants for the runs of the targets: two tasks, two devices, two realms.  *)
EXTENDS Targets

CONSTANTS t1, t2, d1, d2, r1, r2

Both(a, b) == [t \in Tasks |-> IF t = t1 THEN a ELSE b]

Base == [kind |-> "apk", where |-> {d1}, attempts |-> 2, steps |-> <<>>, realm |-> r1,
         expect |-> FALSE, fits |-> {d1, d2}, credential |-> "good"]

Apk(d, n, steps) ==
    [Base EXCEPT !.where = {d}, !.attempts = n, !.steps = steps, !.expect = TRUE]
Web(d, r, steps) == [Base EXCEPT !.kind = "web", !.where = {d}, !.realm = r, !.steps = steps]
Android(steps) == [Base EXCEPT !.kind = "android", !.where = {d1, d2}, !.steps = steps]
Once(spec) == [spec EXCEPT !.attempts = 1]
NoLogin(spec) == [spec EXCEPT !.credential = "missing"]
Refused(spec) == [spec EXCEPT !.credential = "refused"]
MadeFor(d, spec) == [spec EXCEPT !.fits = {d}]

Deploy == <<"install", "verify">>
Login == <<"cookie", "goto", "capture">>

\* deploy on two phones; on one of them with a second attempt, the other of the wrong
\* kind; the other apk steps.
ApkPlans == {
    Both(Apk(d1, 1, Deploy), Apk(d2, 1, Deploy)),
    Both(Apk(d1, 2, Deploy), MadeFor(d1, Apk(d2, 1, <<"install">>))),
    Both(Apk(d1, 2, <<"uninstall", "install">>), Apk(d1, 2, <<"clear", "teleport">>)) }

\* A token for two slots, for one with a credential that is refused; a login for two
\* slots; two realms, a slot each or one for both.
WebPlans == {
    Both(Web(d1, r1, <<"bearer">>), Web(d2, r1, <<"bearer", "capture">>)),
    Both(Web(d1, r1, <<"bearer">>), Refused(Web(d2, r1, <<"bearer">>))),
    Both(Once(Web(d1, r1, Login)), Web(d2, r1, <<"cookie">>)),
    Both(Once(Web(d1, r1, <<"cookie", "goto">>)), Web(d1, r2, <<"cookie", "capture">>)),
    Both(Once(Web(d1, r1, Login)), Once(Web(d2, r2, <<"cookie", "goto">>))),
    Both(NoLogin(Web(d1, r1, <<"basic">>)), Web(d1, r1, <<"basic", "teleport">>)) }

\* Two phones for any script.
AndroidPlans == {
    Both(Android(<<"tap", "dump">>), Android(<<"type_secret", "wait">>)),
    Both(NoLogin(Android(<<"type_secret">>)), Android(<<"read", "teleport">>)) }

AllPlans == ApkPlans \cup WebPlans \cup AndroidPlans
=============================================================================
