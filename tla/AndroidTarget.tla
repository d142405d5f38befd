---------------------------- MODULE AndroidTarget ----------------------------
(***************************************************************************)
(* AndroidTarget of src/targets/android.py: steps over an Appium session,  *)
(* one command to find an element and one to act on it.  The session comes *)
(* from the session manager; Appium answers, or not, as it likes.          *)
(***************************************************************************)
EXTENDS TargetContract

AndroidOps == {"tap", "type", "type_secret", "read", "wait", "dump"}
FindOps == {"tap", "type", "type_secret", "read"}

\* What Appium may answer: done; an element that is not there, by a reply without
\* one or by the protocol's "no such element"; an unknown session; nothing at all;
\* another error, or no JSON.
Answers == {"ok", "no element", "404 no such element", "404 no such session",
            "unreachable", "error"}

\* _http() and find(): any 404 on a session's path is a session that is gone.
Raised(answer) ==
    IF answer \in {"404 no such element", "404 no such session", "unreachable"}
    THEN "blame" ELSE "retry"

\* What may be behind an answer: Appium loses sessions and falls silent with the phone,
\* or because it was itself restarted or is down.
Behind(answer) ==
    CASE answer \in {"no element", "404 no such element"} -> {"app"}
      [] answer \in {"404 no such session", "unreachable"} -> {"device", "host"}
      [] OTHER -> {"app", "device", "host"}

AndroidSessionReady(t) ==
    /\ Kind(t) = "android" /\ at[t] = "session"
    /\ Goes(t, "next")

AndroidSessionFails(t) == Kind(t) = "android" /\ SessionFails(t)

\* A step that needs an element asks for it first, the others act at once.
AndroidCall(t) ==
    /\ Kind(t) = "android"
    /\ \E o \in AndroidOps :
         /\ AtOp(t, o)
         /\ Goes(t, IF o \in FindOps THEN "find" ELSE "act")

\* _reveal(): the secret is resolved at the keystroke, after the element was found.
NeedsMissingSecret(t) ==
    Op(t) = "type_secret" /\ plan[t].credential = "missing"

Found(t) ==
    /\ at[t] = "find"
    /\ IF NeedsMissingSecret(t) THEN Ends(t, "fatal", "item") ELSE Goes(t, "act")

Acted(t) == at[t] = "act" /\ Advances(t)

AppiumFails(t) ==
    /\ at[t] \in {"find", "act"} /\ Op(t) # "wait"
    /\ \E answer \in Answers \ (IF at[t] = "find" THEN {"ok"} ELSE {"ok", "no element"}) :
         \E c \in Behind(answer) : Ends(t, Raised(answer), c)

AndroidUnknownOp(t) == Kind(t) = "android" /\ UnknownOp(t, AndroidOps)

AndroidTimesOut(t) == Kind(t) = "android" /\ TimesOut(t)

AndroidStep(t) ==
    \/ AndroidSessionReady(t) \/ AndroidSessionFails(t) \/ AndroidCall(t)
    \/ Found(t) \/ Acted(t) \/ AppiumFails(t) \/ AndroidUnknownOp(t)
=============================================================================
