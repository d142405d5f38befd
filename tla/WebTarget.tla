------------------------------ MODULE WebTarget ------------------------------
(***************************************************************************)
(* WebTarget of src/targets/web.py with the cookie jar of src/core/auth.py *)
(* and the browsers of the slots, which outlive the tasks.                 *)
(*                                                                         *)
(* A cookie is its place in the order in which sites set them: a login or  *)
(* any other, of a site of one realm.  One without a date of expiry is one *)
(* that DatePasses never comes to.  Whether a site still honours a login   *)
(* is nothing the code can see.                                            *)
(***************************************************************************)
EXTENDS TokenCache

CONSTANT MaxCookies    \* bound: cookies that sites set

ASSUME WebAssumption == MaxCookies \in Nat

VARIABLES
  cookies,  \* the cookies that were ever set
  expired,  \* those whose date has passed
  jar,      \* per realm it is kept under: the stored cookies
  browser   \* per slot: the cookies in its browser

webVars == <<cookies, expired, jar, browser>>

\* Two cookies of one realm and kind have one name: a browser holds one of them.
Cookies == [of: Realms, login: BOOLEAN]

WebTypeOK ==
    /\ cookies \in Seq(Cookies) /\ Len(cookies) <= MaxCookies
    /\ expired \subseteq DOMAIN cookies
    /\ jar \in [Realms -> SUBSET DOMAIN cookies]
    /\ browser \in [Devices -> SUBSET DOMAIN cookies]

WebInit ==
    /\ cookies = <<>>
    /\ expired = {}
    /\ jar = [r \in Realms |-> {}]
    /\ browser = [d \in Devices |-> {}]

PageOps == {"goto", "click", "fill", "read", "wait"}
AuthOps == {"cookie", "basic", "bearer"}
WebOps == PageOps \cup AuthOps \cup {"capture"}

AtWeb(t, o) == Kind(t) = "web" /\ AtOp(t, o)

\* CookieJar.live(): some stored cookie has not expired, whatever it is for.
Live(r) == jar[r] \ expired # {}

\* What a browser holds after it was given more cookies: those without their name stay.
Given(held, more) == {b \in held : \A c \in more : cookies[b] # cookies[c]} \cup more

-----------------------------------------------------------------------------
\* ensure() hands out the slot's browser, or launches a new one.
WebSessionReady(t) ==
    /\ Kind(t) = "web" /\ at[t] = "session"
    /\ \E held \in {browser[dev[t]], {}} :
         browser' = [browser EXCEPT ![dev[t]] = held]
    /\ Goes(t, "next")
    /\ UNCHANGED <<cookies, expired, jar>> /\ UNCHANGED tokenVars

\* Cookie mode with a stored session: what is good of the jar goes into the browser.
CookieRestores(t) ==
    /\ AtWeb(t, "cookie") /\ Live(Realm(t))
    /\ browser' = [browser EXCEPT ![dev[t]] = Given(@, jar[Realm(t)] \ expired)]
    /\ Goes(t, "restore")
    /\ UNCHANGED <<cookies, expired, jar>> /\ UNCHANGED tokenVars

\* No stored session: the task's own steps do the login.
CookieReports(t) ==
    /\ AtWeb(t, "cookie") /\ ~Live(Realm(t))
    /\ Advances(t)
    /\ UNCHANGED webVars /\ UNCHANGED tokenVars

\* The other modes need the credential: every slot would miss it.
NoCredential(t) ==
    /\ AtWeb(t, "basic") \/ AtWeb(t, "bearer")
    /\ plan[t].credential = "missing"
    /\ Ends(t, "fatal", "item")
    /\ UNCHANGED webVars /\ UNCHANGED tokenVars

Basic(t) ==
    /\ AtWeb(t, "basic") /\ plan[t].credential # "missing"
    /\ Goes(t, "headers")
    /\ UNCHANGED webVars /\ UNCHANGED tokenVars

Bearer(t) ==
    /\ AtWeb(t, "bearer") /\ plan[t].credential # "missing"
    /\ TokenHit(t) \/ TokenMiss(t)
    /\ UNCHANGED webVars

PageCall(t) ==
    /\ Kind(t) = "web" /\ \E o \in PageOps : AtOp(t, o)
    /\ Goes(t, "page")
    /\ UNCHANGED webVars /\ UNCHANGED tokenVars

\* The page, set_cookies() or set_headers() answers.
BrowserAnswers(t) ==
    /\ at[t] \in {"page", "restore", "headers"}
    /\ Advances(t)
    /\ UNCHANGED webVars /\ UNCHANGED tokenVars

\* A browser failure is the attempt's and not the slot's.
BrowserFails(t) ==
    /\ at[t] \in {"page", "restore", "headers", "cookies", "storage"}
    /\ Op(t) # "wait"
    /\ Ends(t, "retry", "far")
    /\ UNCHANGED webVars /\ UNCHANGED tokenVars

CaptureCall(t) ==
    /\ AtWeb(t, "capture")
    /\ Goes(t, "cookies")
    /\ UNCHANGED webVars /\ UNCHANGED tokenVars

\* Mutant: one jar for all realms.
SaveCookiesForAll(t) ==
    /\ at[t] = "cookies"
    /\ jar' = [r \in Realms |-> browser[dev[t]]]
    /\ Goes(t, "storage")
    /\ UNCHANGED <<cookies, expired, browser>> /\ UNCHANGED tokenVars

\* The jar is replaced by every cookie of the browser.
SaveCookies(t) ==
    /\ at[t] = "cookies"
    /\ jar' = [jar EXCEPT ![Realm(t)] = browser[dev[t]]]
    /\ Goes(t, "storage")
    /\ UNCHANGED <<cookies, expired, browser>> /\ UNCHANGED tokenVars

\* The page's storage holds a token, or nothing.
StorageAnswers(t) ==
    /\ at[t] = "storage"
    /\ CaptureHit(t) \/ CaptureMiss(t) \/ (Advances(t) /\ UNCHANGED tokenVars)
    /\ UNCHANGED webVars

WebUnknownOp(t) ==
    /\ Kind(t) = "web" /\ UnknownOp(t, WebOps)
    /\ UNCHANGED webVars /\ UNCHANGED tokenVars

WebSessionFails(t) ==
    /\ Kind(t) = "web" /\ SessionFails(t)
    /\ UNCHANGED webVars /\ UNCHANGED tokenVars

WebTimesOut(t) ==
    /\ Kind(t) = "web" /\ TimesOut(t)
    /\ TokenCancelled(t)
    /\ UNCHANGED webVars

WebStep(t) ==
    \/ WebSessionReady(t) \/ WebSessionFails(t) \/ CookieRestores(t) \/ CookieReports(t)
    \/ NoCredential(t) \/ Basic(t) \/ Bearer(t) \/ PageCall(t)
    \/ BrowserAnswers(t) \/ BrowserFails(t) \/ CaptureCall(t) \/ SaveCookies(t)
    \/ StorageAnswers(t) \/ WebUnknownOp(t)
    \/ (GetsLock(t) \/ Refreshed(t) \/ RefreshFails(t)) /\ UNCHANGED webVars

-----------------------------------------------------------------------------
\* The sites and their cookies.

\* A page sets a cookie while it is called, whatever becomes of the call.
PageSetsCookie(t) ==
    /\ at[t] = "page" /\ Len(cookies) < MaxCookies
    /\ \E login \in BOOLEAN :
         LET new == [of |-> Realm(t), login |-> login]
         IN  /\ cookies' = Append(cookies, new)
             /\ browser' = [browser EXCEPT ![dev[t]] =
                  {b \in @ : cookies[b] # new} \cup {Len(cookies) + 1}]
    /\ UNCHANGED <<expired, jar>> /\ UNCHANGED tokenVars /\ UNCHANGED taskVars

\* A cookie's date passes: browsers forget it, a jar keeps it.
DatePasses(c) ==
    /\ c \in DOMAIN cookies \ expired
    /\ expired' = expired \cup {c}
    /\ browser' = [d \in Devices |-> browser[d] \ {c}]
    /\ UNCHANGED <<cookies, jar>> /\ UNCHANGED tokenVars /\ UNCHANGED taskVars
=============================================================================
