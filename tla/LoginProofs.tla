------------------------------ MODULE LoginProofs ------------------------------
(***************************************************************************)
(* Logins of realms that share no browser slot do not mix: the proof that  *)
(* Targets never breaks RealmsStayApart, for any number of tasks, slots,   *)
(* realms and cookies.                                                     *)
(***************************************************************************)
EXTENDS TargetsProofs

\* Cookies are only ever added to those that were set before.
CookiesKept ==
    /\ DOMAIN cookies \subseteq DOMAIN cookies'
    /\ \A c \in DOMAIN cookies : cookies'[c] = cookies[c]

\* The two places where cookies of the realms R may be, and no others.
JarsOwn(R) == \A r \in R : jar[r] \subseteq CookiesOf(R)
SlotsOwn(R) ==
    \A d \in Devices : (\E r \in R : Serves(d, r)) => browser[d] \subseteq CookiesOf(R)

LEMMA CookiesStay ==
    ASSUME RealmsStayApart, plan' = plan, CookiesKept,
           \A R \in SUBSET Realms : Apart(R) /\ JarsOwn(R) /\ SlotsOwn(R) =>
             /\ \A r \in R : jar'[r] \subseteq CookiesOf(R)
             /\ \A d \in Devices : (\E r \in R : Serves(d, r)) =>
                                     browser'[d] \subseteq CookiesOf(R)'
    PROVE  RealmsStayApart'
  <1> SUFFICES ASSUME NEW R \in SUBSET Realms, Apart(R)'
               PROVE  /\ \A r \in R : jar'[r] \subseteq CookiesOf(R)'
                      /\ \A d \in Devices : (\E r \in R : Serves(d, r)') =>
                                              browser'[d] \subseteq CookiesOf(R)'
    BY DEF RealmsStayApart
  <1>1. \A d, r : Serves(d, r)' <=> Serves(d, r)
    BY DEF Serves, Kind, Realm
  <1>2. Apart(R)
    BY <1>1 DEF Apart
  <1>3. CookiesOf(R) \subseteq CookiesOf(R)'
    BY DEF CookiesOf, CookiesKept
  <1>4. JarsOwn(R) /\ SlotsOwn(R)
    BY <1>2 DEF RealmsStayApart, JarsOwn, SlotsOwn
  <1> QED BY <1>1, <1>2, <1>3, <1>4

\* Jars and browsers that are left alone, or lose cookies.
LEMMA FewerCookies ==
    ASSUME RealmsStayApart, plan' = plan, cookies' = cookies, jar' = jar,
           \A d \in Devices : browser'[d] \subseteq browser[d]
    PROVE  RealmsStayApart'
  <1>1. CookiesKept
    BY DEF CookiesKept
  <1>2. \A R \in SUBSET Realms : CookiesOf(R)' = CookiesOf(R)
    BY DEF CookiesOf
  <1> QED BY <1>1, <1>2, CookiesStay DEF JarsOwn, SlotsOwn

\* A task runs in a slot that serves its realm: a set of realms that stands apart and
\* has a part in the slot has the task's realm, too.
LEMMA SlotServesRealm ==
    ASSUME Contract, NEW t \in Tasks, Kind(t) = "web", at[t] # "idle"
    PROVE  /\ dev[t] \in Devices /\ Realm(t) \in Realms
           /\ Serves(dev[t], Realm(t))
           /\ \A R \in SUBSET Realms :
                Apart(R) /\ (\E q \in R : Serves(dev[t], q)) => Realm(t) \in R
  <1>1. dev[t] \in Devices /\ dev[t] \in plan[t].where /\ Realm(t) \in Realms
    BY PlanType DEF Contract, RunningHere
  <1>2. Serves(dev[t], Realm(t))
    BY <1>1 DEF Serves
  <1> QED BY <1>1, <1>2 DEF Apart

\* One step per action of WebTarget that touches a browser or a jar.
LEMMA WebCookies ==
    ASSUME Inv, RealmsStayApart, NEW t \in Tasks, WebStep(t)
    PROVE  RealmsStayApart'
  <1>0. Contract /\ WebTypeOK /\ WebEffect(t) /\ plan' = plan
    BY WebSteps, MoveShape DEF Inv, WebEffect, Contract
  <1>1. /\ dev[t] \in Devices /\ Realm(t) \in Realms
        /\ Serves(dev[t], Realm(t))
        /\ \A R \in SUBSET Realms :
             Apart(R) /\ (\E q \in R : Serves(dev[t], q)) => Realm(t) \in R
    BY <1>0, SlotServesRealm DEF WebEffect, Move
  <1>2. cookies' = cookies => CookiesKept /\ \A R \in SUBSET Realms : CookiesOf(R)' = CookiesOf(R)
    BY DEF CookiesKept, CookiesOf
  <1>3. CASE UNCHANGED webVars
    BY <1>0, <1>3, FewerCookies DEF webVars
  <1>4. CASE WebSessionReady(t)
    <2>1. \A d \in Devices : browser'[d] \subseteq browser[d]
      BY <1>0, <1>4 DEF WebSessionReady, WebTypeOK
    <2> QED BY <1>0, <1>4, <2>1, FewerCookies DEF WebSessionReady
  <1>5. CASE CookieRestores(t)
    <2>1. \A d \in Devices :
            browser'[d] \subseteq browser[d] \cup (IF d = dev[t] THEN jar[Realm(t)] ELSE {})
      BY <1>0, <1>1, <1>5 DEF CookieRestores, Given, WebTypeOK
    <2>2. cookies' = cookies /\ jar' = jar
      BY <1>5 DEF CookieRestores
    <2>3. ASSUME NEW R \in SUBSET Realms, Apart(R), JarsOwn(R), SlotsOwn(R),
                 NEW d \in Devices, \E r \in R : Serves(d, r)
          PROVE  browser'[d] \subseteq CookiesOf(R)
      <3>1. d = dev[t] => jar[Realm(t)] \subseteq CookiesOf(R)
        BY <1>1, <2>3 DEF JarsOwn
      <3> QED BY <2>1, <2>3, <3>1 DEF SlotsOwn
    <2> QED BY <1>0, <1>2, <2>2, <2>3, CookiesStay DEF JarsOwn
  <1>6. CASE SaveCookies(t)
    <2>1. \A r \in Realms : jar'[r] = IF r = Realm(t) THEN browser[dev[t]] ELSE jar[r]
      BY <1>0, <1>6 DEF SaveCookies, WebTypeOK
    <2>2. cookies' = cookies /\ browser' = browser
      BY <1>6 DEF SaveCookies
    <2>3. ASSUME NEW R \in SUBSET Realms, Apart(R), JarsOwn(R), SlotsOwn(R), NEW r \in R
          PROVE  jar'[r] \subseteq CookiesOf(R)
      <3>1. r = Realm(t) => browser[dev[t]] \subseteq CookiesOf(R)
        BY <1>1, <2>3 DEF SlotsOwn
      <3> QED BY <2>1, <2>3, <3>1 DEF JarsOwn
    <2> QED BY <1>0, <1>2, <2>2, <2>3, CookiesStay DEF SlotsOwn
  <1> QED
    BY <1>3, <1>4, <1>5, <1>6
       DEF WebStep, WebSessionFails, CookieReports, NoCredential, Basic, Bearer, PageCall,
       BrowserAnswers, BrowserFails, CaptureCall, StorageAnswers, WebUnknownOp

\* What a page sets is a cookie of the realm whose task is at the page.
LEMMA PageCookies ==
    ASSUME Inv, RealmsStayApart, NEW t \in Tasks, PageSetsCookie(t)
    PROVE  RealmsStayApart'
  <1>0. Contract /\ WebTypeOK /\ plan' = plan /\ jar' = jar
    BY DEF Inv, PageSetsCookie, taskVars
  <1>1. /\ dev[t] \in Devices /\ Realm(t) \in Realms
        /\ \A R \in SUBSET Realms :
             Apart(R) /\ (\E q \in R : Serves(dev[t], q)) => Realm(t) \in R
    <2>1. Kind(t) = "web" /\ at[t] # "idle"
      BY <1>0 DEF PageSetsCookie, Contract, KindsFit, Fits, WebAwaits
    <2> QED BY <1>0, <2>1, SlotServesRealm
  <1>2. PICK login \in BOOLEAN :
          LET new == [of |-> Realm(t), login |-> login]
          IN  /\ cookies' = Append(cookies, new)
              /\ browser' = [browser EXCEPT ![dev[t]] =
                   {b \in @ : cookies[b] # new} \cup {Len(cookies) + 1}]
    BY DEF PageSetsCookie
  <1> DEFINE new == [of |-> Realm(t), login |-> login]
             last == Len(cookies) + 1
  <1>3. new \in Cookies /\ new.of = Realm(t)
    BY <1>1 DEF Cookies
  <1>4. /\ cookies' = Append(cookies, new)
        /\ browser' = [browser EXCEPT ![dev[t]] = {b \in @ : cookies[b] # new} \cup {last}]
    BY <1>2
  <1> HIDE DEF new
  <1>5. /\ DOMAIN cookies' = DOMAIN cookies \cup {last} /\ cookies'[last] = new
        /\ \A c \in DOMAIN cookies : cookies'[c] = cookies[c]
    BY <1>0, <1>3, <1>4, CookieAdded
  <1> HIDE DEF last
  <1>6. CookiesKept /\ \A R \in SUBSET Realms : CookiesOf(R) \subseteq CookiesOf(R)'
    BY <1>5 DEF CookiesKept, CookiesOf
  <1>7. \A d \in Devices :
          browser'[d] \subseteq browser[d] \cup (IF d = dev[t] THEN {last} ELSE {})
    BY <1>0, <1>1, <1>4 DEF WebTypeOK
  <1>8. ASSUME NEW R \in SUBSET Realms, Apart(R), JarsOwn(R), SlotsOwn(R),
               NEW d \in Devices, \E r \in R : Serves(d, r)
        PROVE  browser'[d] \subseteq CookiesOf(R)'
    <2>1. d = dev[t] => last \in CookiesOf(R)'
      BY <1>1, <1>3, <1>5, <1>8 DEF CookiesOf
    <2>2. browser[d] \subseteq CookiesOf(R)'
      BY <1>6, <1>8 DEF SlotsOwn
    <2> QED BY <1>7, <2>1, <2>2
  <1> QED BY <1>0, <1>6, <1>8, CookiesStay DEF JarsOwn

-----------------------------------------------------------------------------
LEMMA ApartInit == Init => RealmsStayApart
  BY DEF Init, WebInit, RealmsStayApart

LEMMA ApartNext == Inv /\ RealmsStayApart /\ [Next]_vars => RealmsStayApart'
  <1> SUFFICES ASSUME Inv, RealmsStayApart, [Next]_vars PROVE RealmsStayApart'
    OBVIOUS
  <1>w. plan' = plan /\ UNCHANGED webVars => RealmsStayApart'
    BY FewerCookies DEF webVars
  <1>1. CASE StartFails \/ RunRefused \/ RunSubmits \/ DeploySubmits \/ Exits
    BY <1>1, <1>w DEF StartFails, RunRefused, RunSubmits, DeploySubmits, Exits,
       KeepTargets, Submits, taskVars
  <1>2. ASSUME NEW t \in Tasks, Steps(t) PROVE RealmsStayApart'
    <2>1. CASE WebStep(t)
      BY <2>1, WebCookies
    <2>2. CASE (Begins(t) \/ Returns(t)) /\ KeepTargets
      BY <2>2, <1>w DEF Begins, Returns, Ends, KeepTargets
    <2>3. CASE ApkStep(t) /\ UNCHANGED webVars
      BY <2>3, <1>w, ApkSteps, MoveShape DEF Inv, Contract, ApkEffect
    <2>4. CASE AndroidStep(t) /\ KeepTargets
      BY <2>4, <1>w, AndroidSteps, MoveShape DEF Inv, Contract, KeepTargets
    <2> QED BY <1>2, <2>1, <2>2, <2>3, <2>4 DEF Steps
  <1>3. ASSUME NEW t \in Tasks, Clock(t) PROVE RealmsStayApart'
    <2>1. plan' = plan
      BY <1>3 DEF Clock, RunsOutOfTime, ApkTimesOut, WebTimesOut, AndroidTimesOut, TimesOut, Ends
    <2>2. UNCHANGED webVars
      BY <1>3 DEF Clock, WebTimesOut, KeepTargets
    <2> QED BY <1>w, <2>1, <2>2
  <1>4. CASE World
    <2>1. plan' = plan
      BY <1>4 DEF World, PhoneTakesBuild, PageSetsCookie, DatePasses, taskVars
    <2>2. CASE UNCHANGED webVars
      BY <1>w, <2>1, <2>2
    <2>3. ASSUME NEW c, DatePasses(c) PROVE RealmsStayApart'
      BY <2>1, <2>3, FewerCookies DEF DatePasses
    <2> QED BY <1>4, <2>2, <2>3, PageCookies DEF World
  <1>5. CASE UNCHANGED vars
    BY <1>5, <1>w DEF vars, taskVars
  <1> QED BY <1>1, <1>2, <1>3, <1>4, <1>5 DEF Next

\* However many tasks log in, capture and restore, and whatever a browser still holds
\* of the tasks before: a cookie of one realm gets to another, into a jar or a browser,
\* only through slots that their tasks share.
THEOREM RealmsKeepTheirCookies == Spec => []RealmsStayApart
  <1>1. Init /\ []Inv /\ [][Next]_vars => []RealmsStayApart
    BY ApartInit, ApartNext, PTL
  <1> QED BY <1>1, InvHolds, PTL DEF Spec
=============================================================================
