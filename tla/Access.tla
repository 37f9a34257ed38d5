------------------------------- MODULE Access -------------------------------
(***************************************************************************)
(* Signing in: the login, logout and me routes with their session cookie,  *)
(* the throttle in front of the password, requireWrite, and the dashboard, *)
(* which knows whether it may write only from the last answer of           *)
(* GET /auth/me that its cache has.                                        *)
(***************************************************************************)
EXTENDS Throttle

CONSTANTS
  Home,            \* the address the dashboard calls from
  Ttl              \* SESSION_TTL_MS in ticks

ASSUME AccessAssumption == Home \in Ips /\ Ttl \in Nat \ {0}

VARIABLES
  config,          \* the environment: is there a password, a SESSION_SECRET
  cookie,          \* the browser's session: ticks left, and signed by this secret
  me,              \* the cached answer, and the request in flight
  signing,         \* the sign-in or sign-out in flight
  write,           \* what became of the last write of the dashboard
  agreed           \* what browser and server last agreed on, or what ended it

accessVars == <<config, cookie, me, signing, write, agreed>>
vars == <<accessVars, throttleVars>>

NoCookie == [left |-> 0, signed |-> FALSE]
Answers == {"unknown", "in", "out"}

\* A session ends by itself or with its secret; a sign-out may stay unheard of by the
\* cache.  Nothing else ends an agreement but the next one.
Agreements == Answers \cup {"expired", "replaced", "unheard"}

Init ==
  /\ ThrottleInit
  /\ config \in [password : BOOLEAN, secret : BOOLEAN]
  /\ cookie = NoCookie
  /\ me = [seen |-> "unknown", asked |-> "no"]
  /\ signing = "no"
  /\ write = "none"
  /\ agreed = "unknown"

\* AUTH_DISABLED: neither keys nor a password.  A request with a key needs no session
\* and is not modelled.
WriteOpen == ~config.password
HasSession == cookie.left > 0 /\ cookie.signed

----------------------------------------------------------------------------
\* GET /auth/me carries the cookie the browser has when it asks; an answer to one
\* that carries none is decided then.
Asking == IF cookie = NoCookie THEN "out" ELSE "asked"

\* A component that uses useAuth is mounted: with no request in flight, one is made.
Mount ==
  /\ me.asked = "no"
  /\ me' = [me EXCEPT !.asked = Asking]
  /\ UNCHANGED <<config, cookie, signing, write, agreed, throttleVars>>

ServeMe ==
  /\ me.asked = "asked"
  /\ me' = [me EXCEPT !.asked = IF HasSession THEN "in" ELSE "out"]
  /\ UNCHANGED <<config, cookie, signing, write, agreed, throttleVars>>

HearMe ==
  /\ me.asked \in {"in", "out"}
  /\ me' = [seen |-> me.asked, asked |-> "no"]
  /\ agreed' = IF (me.asked = "in") <=> HasSession THEN me.asked ELSE agreed
  /\ UNCHANGED <<config, cookie, signing, write, throttleVars>>

\* What is left of an agreement when a request for me is given up.
NotHeard == CASE agreed = "in" -> "unknown"
              [] agreed = "out" -> "unheard"
              [] OTHER -> agreed

\* The request fails, and so does its retry: what is cached stays, right or wrong.
MeFails ==
  /\ me.asked # "no"
  /\ me' = [me EXCEPT !.asked = "no"]
  /\ agreed' = NotHeard
  /\ UNCHANGED <<config, cookie, signing, write, throttleVars>>

\* invalidateQueries: a request in flight is cancelled for a new one, but only by a
\* cache that has an answer to show meanwhile; else the one in flight is joined.
JoinsMe(asking) ==                                                 \* a mutant
  me' = [me EXCEPT !.asked = IF me.asked # "no" THEN @ ELSE asking]

InvalidateMe(asking) ==
  me' = [me EXCEPT !.asked = IF me.seen = "unknown" /\ me.asked # "no" THEN @ ELSE asking]

----------------------------------------------------------------------------
AtOnce == me.seen # "in" /\ config.password                       \* a mutant

\* LoginBar offers nothing before /auth/me has answered, and nothing when there is no
\* password to sign in with.
OffersSignIn == me.seen = "out" /\ config.password
OffersSignOut == me.seen = "in"

SignIn ==
  /\ OffersSignIn
  /\ signing = "no"
  /\ signing' \in {"right", "wrong"}
  /\ UNCHANGED <<config, cookie, me, write, agreed, throttleVars>>

SignOut ==
  /\ OffersSignOut
  /\ signing = "no"
  /\ signing' = "leaving"
  /\ UNCHANGED <<config, cookie, me, write, agreed, throttleVars>>

\* POST /auth/login, all of it in one turn of the event loop: the throttle first, then
\* the password.
Login(ip, password) ==
  \/ IsThrottled(ip) /\ Blocked(ip)
  \/ ~IsThrottled(ip) /\ password = "wrong" /\ RecordFailure(ip)
  \/ ~IsThrottled(ip) /\ password = "right" /\ ClearFailures(ip)

ServeSignIn ==
  /\ signing \in {"right", "wrong"}
  /\ Login(Home, signing)
  /\ signing' = IF IsThrottled(Home) \/ signing = "wrong" THEN "refused" ELSE "granted"
  /\ UNCHANGED <<config, cookie, me, write, agreed>>

\* Somebody else at one of the addresses, who does not know the password.
Guess(ip) ==
  /\ config.password
  /\ Login(ip, "wrong")
  /\ UNCHANGED accessVars

\* The answers arrive, with the cookie or without it.
SignedIn ==
  /\ signing = "granted"
  /\ signing' = "no"
  /\ cookie' = [left |-> Ttl, signed |-> TRUE]
  /\ InvalidateMe("asked")
  /\ agreed' = "in"
  /\ UNCHANGED <<config, write, throttleVars>>

SignedOut ==
  /\ signing = "leaving"
  /\ signing' = "no"
  /\ cookie' = NoCookie
  /\ InvalidateMe("out")
  /\ agreed' = "out"
  /\ UNCHANGED <<config, write, throttleVars>>

SignInFails ==
  /\ signing # "no"
  /\ signing' = "no"
  /\ UNCHANGED <<config, cookie, me, write, agreed, throttleVars>>

----------------------------------------------------------------------------
\* A create or replay button that is not greyed out, and requireWrite behind it.
CanWrite == me.seen = "in" \/ (me.seen = "out" /\ WriteOpen)

Write ==
  /\ CanWrite
  /\ write' = IF WriteOpen \/ HasSession THEN "accepted" ELSE "refused"
  /\ UNCHANGED <<config, cookie, me, signing, agreed, throttleVars>>

\* A tick of the clock; a cookie runs out in the browser and on the server alike.
Tick ==
  /\ Older
  /\ cookie' = IF cookie.left <= 1 THEN NoCookie ELSE [cookie EXCEPT !.left = @ - 1]
  /\ agreed' = IF HasSession /\ cookie.left = 1 THEN "expired" ELSE agreed
  /\ UNCHANGED <<config, me, signing, write>>

\* Without SESSION_SECRET every process makes up a secret of its own.
SameSecret == config.secret

\* The API process is replaced; requests that were on their way to it are lost.
Restart ==
  /\ ForgetFailures
  /\ cookie' = [cookie EXCEPT !.signed = @ /\ SameSecret]
  /\ agreed' = IF HasSession /\ ~config.secret THEN "replaced"
               ELSE IF me.asked # "no" THEN NotHeard ELSE agreed
  /\ signing' = "no"
  /\ me' = [me EXCEPT !.asked = "no"]
  /\ UNCHANGED <<config, write>>

----------------------------------------------------------------------------
Next ==
  \/ Mount \/ ServeMe \/ HearMe \/ MeFails
  \/ SignIn \/ SignOut \/ ServeSignIn \/ SignedIn \/ SignedOut \/ SignInFails
  \/ \E ip \in Ips : Guess(ip)
  \/ Write \/ Tick \/ Restart

Spec == Init /\ [][Next]_vars

\* Time passes; nobody has to do anything.
FairSpec == Spec /\ WF_vars(Tick)

----------------------------------------------------------------------------
(***************************************************************************)
(* Properties.                                                             *)
(***************************************************************************)
\* How many wrong passwords the server looks at in a stretch as long as a window.  The
\* window starts at the first failure and does not slide: the end of one window and the
\* beginning of the next may have 2 * MAX_ATTEMPTS - 1 together.  Every right password
\* from the address, and every restart, lets MAX_ATTEMPTS more through.
FewGuesses ==
  \A ip \in Ips : Guesses(ip) <= 2 * MAX_ATTEMPTS - 1 + MAX_ATTEMPTS * Clearings(ip)

\* What docs/api.md says of the login: so many failed attempts per address and window.
\* It does not hold, not even when nothing is forgotten.
AtMostMaxPerWindow ==
  \A ip \in Ips : Guesses(ip) <= MAX_ATTEMPTS

\* The sign-in bar tells the truth: when a sign-in, a sign-out or an answer of /auth/me
\* has made the two agree and nothing has ended it since, then as soon as no request is
\* in flight the dashboard shows it, whatever was in flight when it was answered.
BarTellsTheTruth ==
  me.asked = "no" /\ agreed \in {"in", "out"} => me.seen = agreed

\* A write the dashboard offers is refused for one of four causes: the session ran out;
\* it ended with a process that had no SESSION_SECRET; the request for /auth/me that a
\* sign-out made failed; or that request is still in flight.
RefusalHasACause ==
  [][write # "refused" /\ write' = "refused" =>
       \/ agreed \in {"expired", "replaced", "unheard"}
       \/ agreed = "out" /\ me.asked # "no"]_vars

\* A throttled address is let in again, however often it tries meanwhile.
ThrottleEnds ==
  \A ip \in Ips :
    (attempts[ip].count = MAX_ATTEMPTS /\ attempts[ip].age <= Window)
      ~> (attempts[ip].count < MAX_ATTEMPTS \/ attempts[ip].age > Window)
=============================================================================
