---------------------------- MODULE AccessProofs ----------------------------
(***************************************************************************)
(* The sign-in bar tells the truth, and a refused write has a cause, for   *)
(* every length of a session and any addresses.  Both rest on one          *)
(* invariant: as long as an agreement stands the session does too, every   *)
(* request that could still be heard was asked after it, and a dashboard   *)
(* that is mistaken about its session has a cause to be.                   *)
(* That few wrong passwords are looked at rests on what an entry of the    *)
(* throttle says of the guesses since its window began, and before, and on *)
(* how often the entries before it were forgotten.                         *)
(***************************************************************************)
EXTENDS Access, TLAPS

\* What the cookie and the cached answer may be; no more of the types is needed.
Shapes ==
  /\ config \in [password : BOOLEAN, secret : BOOLEAN]
  /\ cookie \in [left : Nat, signed : BOOLEAN]
  /\ me \in [seen : Answers, asked : {"no", "asked", "in", "out"}]
  /\ agreed \in Agreements

\* While the agreement is "in" the server takes the cookie, and once there is a
\* sign-out, heard of or not, it takes none.
AgreementHolds ==
  /\ agreed = "in" => HasSession
  /\ agreed \in {"out", "unheard"} => ~HasSession

\* An answer on its way is still right, but for a session that ran out meanwhile.
AnswerIsCurrent ==
  /\ me.asked = "in" => HasSession \/ agreed = "expired"
  /\ me.asked = "out" => ~HasSession

\* Nobody signs in or out before the first answer.
SignsKnowing == signing # "no" => me.seen # "unknown"

\* A dashboard that takes itself for signed in, and is not, has an excuse.
MistakeHasACause ==
  me.seen = "in" /\ ~HasSession =>
    \/ agreed \in {"expired", "replaced", "unheard"}
    \/ agreed = "out" /\ me.asked # "no"

IInv ==
  /\ Shapes
  /\ AgreementHolds
  /\ AnswerIsCurrent
  /\ SignsKnowing
  /\ BarTellsTheTruth
  /\ MistakeHasACause

\* The invariant holds at first: nothing is agreed, nothing is known.
LEMMA InitInvariant == Init => IInv
  BY AccessAssumption DEF Init, IInv, Shapes, AgreementHolds, AnswerIsCurrent, SignsKnowing,
     BarTellsTheTruth, MistakeHasACause, NoCookie, Answers, Agreements, HasSession

\* The requests for me: asked with the cookie there is, answered from it, heard or not.
LEMMA MeKeeps ==
  ASSUME IInv, Mount \/ ServeMe \/ HearMe \/ MeFails
  PROVE  IInv'
<1>1. CASE Mount
  BY <1>1 DEF Mount, Asking, IInv, Shapes, AgreementHolds, AnswerIsCurrent, SignsKnowing,
     BarTellsTheTruth, MistakeHasACause, NoCookie, Answers, Agreements, HasSession
<1>2. CASE ServeMe
  BY <1>2 DEF ServeMe, IInv, Shapes, AgreementHolds, AnswerIsCurrent, SignsKnowing,
     BarTellsTheTruth, MistakeHasACause, NoCookie, Answers, Agreements, HasSession
<1>3. CASE HearMe
  BY <1>3 DEF HearMe, IInv, Shapes, AgreementHolds, AnswerIsCurrent, SignsKnowing,
     BarTellsTheTruth, MistakeHasACause, NoCookie, Answers, Agreements, HasSession
<1>4. CASE MeFails
  BY <1>4 DEF MeFails, NotHeard, IInv, Shapes, AgreementHolds, AnswerIsCurrent, SignsKnowing,
     BarTellsTheTruth, MistakeHasACause, NoCookie, Answers, Agreements, HasSession
<1> QED  BY <1>1, <1>2, <1>3, <1>4

\* Signing in and out: the answer that makes an agreement also makes a new request,
\* because the cache has something to show by then.
LEMMA SigningKeeps ==
  ASSUME IInv,
         SignIn \/ SignOut \/ ServeSignIn \/ SignedIn \/ SignedOut \/ SignInFails
  PROVE  IInv'
<1>1. CASE SignIn
  BY <1>1 DEF SignIn, OffersSignIn, IInv, Shapes, AgreementHolds, AnswerIsCurrent, SignsKnowing,
     BarTellsTheTruth, MistakeHasACause, NoCookie, Answers, Agreements, HasSession
<1>2. CASE SignOut
  BY <1>2 DEF SignOut, OffersSignOut, IInv, Shapes, AgreementHolds, AnswerIsCurrent, SignsKnowing,
     BarTellsTheTruth, MistakeHasACause, NoCookie, Answers, Agreements, HasSession
<1>3. CASE ServeSignIn
  BY <1>3 DEF ServeSignIn, IInv, Shapes, AgreementHolds, AnswerIsCurrent, SignsKnowing,
     BarTellsTheTruth, MistakeHasACause, NoCookie, Answers, Agreements, HasSession
<1>4. CASE SignedIn
  BY <1>4, AccessAssumption DEF SignedIn, InvalidateMe, IInv, Shapes, AgreementHolds, AnswerIsCurrent, SignsKnowing,
     BarTellsTheTruth, MistakeHasACause, NoCookie, Answers, Agreements, HasSession
<1>5. CASE SignedOut
  BY <1>5 DEF SignedOut, InvalidateMe, IInv, Shapes, AgreementHolds, AnswerIsCurrent, SignsKnowing,
     BarTellsTheTruth, MistakeHasACause, NoCookie, Answers, Agreements, HasSession
<1>6. CASE SignInFails
  BY <1>6 DEF SignInFails, IInv, Shapes, AgreementHolds, AnswerIsCurrent, SignsKnowing,
     BarTellsTheTruth, MistakeHasACause, NoCookie, Answers, Agreements, HasSession
<1> QED  BY <1>1, <1>2, <1>3, <1>4, <1>5, <1>6

\* Time, a replaced process, a stranger's guess and a write.
LEMMA WorldKeeps ==
  ASSUME IInv, (\E ip \in Ips : Guess(ip)) \/ Write \/ Tick \/ Restart
  PROVE  IInv'
<1>1. CASE \E ip \in Ips : Guess(ip)
  BY <1>1 DEF Guess, accessVars, IInv, Shapes, AgreementHolds, AnswerIsCurrent, SignsKnowing,
     BarTellsTheTruth, MistakeHasACause, NoCookie, Answers, Agreements, HasSession
<1>2. CASE Write
  BY <1>2 DEF Write, IInv, Shapes, AgreementHolds, AnswerIsCurrent, SignsKnowing,
     BarTellsTheTruth, MistakeHasACause, NoCookie, Answers, Agreements, HasSession
<1>3. CASE Tick
  BY <1>3 DEF Tick, IInv, Shapes, AgreementHolds, AnswerIsCurrent, SignsKnowing,
     BarTellsTheTruth, MistakeHasACause, NoCookie, Answers, Agreements, HasSession
<1>4. CASE Restart
  <2>1. cookie' \in [left : Nat, signed : BOOLEAN]
    <3>1. (cookie.signed /\ SameSecret) \in BOOLEAN
      OBVIOUS
    <3> QED  BY <1>4, <3>1 DEF Restart, IInv, Shapes
  <2>2. HasSession' <=> HasSession /\ SameSecret
    <3>1. cookie'.left = cookie.left /\ cookie'.signed = (cookie.signed /\ SameSecret)
      BY <1>4 DEF Restart, IInv, Shapes
    <3> QED  BY <3>1, Zenon DEF HasSession
  <2>3. /\ config' = config /\ signing' = "no" /\ me' = [me EXCEPT !.asked = "no"]
        /\ HasSession /\ ~SameSecret => agreed' = "replaced"
        /\ ~HasSession \/ SameSecret =>
             agreed' = IF me.asked # "no" THEN NotHeard ELSE agreed
    BY <1>4 DEF Restart, SameSecret
  <2> HIDE DEF HasSession, SameSecret
  <2>4. CASE HasSession /\ ~SameSecret
    BY <2>1, <2>2, <2>3, <2>4 DEF IInv, Shapes, AgreementHolds, AnswerIsCurrent,
       SignsKnowing, BarTellsTheTruth, MistakeHasACause, Answers, Agreements
  <2>5. CASE ~HasSession \/ SameSecret
    BY <2>1, <2>2, <2>3, <2>5 DEF IInv, Shapes, AgreementHolds, AnswerIsCurrent,
       SignsKnowing, BarTellsTheTruth, MistakeHasACause, Answers, Agreements, NotHeard
  <2> QED  BY <2>4, <2>5
<1> QED  BY <1>1, <1>2, <1>3, <1>4

\* No step leaves the invariant.
LEMMA NextInvariant == IInv /\ [Next]_vars => IInv'
<1> SUFFICES ASSUME IInv, [Next]_vars PROVE IInv'
  OBVIOUS
<1>1. CASE UNCHANGED vars
  BY <1>1 DEF vars, accessVars, IInv, Shapes, AgreementHolds, AnswerIsCurrent, SignsKnowing,
     BarTellsTheTruth, MistakeHasACause, NoCookie, Answers, Agreements, HasSession
<1>2. CASE Next
  BY <1>2, MeKeeps, SigningKeeps, WorldKeeps DEF Next
<1> QED  BY <1>1, <1>2

\* So it holds always.
LEMMA AlwaysInvariant == Spec => []IInv
<1> QED  BY InitInvariant, NextInvariant, PTL DEF Spec

\* After a sign-in, a sign-out or an answer of /auth/me the dashboard shows what was
\* agreed as soon as no request is in flight, whatever was in flight: useAuth's
\* invalidation and the gate on ready in LoginBar leave no way around.
THEOREM TheBarTellsTheTruth == Spec => []BarTellsTheTruth
<1>1. IInv => BarTellsTheTruth
  BY DEF IInv
<1> QED  BY AlwaysInvariant, <1>1, PTL

\* requireWrite refuses a write the dashboard offers only when the session ran out, when
\* it ended with a process without SESSION_SECRET, or when the request for me that a
\* sign-out made failed or has not been answered yet.
THEOREM EveryRefusalHasACause == Spec => RefusalHasACause
<1>1. ASSUME IInv, [Next]_vars, write # "refused", write' = "refused"
      PROVE  \/ agreed \in {"expired", "replaced", "unheard"}
             \/ agreed = "out" /\ me.asked # "no"
  <2>1. Write
    BY <1>1 DEF vars, accessVars, Next, Mount, ServeMe, HearMe, MeFails, SignIn, SignOut,
       ServeSignIn, SignedIn, SignedOut, SignInFails, Guess, Tick, Restart
  <2>2. me.seen = "in" /\ ~HasSession
    BY <1>1, <2>1 DEF Write, CanWrite
  <2> QED  BY <1>1, <2>2 DEF IInv, MistakeHasACause
<1>2. ASSUME IInv, [Next]_vars
      PROVE  [write # "refused" /\ write' = "refused" =>
               \/ agreed \in {"expired", "replaced", "unheard"}
               \/ agreed = "out" /\ me.asked # "no"]_vars
  BY <1>1, <1>2
<1> QED  BY AlwaysInvariant, <1>2, PTL DEF Spec, RefusalHasACause
-----------------------------------------------------------------------------
(* The wrong passwords of an address.                                      *)

CountsTyped ==
  /\ attempts \in [Ips -> [count : 0 .. MAX_ATTEMPTS, age : 0 .. Window + 1]]
  /\ recent \in [Ips -> [0 .. Window -> Nat]]
  /\ cleared \in [Ips -> [0 .. Window -> Nat]]

\* What the n ticks before this one, and this one, may have seen of an address: all of
\* them are in the count, and the first of the count is older, when its window began
\* before them; and else no more than a part of one window and a whole one for each
\* time the failures were forgotten, beside those in the count.
Accounts(entry, guesses, clearings, n) ==
  /\ entry.count > 0 /\ n < entry.age => guesses < entry.count
  /\ guesses < MAX_ATTEMPTS * clearings + entry.count + MAX_ATTEMPTS

Accounted(ip) ==
  \A n \in 0 .. Window : Accounts(attempts[ip], recent[ip][n], cleared[ip][n], n)

CountInv == CountsTyped /\ \A ip \in Ips : Accounted(ip)

\* The state of one address, as far as the types go.
LEMMA OneAddress ==
  ASSUME CountInv, NEW ip \in Ips
  PROVE  /\ attempts[ip] \in [count : 0 .. MAX_ATTEMPTS, age : 0 .. Window + 1]
         /\ recent[ip] \in [0 .. Window -> Nat]
         /\ cleared[ip] \in [0 .. Window -> Nat]
         /\ MAX_ATTEMPTS \in Nat \ {0} /\ Window \in Nat \ {0}
         /\ Accounted(ip)
  BY ThrottleAssumption DEF CountInv, CountsTyped

\* One time more, MAX_ATTEMPTS more.
LEMMA OneClearingMore ==
  ASSUME NEW m \in Nat, NEW c \in Nat
  PROVE  m * c \in Nat /\ m * (c + 1) = m * c + m
OBVIOUS

\* Forgetting the failures pays for those that were in the count.
LEMMA ClearingIsAccounted ==
  ASSUME CountInv, NEW ip \in Ips,
         attempts'[ip] = NoEntry, recent'[ip] = recent[ip],
         cleared'[ip] = OneMore(cleared[ip])
  PROVE  Accounted(ip)'
<1>1. ASSUME NEW n \in 0 .. Window
      PROVE  Accounts(attempts'[ip], recent'[ip][n], cleared'[ip][n], n)
  <2> DEFINE count == attempts[ip].count
             guesses == recent[ip][n]
             clearings == cleared[ip][n]
  <2>1. /\ count \in 0 .. MAX_ATTEMPTS /\ guesses \in Nat /\ clearings \in Nat
        /\ MAX_ATTEMPTS \in Nat
        /\ guesses < MAX_ATTEMPTS * clearings + count + MAX_ATTEMPTS
    BY OneAddress DEF Accounted, Accounts
  <2>2. /\ attempts'[ip].count = 0 /\ recent'[ip][n] = guesses
        /\ cleared'[ip][n] = clearings + 1
    BY DEF NoEntry, OneMore
  <2> HIDE DEF count, guesses, clearings
  <2>3. MAX_ATTEMPTS * clearings \in Nat
        /\ MAX_ATTEMPTS * (clearings + 1) = MAX_ATTEMPTS * clearings + MAX_ATTEMPTS
    BY <2>1, OneClearingMore
  <2>4. guesses < MAX_ATTEMPTS * (clearings + 1) + 0 + MAX_ATTEMPTS
    BY <2>1, <2>3
  <2> QED  BY <2>2, <2>4 DEF Accounts
<1> QED  BY <1>1 DEF Accounted

\* What a step does to a counted stretch keeps it a function to the numbers.
LEMMA StretchesTyped ==
  ASSUME NEW stretches \in [0 .. Window -> Nat]
  PROVE  /\ OneMore(stretches) \in [0 .. Window -> Nat]
         /\ OneTickOn(stretches) \in [0 .. Window -> Nat]
<1>1. OneMore(stretches) \in [0 .. Window -> Nat]
  BY DEF OneMore
<1>2. ASSUME NEW n \in 0 .. Window
      PROVE  (IF n = 0 THEN 0 ELSE stretches[n - 1]) \in Nat
  BY ThrottleAssumption
<1> QED  BY <1>1, <1>2 DEF OneTickOn

\* A right password from an address makes its failures forgotten.
LEMMA ClearFailuresIsAccounted ==
  ASSUME CountInv, NEW ip \in Ips, ClearFailures(ip)
  PROVE  CountInv'
<1>1. \A k \in Ips \ {ip} :
        attempts'[k] = attempts[k] /\ recent'[k] = recent[k] /\ cleared'[k] = cleared[k]
  BY DEF ClearFailures, CountInv, CountsTyped
<1>2. /\ attempts'[ip] = NoEntry /\ recent'[ip] = recent[ip]
      /\ cleared'[ip] = OneMore(cleared[ip])
  BY DEF ClearFailures, CountInv, CountsTyped
<1>3. Accounted(ip)'
  BY <1>2, ClearingIsAccounted
<1>4. \A k \in Ips : Accounted(k)'
  BY <1>1, <1>3 DEF CountInv, Accounted
<1>5. CountsTyped'
  <2>1. OneMore(cleared[ip]) \in [0 .. Window -> Nat]
    BY OneAddress, StretchesTyped
  <2>2. NoEntry \in [count : 0 .. MAX_ATTEMPTS, age : 0 .. Window + 1]
    BY ThrottleAssumption DEF NoEntry
  <2> QED  BY <2>1, <2>2 DEF ClearFailures, CountInv, CountsTyped
<1> QED  BY <1>4, <1>5 DEF CountInv

\* A restart makes those of all addresses forgotten.
LEMMA ForgetFailuresIsAccounted ==
  ASSUME CountInv, ForgetFailures
  PROVE  CountInv'
<1>1. ASSUME NEW ip \in Ips
      PROVE  Accounted(ip)' /\ cleared'[ip] \in [0 .. Window -> Nat]
  <2>1. /\ attempts'[ip] = NoEntry /\ recent'[ip] = recent[ip]
        /\ cleared'[ip] = OneMore(cleared[ip])
    BY DEF ForgetFailures
  <2>2. cleared'[ip] \in [0 .. Window -> Nat]
    BY <2>1, OneAddress, StretchesTyped
  <2> QED  BY <2>1, <2>2, ClearingIsAccounted
<1>2. NoEntry \in [count : 0 .. MAX_ATTEMPTS, age : 0 .. Window + 1]
  BY ThrottleAssumption DEF NoEntry
<1>3. CountsTyped'
  BY <1>1, <1>2 DEF ForgetFailures, CountInv, CountsTyped
<1> QED  BY <1>1, <1>3 DEF CountInv

\* One more wrong password, of an address that is not throttled: in a window that
\* goes on, or as the first of a new one.
LEMMA FailureIsAccounted ==
  ASSUME CountInv, NEW ip \in Ips, ~IsThrottled(ip), RecordFailure(ip)
  PROVE  CountInv'
<1> DEFINE count == attempts[ip].count
           age == attempts[ip].age
           goesOn == count > 0 /\ age =< Window
<1>1. /\ attempts[ip] \in [count : 0 .. MAX_ATTEMPTS, age : 0 .. Window + 1]
      /\ count \in 0 .. MAX_ATTEMPTS /\ age \in 0 .. Window + 1
      /\ MAX_ATTEMPTS \in Nat \ {0} /\ Window \in Nat \ {0}
  BY OneAddress
<1>2. \A k \in Ips \ {ip} :
        attempts'[k] = attempts[k] /\ recent'[k] = recent[k] /\ cleared'[k] = cleared[k]
  BY DEF RecordFailure, CountInv, CountsTyped
<1>3. recent'[ip] = OneMore(recent[ip]) /\ cleared' = cleared
  BY DEF RecordFailure, CountInv, CountsTyped
<1>4. attempts'[ip] = IF goesOn THEN [count |-> count + 1, age |-> age]
                      ELSE [count |-> 1, age |-> 0]
  BY <1>1 DEF RecordFailure, WindowOver, CountInv, CountsTyped
<1>5. goesOn => count < MAX_ATTEMPTS
  BY <1>1 DEF IsThrottled, WindowOver
<1>6. attempts'[ip] \in [count : 0 .. MAX_ATTEMPTS, age : 0 .. Window + 1]
  BY <1>1, <1>4, <1>5
<1>7. ASSUME NEW n \in 0 .. Window
      PROVE  Accounts(attempts'[ip], recent'[ip][n], cleared'[ip][n], n)
  <2> DEFINE guesses == recent[ip][n]
             others == MAX_ATTEMPTS * cleared[ip][n]
  <2>1. /\ count > 0 /\ n < age => guesses < count
        /\ guesses < others + count + MAX_ATTEMPTS
    BY OneAddress DEF Accounted, Accounts
  <2>2. guesses \in Nat /\ others \in Nat
    BY OneAddress, OneClearingMore
  <2>3. recent'[ip][n] = guesses + 1 /\ cleared'[ip][n] = cleared[ip][n]
    BY <1>3 DEF OneMore
  <2>4. CASE goesOn
    <3>1. attempts'[ip].count = count + 1 /\ attempts'[ip].age = age
      BY <1>4, <2>4
    <3>2. /\ n < age => guesses + 1 < count + 1
          /\ guesses + 1 < others + (count + 1) + MAX_ATTEMPTS
      <4> HIDE DEF count, age, guesses, others
      <4> QED  BY <1>1, <2>1, <2>2, <2>4
    <3> QED  BY <2>3, <3>1, <3>2 DEF Accounts
  <2>5. CASE ~goesOn
    <3>1. attempts'[ip].count = 1 /\ attempts'[ip].age = 0
      BY <1>4, <2>5
    <3>2. guesses + 1 < others + 1 + MAX_ATTEMPTS
      <4>1. count = 0 \/ (count > 0 /\ n < age)
        <5> HIDE DEF count, age
        <5> QED  BY <1>1, <2>5
      <4> HIDE DEF count, age, guesses, others, goesOn
      <4> QED  BY <1>1, <2>1, <2>2, <4>1
    <3>3. ~(n < 0)
      OBVIOUS
    <3> QED  BY <2>3, <3>1, <3>2, <3>3 DEF Accounts
  <2> QED  BY <2>4, <2>5
<1>8. \A k \in Ips : Accounted(k)'
  BY <1>2, <1>7 DEF CountInv, Accounted
<1>9. CountsTyped'
  <2>1. recent'[ip] \in [0 .. Window -> Nat]
    BY <1>3, OneAddress, StretchesTyped
  <2>2. \A k \in Ips : attempts'[k] \in [count : 0 .. MAX_ATTEMPTS, age : 0 .. Window + 1]
    BY <1>2, <1>6 DEF CountInv, CountsTyped
  <2>3. \A k \in Ips : recent'[k] \in [0 .. Window -> Nat]
    BY <1>2, <2>1 DEF CountInv, CountsTyped
  <2>4. DOMAIN attempts' = Ips /\ DOMAIN recent' = Ips
        /\ attempts' = [k \in Ips |-> attempts'[k]] /\ recent' = [k \in Ips |-> recent'[k]]
    BY DEF RecordFailure, CountInv, CountsTyped
  <2> QED  BY <1>3, <2>2, <2>3, <2>4 DEF CountInv, CountsTyped
<1> QED  BY <1>8, <1>9 DEF CountInv

\* A tick: the stretches move, and the window of the entry with them.
LEMMA TickIsAccounted ==
  ASSUME CountInv, Older
  PROVE  CountInv'
<1>1. ASSUME NEW ip \in Ips
      PROVE  /\ attempts'[ip] \in [count : 0 .. MAX_ATTEMPTS, age : 0 .. Window + 1]
             /\ recent'[ip] \in [0 .. Window -> Nat]
             /\ cleared'[ip] \in [0 .. Window -> Nat]
             /\ Accounted(ip)'
  <2> DEFINE count == attempts[ip].count
             age == attempts[ip].age
             still == count = 0 \/ age > Window
  <2>1. /\ attempts[ip] \in [count : 0 .. MAX_ATTEMPTS, age : 0 .. Window + 1]
        /\ count \in 0 .. MAX_ATTEMPTS /\ age \in 0 .. Window + 1
        /\ MAX_ATTEMPTS \in Nat \ {0} /\ Window \in Nat \ {0}
    BY OneAddress
  <2>2. recent'[ip] = OneTickOn(recent[ip]) /\ cleared'[ip] = OneTickOn(cleared[ip])
    BY DEF Older
  <2>3. recent'[ip] \in [0 .. Window -> Nat] /\ cleared'[ip] \in [0 .. Window -> Nat]
    BY <2>2, OneAddress, StretchesTyped
  <2>4. attempts'[ip] = IF still THEN attempts[ip] ELSE [attempts[ip] EXCEPT !.age = @ + 1]
    BY DEF Older, WindowOver
  <2>5. /\ attempts'[ip].count = count
        /\ attempts'[ip].age = IF still THEN age ELSE age + 1
        /\ attempts'[ip] \in [count : 0 .. MAX_ATTEMPTS, age : 0 .. Window + 1]
    BY <2>1, <2>4
  <2>6. ASSUME NEW n \in 0 .. Window
        PROVE  Accounts(attempts'[ip], recent'[ip][n], cleared'[ip][n], n)
    <3>1. CASE n = 0
      <4>1. recent'[ip][n] = 0 /\ cleared'[ip][n] = 0
        BY <2>2, <3>1 DEF OneTickOn
      <4>2. /\ count > 0 => 0 < count
            /\ 0 < MAX_ATTEMPTS * 0 + count + MAX_ATTEMPTS
        <5> HIDE DEF count
        <5> QED  BY <2>1
      <4> QED  BY <2>5, <4>1, <4>2 DEF Accounts
    <3>2. CASE n # 0
      <4> DEFINE guesses == recent[ip][n - 1]
                 others == MAX_ATTEMPTS * cleared[ip][n - 1]
      <4>1. n - 1 \in 0 .. Window
        BY <2>1, <3>2
      <4>2. /\ count > 0 /\ n - 1 < age => guesses < count
            /\ guesses < others + count + MAX_ATTEMPTS
        BY <4>1, OneAddress DEF Accounted, Accounts
      <4>3. recent'[ip][n] = guesses /\ cleared'[ip][n] = cleared[ip][n - 1]
        BY <2>2, <3>2 DEF OneTickOn
      <4>4. count > 0 /\ n < (IF still THEN age ELSE age + 1) => n - 1 < age
        <5> HIDE DEF count, age
        <5> QED  BY <2>1
      <4> HIDE DEF count, age, still, guesses
      <4>5. /\ attempts'[ip].count > 0 /\ n < attempts'[ip].age => guesses < attempts'[ip].count
            /\ guesses < others + attempts'[ip].count + MAX_ATTEMPTS
        BY <2>5, <4>2, <4>4
      <4> QED  BY <4>3, <4>5 DEF Accounts
    <3> QED  BY <3>1, <3>2
  <2>7. Accounted(ip)'
    BY <2>6 DEF Accounted
  <2> QED  BY <2>3, <2>5, <2>7
<1>2. CountsTyped'
  BY <1>1 DEF Older, CountsTyped
<1> QED  BY <1>1, <1>2 DEF CountInv

\* No step leaves the counts wrong.
LEMMA NextIsAccounted == CountInv /\ [Next]_vars => CountInv'
<1> SUFFICES ASSUME CountInv, [Next]_vars PROVE CountInv'
  OBVIOUS
<1>1. CASE UNCHANGED throttleVars
  BY <1>1 DEF throttleVars, CountInv, CountsTyped, Accounted, Accounts
<1>2. ASSUME NEW ip \in Ips, NEW password, Login(ip, password)
      PROVE  CountInv'
  <2>1. CASE Blocked(ip)
    BY <1>1, <2>1 DEF Blocked
  <2>2. CASE ~IsThrottled(ip) /\ RecordFailure(ip)
    BY <2>2, FailureIsAccounted
  <2>3. CASE ClearFailures(ip)
    BY <2>3, ClearFailuresIsAccounted
  <2> QED  BY <1>2, <2>1, <2>2, <2>3 DEF Login
<1>3. CASE ServeSignIn
  BY <1>2, <1>3, AccessAssumption DEF ServeSignIn
<1>4. CASE \E ip \in Ips : Guess(ip)
  BY <1>2, <1>4 DEF Guess
<1>5. CASE Tick
  BY <1>5, TickIsAccounted DEF Tick
<1>6. CASE Restart
  BY <1>6, ForgetFailuresIsAccounted DEF Restart
<1>7. Next => \/ ServeSignIn \/ (\E ip \in Ips : Guess(ip)) \/ Tick \/ Restart
              \/ UNCHANGED throttleVars
  BY DEF Next, Mount, ServeMe, HearMe, MeFails, SignIn, SignOut, SignedIn, SignedOut,
     SignInFails, Write
<1> QED  BY <1>1, <1>3, <1>4, <1>5, <1>6, <1>7 DEF vars

\* Of one address the server looks at no more than 2 * MAX_ATTEMPTS - 1 wrong passwords
\* in any stretch as long as a window, and at MAX_ATTEMPTS more for every time it forgot
\* them in it, for every limit and every window: a guess is refused before the password
\* is read once the count is full (auth.ts: isThrottled), and the count starts again
\* only when its window is over, after a right password and after a restart.
THEOREM FewWrongPasswords == Spec => []FewGuesses
<1>1. Init => CountInv
  <2>1. ASSUME Init, NEW ip \in Ips, NEW n \in 0 .. Window
        PROVE  Accounts(attempts[ip], recent[ip][n], cleared[ip][n], n)
    <3>1. /\ attempts[ip].count = 0 /\ recent[ip][n] = 0 /\ cleared[ip][n] = 0
          /\ MAX_ATTEMPTS \in Nat \ {0}
      BY <2>1, ThrottleAssumption DEF Init, ThrottleInit, NoEntry, NoneRecent
    <3>2. 0 < MAX_ATTEMPTS * 0 + 0 + MAX_ATTEMPTS
      BY <3>1
    <3> QED  BY <3>1, <3>2 DEF Accounts
  <2>2. Init => CountsTyped
    BY ThrottleAssumption DEF Init, ThrottleInit, CountsTyped, NoEntry, NoneRecent
  <2> QED  BY <2>1, <2>2 DEF CountInv, Accounted
<1>2. ASSUME CountInv, NEW ip \in Ips
      PROVE  Guesses(ip) =< 2 * MAX_ATTEMPTS - 1 + MAX_ATTEMPTS * Clearings(ip)
  <2> DEFINE count == attempts[ip].count
             guesses == recent[ip][Window]
             others == MAX_ATTEMPTS * cleared[ip][Window]
  <2>1. /\ count \in 0 .. MAX_ATTEMPTS /\ guesses \in Nat /\ cleared[ip][Window] \in Nat
        /\ MAX_ATTEMPTS \in Nat \ {0}
        /\ guesses < others + count + MAX_ATTEMPTS
    BY <1>2, OneAddress DEF Accounted, Accounts
  <2>2. others \in Nat
    BY <2>1, OneClearingMore
  <2>3. guesses =< 2 * MAX_ATTEMPTS - 1 + others
    <3> HIDE DEF count, guesses, others
    <3> QED  BY <2>1, <2>2
  <2> QED  BY <2>3 DEF Guesses, Clearings
<1>3. CountInv => FewGuesses
  BY <1>2 DEF FewGuesses
<1> QED  BY <1>1, <1>3, NextIsAccounted, PTL DEF Spec
=============================================================================
