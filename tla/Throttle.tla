------------------------------ MODULE Throttle ------------------------------
(***************************************************************************)
(* The wrong passwords of each address, as auth.ts counts them.  Time is   *)
(* told by ages: a tick makes every entry older, and an age beyond the     *)
(* window is not told apart from any other.                                *)
(***************************************************************************)
EXTENDS Naturals

CONSTANTS
  Ips,
  MAX_ATTEMPTS,
  Window,          \* ATTEMPT_WINDOW_MS in ticks
  Clears           \* bound: how often in a stretch the failures may be forgotten

ASSUME ThrottleAssumption ==
  MAX_ATTEMPTS \in Nat \ {0} /\ Window \in Nat \ {0} /\ Clears \in Nat

VARIABLES
  attempts,        \* count of each address, 0 for no entry, and the age of firstAt
  recent,          \* wrong passwords looked at in this tick, in this one and the
                   \* last, and so on for a window; not kept by the code
  cleared          \* how often the failures were forgotten in these stretches, by a
                   \* right password or a restart; not kept by the code either

throttleVars == <<attempts, recent, cleared>>

NoEntry == [count |-> 0, age |-> 0]
NoneRecent == [ticks \in 0 .. Window |-> 0]

ThrottleInit ==
  /\ attempts = [ip \in Ips |-> NoEntry]
  /\ recent = [ip \in Ips |-> NoneRecent]
  /\ cleared = [ip \in Ips |-> NoneRecent]

OneMore(stretches) == [ticks \in 0 .. Window |-> stretches[ticks] + 1]
OneTickOn(stretches) ==
  [ticks \in 0 .. Window |-> IF ticks = 0 THEN 0 ELSE stretches[ticks - 1]]

\* Date.now() - entry.firstAt > ATTEMPT_WINDOW_MS
WindowOver(ip) == attempts[ip].age > Window

OneMoreGuess(ip) == ~WindowOver(ip) /\ attempts[ip].count > MAX_ATTEMPTS   \* a mutant

IsThrottled(ip) == ~WindowOver(ip) /\ attempts[ip].count >= MAX_ATTEMPTS

\* The first failure of a window, or one more in it.
RecordFailure(ip) ==
  /\ attempts' = [attempts EXCEPT ![ip] =
       IF attempts[ip].count = 0 \/ WindowOver(ip)
       THEN [count |-> 1, age |-> 0]
       ELSE [count |-> attempts[ip].count + 1, age |-> attempts[ip].age]]
  /\ recent' = [recent EXCEPT ![ip] = OneMore(@)]
  /\ UNCHANGED cleared

\* A right password makes the code forget the wrong ones; that they were looked at
\* stays true.
ClearFailures(ip) ==
  /\ cleared[ip][Window] < Clears
  /\ attempts' = [attempts EXCEPT ![ip] = NoEntry]
  /\ cleared' = [cleared EXCEPT ![ip] = OneMore(@)]
  /\ UNCHANGED recent

BlockedStartsOver(ip) ==                                           \* a mutant
  /\ attempts' = [attempts EXCEPT ![ip].age = 0]
  /\ UNCHANGED <<recent, cleared>>

\* An attempt that is not looked at is not counted either.
Blocked(ip) == UNCHANGED throttleVars

Older ==
  /\ attempts' = [ip \in Ips |->
       IF attempts[ip].count = 0 \/ WindowOver(ip) THEN attempts[ip]
       ELSE [attempts[ip] EXCEPT !.age = @ + 1]]
  /\ recent' = [ip \in Ips |-> OneTickOn(recent[ip])]
  /\ cleared' = [ip \in Ips |-> OneTickOn(cleared[ip])]

\* The map is in the memory of the process.
ForgetFailures ==
  /\ \A ip \in Ips : cleared[ip][Window] < Clears
  /\ attempts' = [ip \in Ips |-> NoEntry]
  /\ cleared' = [ip \in Ips |-> OneMore(cleared[ip])]
  /\ UNCHANGED recent

\* The wrong passwords of an address looked at in a stretch as long as a window, and
\* how often in it the server forgot those it had counted.
Guesses(ip) == recent[ip][Window]
Clearings(ip) == cleared[ip][Window]
=============================================================================
