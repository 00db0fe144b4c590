------------------------------ MODULE RateLimit ------------------------------
(***************************************************************************)
(* The rate limits of one endpoint (src/auth/rate-limit.service.ts): two   *)
(* fixed-window counters in Valkey per request, of its IP address and of   *)
(* its email, token or user, counted by a script each, one after the other.*)
(* Requests of several tasks interleave between the two.                   *)
(***************************************************************************)
EXTENDS Integers, Sequences, FiniteSets, Functions

CONSTANTS Requests, \* requests under way
          Ips, Subs, \* IP addresses; secondary keys
          Limit,    \* the requests a window admits, per key
          Second,   \* clock ticks of a second
          Window,   \* windowSeconds
          MaxTime,  \* bound on the clock
          MaxExcess, \* bound: requests beyond the limit until no more arrive
          MaxFaults \* bound on calls of Valkey that fail

Keys == Ips \cup Subs

ASSUME LimitAssumption == /\ Ips \cap Subs = {}
                          /\ Limit \in [Keys -> Nat \ {0}]
                          /\ Second \in Nat \ {0} /\ Window \in Nat \ {0}

ASSUME RequestsAssumption == IsFiniteSet(Requests)

VARIABLES now,
          counters, \* count and expiry of the keys in Valkey
          requests, \* what each request has left to check, and its outcome
          admitted, \* history: requests admitted in the window of a key
          faults    \* history: calls that failed

vars == <<now, counters, requests, admitted, faults>>
-----------------------------------------------------------------------------
NoCounter == [count |-> 0, expires |-> 0]
Existing == {k \in Keys : counters[k] # NoCounter}
Count(k) == counters[k].count

\* INCR_WITH_EXPIRE_SCRIPT: EXPIRE with the first INCR of a key.
Incremented(k) ==
  [count |-> Count(k) + 1,
   expires |-> IF Count(k) = 0 THEN now + Window * Second ELSE counters[k].expires]

\* What the TTL command answers: seconds, rounded to the nearest.
TtlSeconds(counter) == (counter.expires - now + Second \div 2) \div Second

\* Mutant: the count before this request is compared.
OverByOne(count, k) == count - 1 > Limit[k]

Over(count, k) == count > Limit[k]

\* Mutant: the shorter of the two waits.
Shorter(a, b) == IF a = 0 \/ b < a THEN b ELSE a

\* Math.max.
Longer(a, b) == IF b > a THEN b ELSE a

\* retryAfterSeconds after one more exceeded key.
Wait(before, ttl) == Longer(before, IF ttl > 0 THEN ttl ELSE Window)
-----------------------------------------------------------------------------
\* A request.  `windows': the expiry of the counters it was counted in;
\* `exceeded': the keys that were over their limit.
Idle == [step |-> "idle", checks |-> <<>>, retryAfter |-> 0, windows |-> [k \in Keys |-> 0],
         exceeded |-> {}, at |-> 0]

Init == /\ now = 0
        /\ counters = [k \in Keys |-> NoCounter]
        /\ requests = [r \in Requests |-> Idle]
        /\ admitted = [k \in Keys |-> 0]
        /\ faults = 0

\* The checks of a subject: IP first; what is not known is not checked.
Checks(ip, sub) == (IF ip \in Ips THEN <<ip>> ELSE <<>>) \o (IF sub \in Subs THEN <<sub>> ELSE <<>>)

Arrive(r) ==
  /\ requests[r].step # "check"
  /\ \A k \in Keys : Count(k) < Limit[k] + MaxExcess
  /\ \E ip \in Ips \cup {"unknown"}, sub \in Subs \cup {"none"} :
       requests' = [requests EXCEPT ![r] =
         IF Checks(ip, sub) = <<>> THEN [Idle EXCEPT !.step = "admitted", !.at = now]
         ELSE [Idle EXCEPT !.step = "check", !.checks = Checks(ip, sub)]]
  /\ UNCHANGED <<now, counters, admitted, faults>>

\* The keys in whose present window a request was counted.
CountedIn(q, table) == {k \in Keys : q.windows[k] > 0 /\ table[k].expires = q.windows[k]}

\* The script is executed for the next key.
Executed(k) == counters' = [counters EXCEPT ![k] = Incremented(k)]

\* enforce goes on with the script's answer: to the next key or to the verdict.
Check(r) ==
  LET q == requests[r]
      k == Head(q.checks)
      over == Over(counters'[k].count, k)
      counted == [q EXCEPT !.checks = Tail(@),
                           !.windows[k] = counters'[k].expires,
                           !.exceeded = IF over THEN @ \cup {k} ELSE @,
                           !.retryAfter = IF over THEN Wait(@, TtlSeconds(counters'[k])) ELSE @]
      decided == [counted EXCEPT !.at = now,
                                 !.step = IF counted.retryAfter > 0 THEN "rejected" ELSE "admitted"]
  IN
  /\ q.step = "check"
  /\ Executed(k)
  /\ requests' = [requests EXCEPT ![r] = IF counted.checks = <<>> THEN decided ELSE counted]
  /\ admitted' = IF counted.checks = <<>> /\ decided.step = "admitted"
                 THEN [x \in Keys |-> admitted[x] +
                         IF x \in CountedIn(decided, counters') THEN 1 ELSE 0]
                 ELSE admitted
  /\ UNCHANGED <<now, faults>>

\* The call fails, before or after the script was executed: the request is let
\* through, whatever its first key has said.
FailOpen(r) ==
  /\ requests[r].step = "check" /\ faults < MaxFaults
  /\ faults' = faults + 1
  /\ Executed(Head(requests[r].checks)) \/ UNCHANGED counters
  /\ requests' = [requests EXCEPT ![r] = [Idle EXCEPT !.step = "admitted", !.at = now]]
  /\ UNCHANGED <<now, admitted>>

\* Time passes, and keys expire.
Tick ==
  LET alive == {k \in Existing : counters[k].expires > now + 1} IN
  /\ now < MaxTime
  /\ now' = now + 1
  /\ counters' = [k \in Keys |-> IF k \in alive THEN counters[k] ELSE NoCounter]
  /\ admitted' = [k \in Keys |-> IF k \in alive THEN admitted[k] ELSE 0]
  /\ UNCHANGED <<requests, faults>>

Next == Tick \/ \E r \in Requests : Arrive(r) \/ Check(r) \/ FailOpen(r)

Spec == Init /\ [][Next]_vars
-----------------------------------------------------------------------------
(* Properties.                                                             *)

\* However requests interleave between their two checks, no more than the limit
\* of a key get through in one window of it, those apart for which Valkey failed.
LimitPerWindow == \A k \in Keys : admitted[k] <= Limit[k]

\* When a rejected client has waited as it was told, the windows of all the keys
\* it exceeded are over, up to the half second that TTL rounds away.
WaitIsLongEnough ==
  \A r \in Requests : requests[r].step = "rejected" =>
    \A k \in requests[r].exceeded :
      requests[r].windows[k] <= requests[r].at + requests[r].retryAfter * Second + Second \div 2
=============================================================================
