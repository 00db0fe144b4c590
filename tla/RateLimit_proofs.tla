--------------------------- MODULE RateLimit_proofs ---------------------------
(***************************************************************************)
(* Theorems about the rate limits, for any number of requests, keys and    *)
(* limits and any length of a window.  The requests that were counted in   *)
(* the present window of a key, found below its limit and not answered yet *)
(* (Pending) have their places reserved (WithinLimit).                     *)
(***************************************************************************)
EXTENDS RateLimit, FiniteSetTheorems, SequenceTheorems, TLAPS

-----------------------------------------------------------------------------
(* The inductive invariant.                                                *)

Counter == [count: Nat, expires: Nat]
Request == [step: {"idle", "check", "admitted", "rejected"}, checks: Seq(Keys),
            retryAfter: Nat, windows: [Keys -> Nat], exceeded: SUBSET Keys, at: Nat]

TypeOK ==
  /\ now \in Nat /\ counters \in [Keys -> Counter] /\ faults \in Nat
  /\ requests \in [Requests -> Request] /\ admitted \in [Keys -> Nat]

\* Valkey has a counter with a positive count, and until it expires.
CounterInv(k) == IF Count(k) = 0 THEN counters[k] = NoCounter ELSE counters[k].expires > now

\* The keys a request has left to check: it was not counted in them yet.
Unchecked(q) ==
  \/ \E k \in Keys : q.checks = <<k>> /\ q.windows[k] = 0
  \/ \E ip \in Ips, sub \in Subs :
       q.checks = <<ip, sub>> /\ q.windows[ip] = 0 /\ q.windows[sub] = 0

\* The windows the keys exceeded are over by then, but for what TTL rounds away.
OverBy(q, time) ==
  \A k \in q.exceeded : q.windows[k] <= time + q.retryAfter * Second + Second \div 2

RequestInv(q) ==
  /\ q.step = "check" => Unchecked(q) /\ OverBy(q, now)
  /\ q.step = "rejected" => OverBy(q, q.at)
  /\ q.retryAfter = 0 <=> q.exceeded = {}
  /\ \A k \in q.exceeded : q.windows[k] > 0
  /\ \A k \in Keys : q.windows[k] <= now \/ q.windows[k] <= counters[k].expires

\* The request is below the limit in the present window of k and not answered.
Holds(q, k, table) == q.step = "check" /\ k \in CountedIn(q, table) /\ k \notin q.exceeded

Pending(k) == {r \in Requests : Holds(requests[r], k, counters)}

WithinLimit(k) ==
  /\ admitted[k] + Cardinality(Pending(k)) <= Limit[k]
  /\ admitted[k] + Cardinality(Pending(k)) <= Count(k)

IInv ==
  /\ TypeOK
  /\ \A k \in Keys : CounterInv(k) /\ WithinLimit(k)
  /\ \A r \in Requests : RequestInv(requests[r])
-----------------------------------------------------------------------------
(* Lemmas about the operators.                                             *)

\* A quotient is rounded down by less than one.
LEMMA QuotientBound ==
  ASSUME NEW a \in Int, NEW s \in Nat \ {0}
  PROVE  a \div s \in Int /\ a < s * (a \div s) + s
OBVIOUS

\* The remainder of half a second is no more than the half and one tick.
LEMMA HalfSecond == Second \div 2 \in Nat /\ Second - Second \div 2 <= Second \div 2 + 1
BY LimitAssumption

\* A longer wait ends later.
LEMMA LongerWait ==
  ASSUME NEW a \in Nat, NEW b \in Nat, a <= b
  PROVE  a * Second \in Nat /\ b * Second \in Nat /\ a * Second <= b * Second
BY LimitAssumption

\* A wait is positive, no shorter than the one before, and covers the window.
LEMMA WaitCovers ==
  ASSUME NEW before \in Nat, NEW c \in Counter, now \in Nat
  PROVE  LET w == Wait(before, TtlSeconds(c)) IN
           /\ w \in Nat \ {0} /\ before <= w
           /\ c.expires <= now + w * Second + Second \div 2
<1> DEFINE a == c.expires - now + Second \div 2
           ttl == a \div Second
           w == Wait(before, ttl)
<1>1. a \in Int
  BY HalfSecond DEF Counter
<1>2. ttl \in Int /\ a < Second * ttl + Second
  BY <1>1, QuotientBound, LimitAssumption
<1>3. w \in Nat \ {0} /\ before <= w /\ (ttl > 0 => ttl <= w) /\ (~ ttl > 0 => 1 <= w)
  <2> HIDE DEF ttl
  <2> QED BY <1>2, LimitAssumption DEF Wait, Longer
<1>4. a < w * Second + Second
  <2> HIDE DEF a, ttl, w
  <2>1. CASE ttl > 0
    BY <2>1, <1>1, <1>2, <1>3, LongerWait, LimitAssumption
  <2>2. CASE ~ ttl > 0
    <3>1. Second * ttl <= 0
      BY <2>2, <1>2, LimitAssumption
    <3>2. w * Second \in Nat
      BY <1>3, LongerWait
    <3> QED BY <3>1, <3>2, <1>1, <1>2, LimitAssumption
  <2> QED BY <2>1, <2>2
<1>5. c.expires <= now + w * Second + Second \div 2
  <2>1. w * Second \in Nat
    <3> HIDE DEF w
    <3> QED BY <1>3, LongerWait
  <2>2. c.expires \in Nat
    BY DEF Counter
  <2> HIDE DEF w
  <2> DEFINE h == Second \div 2
  <2>3. h \in Nat /\ Second - h <= h + 1
    BY HalfSecond
  <2>4. c.expires - now + h < w * Second + Second
    BY <1>4
  <2> HIDE DEF h
  <2>5. c.expires <= now + w * Second + h
    BY <2>1, <2>2, <2>3, <2>4, LimitAssumption
  <2> QED BY <2>5 DEF h
<1>6. TtlSeconds(c) = ttl
  BY DEF TtlSeconds
<1> QED BY <1>3, <1>5, <1>6

\* Sets of requests that differ in one request at most.
LEMMA OneApart ==
  ASSUME NEW A \in SUBSET Requests, NEW B \in SUBSET Requests, NEW r, A \ {r} = B \ {r}
  PROVE  /\ Cardinality(A) \in Nat /\ Cardinality(B) \in Nat
         /\ Cardinality(B) + (IF r \in A THEN 1 ELSE 0) = Cardinality(A) + (IF r \in B THEN 1 ELSE 0)
<1>1. IsFiniteSet(A) /\ IsFiniteSet(B)
  BY RequestsAssumption, FS_Subset
<1>2. Cardinality(A) \in Nat /\ Cardinality(B) \in Nat
  BY <1>1, FS_CardinalityType
<1>3. Cardinality(A \ {r}) = IF r \in A THEN Cardinality(A) - 1 ELSE Cardinality(A)
  BY <1>1, FS_RemoveElement
<1>4. Cardinality(B \ {r}) = IF r \in B THEN Cardinality(B) - 1 ELSE Cardinality(B)
  BY <1>1, FS_RemoveElement
<1>5. CASE r \in A /\ r \in B
  BY <1>2, <1>3, <1>4, <1>5
<1>6. CASE r \in A /\ r \notin B
  <2>1. Cardinality(A) - 1 = Cardinality(B)
    BY <1>3, <1>4, <1>6
  <2> QED BY <1>2, <1>6, <2>1
<1>7. CASE r \notin A /\ r \in B
  BY <1>2, <1>3, <1>4, <1>7
<1>8. CASE r \notin A /\ r \notin B
  BY <1>2, <1>3, <1>4, <1>8
<1> QED BY <1>5, <1>6, <1>7, <1>8

\* The next key of a request, and what is left after it.
LEMMA NextKey ==
  ASSUME NEW q \in Request, Unchecked(q)
  PROVE  /\ Head(q.checks) \in Keys /\ q.windows[Head(q.checks)] = 0
         /\ Tail(q.checks) \in Seq(Keys)
         /\ Tail(q.checks) # <<>> => \E k \in Keys : /\ Tail(q.checks) = <<k>>
                                                     /\ k # Head(q.checks) /\ q.windows[k] = 0
<1>1. CASE \E k \in Keys : q.checks = <<k>> /\ q.windows[k] = 0
  BY <1>1
<1>2. CASE \E ip \in Ips, sub \in Subs :
             q.checks = <<ip, sub>> /\ q.windows[ip] = 0 /\ q.windows[sub] = 0
  <2>1. PICK ip \in Ips, sub \in Subs :
          q.checks = <<ip, sub>> /\ q.windows[ip] = 0 /\ q.windows[sub] = 0
    BY <1>2
  <2>2. Head(q.checks) = ip /\ Tail(q.checks) = <<sub>> /\ sub # ip /\ ip \in Keys /\ sub \in Keys
    BY <2>1, LimitAssumption DEF Keys
  <2> QED BY <2>1, <2>2
<1> QED BY <1>1, <1>2 DEF Unchecked
-----------------------------------------------------------------------------
(* What a step on one request leaves as it was for the others.             *)

\* In the window that has not begun, nobody was counted.
LEMMA NothingBefore ==
  ASSUME IInv, NEW k \in Keys, Count(k) = 0
  PROVE  admitted[k] = 0 /\ Pending(k) = {} /\ counters[k].expires = 0
<1>1. IsFiniteSet(Pending(k))
  BY RequestsAssumption, FS_Subset DEF Pending
<1>2. Cardinality(Pending(k)) \in Nat /\ admitted[k] \in Nat
  BY <1>1, FS_CardinalityType DEF IInv, TypeOK
<1>3. admitted[k] = 0 /\ Cardinality(Pending(k)) = 0
  BY <1>2 DEF IInv, WithinLimit
<1>4. counters[k].expires = 0
  BY DEF IInv, CounterInv, NoCounter
<1> QED BY <1>1, <1>3, <1>4, FS_EmptySet

\* INCR begins a window or stays in the present one.
LEMMA IncrementedCounter ==
  ASSUME IInv, NEW k \in Keys
  PROVE  /\ Incremented(k) \in Counter /\ Incremented(k).count = Count(k) + 1
         /\ Incremented(k).expires > now /\ counters[k].expires <= Incremented(k).expires
         /\ Count(k) # 0 => Incremented(k).expires = counters[k].expires
<1>1. now \in Nat /\ counters[k] \in Counter /\ CounterInv(k)
  BY DEF IInv, TypeOK
<1>2. Window * Second \in Nat \ {0}
  BY LimitAssumption
<1>3. CASE Count(k) = 0
  BY <1>1, <1>2, <1>3, NothingBefore DEF Incremented, Count, Counter
<1>4. CASE Count(k) # 0
  BY <1>1, <1>4 DEF Incremented, Count, Counter, CounterInv
<1> QED BY <1>3, <1>4

\* INCR for a key neither takes a place from another request nor gives it one.
LEMMA SameHolders ==
  ASSUME IInv, NEW k \in Keys, NEW table, table = [counters EXCEPT ![k] = Incremented(k)],
         NEW r \in Requests, NEW x \in Keys
  PROVE  Holds(requests[r], x, table) <=> Holds(requests[r], x, counters)
<1>1. counters \in [Keys -> Counter]
  BY DEF IInv, TypeOK
<1>2. CASE x # k \/ Count(k) # 0
  <2>1. table[x].expires = counters[x].expires
    BY <1>1, <1>2, IncrementedCounter
  <2> QED BY <2>1 DEF Holds, CountedIn
<1>3. CASE x = k /\ Count(k) = 0
  <2>1. ~ Holds(requests[r], k, counters)
    BY <1>3, NothingBefore DEF Pending
  <2>2. requests[r].windows[k] <= now \/ requests[r].windows[k] <= counters[k].expires
    BY DEF IInv, RequestInv
  <2>3. counters[k].expires = 0
    BY <1>3, NothingBefore
  <2>4. table[k].expires > now /\ table[k].expires \in Nat
    BY <1>1, IncrementedCounter DEF Counter
  <2>5. now \in Nat /\ requests[r].windows[k] \in Nat
    BY DEF IInv, TypeOK, Request
  <2>6. table[k].expires # requests[r].windows[k]
    BY <2>2, <2>3, <2>4, <2>5
  <2> QED BY <1>3, <2>1, <2>6 DEF Holds, CountedIn
<1> QED BY <1>2, <1>3

\* A step of one request, with or without the script executed for a key.
LEMMA OneRequestSteps ==
  ASSUME IInv, NEW r \in Requests, NEW q \in Request,
         \/ counters' = counters
         \/ \E k \in Keys : counters' = [counters EXCEPT ![k] = Incremented(k)],
         requests' = [requests EXCEPT ![r] = q], now' = now, RequestInv(q)'
  PROVE  /\ counters' \in [Keys -> Counter]
         /\ requests' \in [Requests -> Request]
         /\ \A s \in Requests : RequestInv(requests[s])'
         /\ \A x \in Keys : /\ CounterInv(x)' /\ Count(x)' >= Count(x)
                            /\ Pending(x)' \in SUBSET Requests
                            /\ Pending(x)' \ {r} = Pending(x) \ {r}
                            /\ r \in Pending(x)' <=> Holds(q, x, counters')
<1>1. /\ counters \in [Keys -> Counter] /\ requests \in [Requests -> Request] /\ now \in Nat
      /\ \A k \in Keys : CounterInv(k)
      /\ \A s \in Requests : RequestInv(requests[s])
  BY DEF IInv, TypeOK
<1>2. requests' \in [Requests -> Request]
  BY <1>1
<1>3. /\ counters' \in [Keys -> Counter]
      /\ \A x \in Keys : /\ counters[x].expires <= counters'[x].expires
                         /\ CounterInv(x)' /\ Count(x)' >= Count(x)
      /\ \A s \in Requests, x \in Keys :
           Holds(requests[s], x, counters') <=> Holds(requests[s], x, counters)
  <2>1. CASE counters' = counters
    BY <1>1, <2>1 DEF CounterInv, Count, Counter
  <2>2. ASSUME NEW k \in Keys, counters' = [counters EXCEPT ![k] = Incremented(k)]
        PROVE  <1>3!1 /\ <1>3!2 /\ <1>3!3
    <3>1. <1>3!1
      BY <1>1, <2>2, IncrementedCounter
    <3>2. ASSUME NEW x \in Keys
          PROVE  counters[x].expires <= counters'[x].expires /\ CounterInv(x)' /\ Count(x)' >= Count(x)
      <4>1. CASE x = k
        <5>1. counters'[x] = Incremented(k) /\ Count(k) \in Nat
          BY <1>1, <2>2, <4>1 DEF Count, Counter
        <5> QED BY <4>1, <5>1, <1>1, IncrementedCounter DEF CounterInv, Count, Counter
      <4>2. CASE x # k
        <5>1. counters'[x] = counters[x]
          BY <1>1, <2>2, <4>2
        <5>2. CounterInv(x) /\ counters[x] \in Counter
          BY <1>1
        <5> QED BY <5>1, <5>2 DEF CounterInv, Count, Counter
      <4> QED BY <4>1, <4>2
    <3>3. <1>3!3
      BY <2>2, SameHolders
    <3> QED BY <3>1, <3>2, <3>3
  <2> QED BY <2>1, <2>2
<1>4. ASSUME NEW s \in Requests
      PROVE  RequestInv(requests[s])'
  <2>1. CASE s = r
    <3>1. requests'[s] = q
      BY <1>1, <2>1
    <3> QED BY <3>1 DEF RequestInv
  <2>2. CASE s # r
    <3>1. requests'[s] = requests[s]
      BY <1>1, <2>2
    <3>2. requests[s] \in Request /\ RequestInv(requests[s])
      BY <1>1
    <3>3. ASSUME NEW k \in Keys
          PROVE  requests[s].windows[k] <= now \/ requests[s].windows[k] <= counters'[k].expires
      <4>1. requests[s].windows[k] \in Nat /\ counters[k].expires \in Nat /\ counters'[k].expires \in Nat
        BY <1>1, <1>3 DEF Request, Counter
      <4> QED BY <4>1, <3>2, <1>3 DEF RequestInv
    <3> QED BY <3>1, <3>2, <3>3 DEF RequestInv, OverBy
  <2> QED BY <2>1, <2>2
<1>5. ASSUME NEW x \in Keys
      PROVE  /\ Pending(x)' \in SUBSET Requests
             /\ Pending(x)' \ {r} = Pending(x) \ {r}
             /\ r \in Pending(x)' <=> Holds(q, x, counters')
  <2>1. Pending(x)' = {s \in Requests : Holds(requests'[s], x, counters')}
    BY DEF Pending, Holds, CountedIn
  <2>2. requests'[r] = q /\ \A s \in Requests \ {r} : requests'[s] = requests[s]
    BY <1>1
  <2> QED BY <2>1, <2>2, <1>3 DEF Pending
<1> QED BY <1>2, <1>3, <1>4, <1>5
-----------------------------------------------------------------------------
(* The initial states and the steps.                                       *)

LEMMA IdleRequest ==
  /\ Idle \in Request
  /\ \A t \in Nat : [Idle EXCEPT !.step = "admitted", !.at = t] \in Request
  /\ Idle.windows = [k \in Keys |-> 0] /\ Idle.exceeded = {} /\ Idle.retryAfter = 0
<1>1. <<>> \in Seq(Keys) /\ [k \in Keys |-> 0] \in [Keys -> Nat]
  OBVIOUS
<1>2. Idle \in Request
  BY <1>1 DEF Idle, Request
<1>3. ASSUME NEW t \in Nat
      PROVE  [Idle EXCEPT !.step = "admitted", !.at = t] \in Request
  BY <1>1 DEF Idle, Request
<1> QED BY <1>2, <1>3 DEF Idle

LEMMA InitInvariant == ASSUME Init PROVE IInv
<1>1. TypeOK
  BY IdleRequest DEF Init, TypeOK, Counter, NoCounter
<1>2. ASSUME NEW k \in Keys
      PROVE  CounterInv(k) /\ WithinLimit(k)
  <2>1. Pending(k) = {}
    BY DEF Init, Pending, Holds, Idle
  <2>2. admitted[k] = 0 /\ counters[k] = NoCounter /\ Count(k) = 0
    BY DEF Init, Count, NoCounter
  <2> QED BY <2>1, <2>2, FS_EmptySet, LimitAssumption DEF CounterInv, WithinLimit
<1>3. ASSUME NEW r \in Requests
      PROVE  RequestInv(requests[r])
  BY DEF Init, RequestInv, Idle
<1> QED BY <1>1, <1>2, <1>3 DEF IInv

\* The checks of a request that arrives.
LEMMA ArrivingChecks ==
  ASSUME NEW ip \in Ips \cup {"unknown"}, NEW sub \in Subs \cup {"none"}
  PROVE  /\ Checks(ip, sub) \in Seq(Keys)
         /\ Checks(ip, sub) # <<>> =>
              \/ \E k \in Keys : Checks(ip, sub) = <<k>>
              \/ \E i \in Ips, u \in Subs : Checks(ip, sub) = <<i, u>>
<1>1. CASE ip \in Ips /\ sub \in Subs
  <2>1. Checks(ip, sub) = <<ip, sub>>
    <3>1. Checks(ip, sub) = <<ip>> \o <<sub>>
      BY <1>1 DEF Checks
    <3>2. <<ip>> \in Seq(Keys) /\ <<sub>> \in Seq(Keys)
      BY <1>1 DEF Keys
    <3>3. /\ <<ip>> \o <<sub>> \in Seq(Keys) /\ Len(<<ip>> \o <<sub>>) = 2
          /\ (<<ip>> \o <<sub>>)[1] = ip /\ (<<ip>> \o <<sub>>)[2] = sub
      BY <3>2, ConcatProperties
    <3>4. <<ip, sub>> \in Seq(Keys) /\ Len(<<ip, sub>>) = 2
      BY <1>1 DEF Keys
    <3>5. \A i \in 1..2 : (<<ip>> \o <<sub>>)[i] = <<ip, sub>>[i]
      BY <3>3
    <3>6. <<ip>> \o <<sub>> = <<ip, sub>>
      BY <3>3, <3>4, <3>5, SeqEqual
    <3> QED BY <3>1, <3>6
  <2> QED BY <1>1, <2>1 DEF Keys
<1>2. CASE ip \in Ips /\ sub \notin Subs
  BY <1>2 DEF Checks, Keys
<1>3. CASE ip \notin Ips /\ sub \in Subs
  BY <1>3 DEF Checks, Keys
<1>4. CASE ip \notin Ips /\ sub \notin Subs
  BY <1>4 DEF Checks, Keys
<1> QED BY <1>1, <1>2, <1>3, <1>4

LEMMA ArriveStep ==
  ASSUME IInv, NEW r \in Requests, Arrive(r)
  PROVE  IInv'
<1>1. PICK ip \in Ips \cup {"unknown"}, sub \in Subs \cup {"none"} :
        requests' = [requests EXCEPT ![r] =
          IF Checks(ip, sub) = <<>> THEN [Idle EXCEPT !.step = "admitted", !.at = now]
          ELSE [Idle EXCEPT !.step = "check", !.checks = Checks(ip, sub)]]
  BY DEF Arrive
<1>2. now' = now /\ counters' = counters /\ admitted' = admitted /\ faults' = faults
      /\ requests[r].step # "check"
  BY DEF Arrive
<1>3. now \in Nat /\ faults \in Nat /\ admitted \in [Keys -> Nat] /\ counters \in [Keys -> Counter]
  BY DEF IInv, TypeOK
<1>4. PICK q : q = IF Checks(ip, sub) = <<>> THEN [Idle EXCEPT !.step = "admitted", !.at = now]
                   ELSE [Idle EXCEPT !.step = "check", !.checks = Checks(ip, sub)]
  OBVIOUS
<1>5. /\ q \in Request /\ q.step \in {"admitted", "check"} /\ q.windows = [k \in Keys |-> 0]
      /\ q.exceeded = {} /\ q.retryAfter = 0
      /\ q.step = "check" => q.checks = Checks(ip, sub) /\ Checks(ip, sub) # <<>>
  <2>1. CASE Checks(ip, sub) = <<>>
    BY <1>3, <1>4, <2>1, IdleRequest DEF Request, Idle
  <2>2. CASE Checks(ip, sub) # <<>>
    BY <1>4, <2>2, IdleRequest, ArrivingChecks DEF Request, Idle
  <2> QED BY <2>1, <2>2
<1>6. RequestInv(q)'
  <2>1. q.step = "check" => Unchecked(q)
    BY <1>5, ArrivingChecks DEF Unchecked, Keys
  <2>2. now' \in Nat /\ \A k \in Keys : q.windows[k] <= now'
    BY <1>2, <1>3, <1>5
  <2> QED BY <1>5, <2>1, <2>2 DEF RequestInv, OverBy
<1>7. \A x \in Keys : ~ Holds(q, x, counters')
  BY <1>5 DEF Holds, CountedIn
<1>8. requests' = [requests EXCEPT ![r] = q]
  BY <1>1, <1>4
<1>9. ASSUME NEW x \in Keys
      PROVE  WithinLimit(x)'
  <2>1. r \notin Pending(x)
    BY <1>2 DEF Pending, Holds
  <2>2. Pending(x)' = Pending(x)
    <3>1. Pending(x)' \ {r} = Pending(x) \ {r} /\ r \notin Pending(x)'
      BY <1>2, <1>5, <1>6, <1>7, <1>8, OneRequestSteps
    <3> QED BY <2>1, <3>1
  <2>3. WithinLimit(x)
    BY DEF IInv
  <2>4. Count(x)' = Count(x) /\ admitted'[x] = admitted[x]
    BY <1>2 DEF Count
  <2> QED BY <2>2, <2>3, <2>4 DEF WithinLimit
<1> QED BY <1>2, <1>3, <1>5, <1>6, <1>8, <1>9, OneRequestSteps DEF IInv, TypeOK

LEMMA FailOpenStep ==
  ASSUME IInv, NEW r \in Requests, FailOpen(r)
  PROVE  IInv'
<1>1. now \in Nat /\ faults \in Nat /\ admitted \in [Keys -> Nat] /\ requests[r] \in Request
      /\ RequestInv(requests[r])
  BY DEF IInv, TypeOK
<1>2. now' = now /\ admitted' = admitted /\ faults' \in Nat /\ requests[r].step = "check"
  BY <1>1 DEF FailOpen
<1>3. \/ counters' = counters
      \/ \E k \in Keys : counters' = [counters EXCEPT ![k] = Incremented(k)]
  BY <1>1, <1>2, NextKey DEF FailOpen, Executed, RequestInv
<1>4. PICK q : q = [Idle EXCEPT !.step = "admitted", !.at = now]
  OBVIOUS
<1>5. q \in Request /\ q.step = "admitted" /\ q.windows = [k \in Keys |-> 0]
      /\ q.exceeded = {} /\ q.retryAfter = 0
  BY <1>1, <1>4, IdleRequest DEF Idle
<1>6. RequestInv(q)'
  BY <1>1, <1>2, <1>5 DEF RequestInv
<1>7. \A x \in Keys : ~ Holds(q, x, counters')
  BY <1>5 DEF Holds
<1>8. requests' = [requests EXCEPT ![r] = q]
  BY <1>4 DEF FailOpen
<1>9. ASSUME NEW x \in Keys
      PROVE  WithinLimit(x)'
  <2>1. /\ Pending(x)' \in SUBSET Requests /\ Pending(x)' \ {r} = Pending(x) \ {r}
        /\ r \notin Pending(x)' /\ Count(x)' >= Count(x) /\ counters' \in [Keys -> Counter]
    BY <1>2, <1>3, <1>5, <1>6, <1>7, <1>8, OneRequestSteps
  <2>2. Cardinality(Pending(x)) \in Nat /\ Cardinality(Pending(x)') \in Nat
        /\ Cardinality(Pending(x)') <= Cardinality(Pending(x))
    <3>1. PICK A : A = Pending(x)
      OBVIOUS
    <3>2. PICK B : B = Pending(x)'
      OBVIOUS
    <3>3. A \in SUBSET Requests
      BY <3>1 DEF Pending
    <3> QED BY <2>1, <3>1, <3>2, <3>3, OneApart
  <2>3. WithinLimit(x) /\ Count(x) \in Nat /\ Limit[x] \in Nat
    BY LimitAssumption DEF IInv, TypeOK, Count, Counter
  <2>4. Count(x)' \in Nat /\ admitted[x] \in Nat
    BY <1>1, <2>1 DEF Count, Counter
  <2> QED BY <1>2, <2>1, <2>2, <2>3, <2>4 DEF WithinLimit
<1> QED BY <1>1, <1>2, <1>3, <1>5, <1>6, <1>8, <1>9, OneRequestSteps DEF IInv, TypeOK

\* The request after the script's answer for key k, and with its verdict.
Counted(q, k, c) ==
  [q EXCEPT !.checks = Tail(@),
            !.windows[k] = c.expires,
            !.exceeded = IF Over(c.count, k) THEN @ \cup {k} ELSE @,
            !.retryAfter = IF Over(c.count, k) THEN Wait(@, TtlSeconds(c)) ELSE @]

Decided(q) == [q EXCEPT !.at = now, !.step = IF q.retryAfter > 0 THEN "rejected" ELSE "admitted"]

\* What holds of it then.
AfterAnswer(q, k, c, p) ==
  /\ k \in Keys /\ p \in Request
  /\ p.step = "check" /\ p.checks = Tail(q.checks)
  /\ p.windows = [q.windows EXCEPT ![k] = c.expires]
  /\ p.exceeded = IF Over(c.count, k) THEN q.exceeded \cup {k} ELSE q.exceeded
  /\ p.retryAfter = 0 <=> p.exceeded = {}
  /\ \A x \in p.exceeded : p.windows[x] > 0
  /\ OverBy(p, now)
  /\ p.checks # <<>> => Unchecked(p)

\* A request that was counted waits long enough for every key it exceeded.
LEMMA CountedRequest ==
  ASSUME IInv, NEW q \in Request, RequestInv(q), q.step = "check",
         NEW k, k = Head(q.checks), NEW c, c = Incremented(k), NEW p, p = Counted(q, k, c)
  PROVE  AfterAnswer(q, k, c, p)
<1>1. Unchecked(q) /\ OverBy(q, now) /\ now \in Nat
  BY DEF RequestInv, IInv, TypeOK
<1>2. k \in Keys /\ q.windows[k] = 0 /\ Tail(q.checks) \in Seq(Keys)
  BY <1>1, NextKey
<1>3. c \in Counter /\ c.expires > now /\ k \notin q.exceeded
  BY <1>2, IncrementedCounter DEF RequestInv
<1>4. q.retryAfter \in Nat /\ q.windows \in [Keys -> Nat] /\ q.exceeded \in SUBSET Keys
  BY DEF Request
<1> DEFINE w == Wait(q.retryAfter, TtlSeconds(c))
<1>5. w \in Nat \ {0} /\ q.retryAfter <= w /\ c.expires <= now + w * Second + Second \div 2
  BY <1>1, <1>3, <1>4, WaitCovers
<1> HIDE DEF w
<1>6. /\ p \in Request /\ p.step = "check" /\ p.checks = Tail(q.checks)
      /\ p.windows = [q.windows EXCEPT ![k] = c.expires]
      /\ p.exceeded = IF Over(c.count, k) THEN q.exceeded \cup {k} ELSE q.exceeded
      /\ p.retryAfter = IF Over(c.count, k) THEN w ELSE q.retryAfter
  <2>1. [q.windows EXCEPT ![k] = c.expires] \in [Keys -> Nat]
    BY <1>2, <1>3, <1>4 DEF Counter
  <2>2. (IF Over(c.count, k) THEN w ELSE q.retryAfter) \in Nat
    BY <1>4, <1>5
  <2>3. (IF Over(c.count, k) THEN q.exceeded \cup {k} ELSE q.exceeded) \in SUBSET Keys
    BY <1>2, <1>4
  <2>4. /\ p.step = q.step /\ p.at = q.at /\ p.checks = Tail(q.checks)
        /\ p.windows = [q.windows EXCEPT ![k] = c.expires]
        /\ p.exceeded = IF Over(c.count, k) THEN q.exceeded \cup {k} ELSE q.exceeded
        /\ p.retryAfter = IF Over(c.count, k) THEN w ELSE q.retryAfter
        /\ p = [step |-> p.step, checks |-> p.checks, retryAfter |-> p.retryAfter,
                windows |-> p.windows, exceeded |-> p.exceeded, at |-> p.at]
    BY DEF Counted, Request, w
  <2>5. q.at \in Nat /\ q.step \in {"idle", "check", "admitted", "rejected"}
    BY DEF Request
  <2>6. p \in Request
    BY <1>2, <2>1, <2>2, <2>3, <2>4, <2>5 DEF Request
  <2> QED BY <2>4, <2>6
<1>7. p.retryAfter = 0 <=> p.exceeded = {}
  <2>1. CASE Over(c.count, k)
    BY <2>1, <1>5, <1>6
  <2>2. CASE ~ Over(c.count, k)
    BY <2>2, <1>6 DEF RequestInv
  <2> QED BY <2>1, <2>2
<1>8. ASSUME NEW x \in p.exceeded
      PROVE  p.windows[x] > 0 /\ p.windows[x] <= now + p.retryAfter * Second + Second \div 2
  <2>1. CASE x = k
    <3>1. Over(c.count, k)
      BY <1>3, <1>6, <2>1
    <3>2. p.windows[x] = c.expires /\ p.retryAfter = w
      BY <1>2, <1>4, <1>6, <2>1, <3>1
    <3> QED BY <3>2, <1>1, <1>3, <1>5 DEF Counter
  <2>2. CASE x # k
    <3>1. x \in q.exceeded
      BY <1>6, <2>2
    <3>2. /\ x \in Keys /\ q.windows[x] \in Nat /\ q.windows[x] > 0
          /\ q.windows[x] <= now + q.retryAfter * Second + Second \div 2
      BY <1>1, <1>4, <3>1 DEF RequestInv, OverBy
    <3>3. p.windows[x] = q.windows[x]
      BY <1>4, <1>6, <2>2, <3>2
    <3>4. p.retryAfter \in Nat /\ q.retryAfter <= p.retryAfter
      BY <1>4, <1>5, <1>6
    <3>5. /\ q.retryAfter * Second \in Nat /\ p.retryAfter * Second \in Nat
          /\ q.retryAfter * Second <= p.retryAfter * Second
      BY <1>4, <3>4, LongerWait
    <3> QED BY <1>1, <3>2, <3>3, <3>5, HalfSecond
  <2> QED BY <2>1, <2>2
<1>9. ASSUME p.checks # <<>>
      PROVE  Unchecked(p)
  <2>1. PICK u \in Keys : Tail(q.checks) = <<u>> /\ u # k /\ q.windows[u] = 0
    BY <1>1, <1>6, <1>9, NextKey
  <2>2. p.checks = <<u>> /\ p.windows[u] = 0
    BY <1>4, <1>6, <2>1
  <2> QED BY <2>2 DEF Unchecked
<1> QED BY <1>2, <1>6, <1>7, <1>8, <1>9 DEF AfterAnswer, OverBy

LEMMA CheckStep ==
  ASSUME IInv, NEW r \in Requests, Check(r)
  PROVE  IInv'
<1>1. PICK q : q = requests[r]
  OBVIOUS
<1>2. PICK k : k = Head(q.checks)
  OBVIOUS
<1>3. PICK c : c = Incremented(k)
  OBVIOUS
<1>4. PICK p : p = Counted(q, k, c)
  OBVIOUS
<1>5. PICK n : n = IF p.checks = <<>> THEN Decided(p) ELSE p
  OBVIOUS
<1>6. q \in Request /\ RequestInv(q) /\ q.step = "check"
  BY <1>1 DEF IInv, TypeOK, Check
<1>7. AfterAnswer(q, k, c, p)
  BY <1>2, <1>3, <1>4, <1>6, CountedRequest
<1> USE DEF AfterAnswer
<1>8. /\ now \in Nat /\ counters \in [Keys -> Counter] /\ admitted \in [Keys -> Nat] /\ faults \in Nat
      /\ c \in Counter /\ c.expires > now /\ c.count = Count(k) + 1
  BY <1>3, <1>7, IncrementedCounter DEF IInv, TypeOK
<1>9. /\ counters' = [counters EXCEPT ![k] = Incremented(k)] /\ counters'[k] = c
      /\ now' = now /\ faults' = faults
  BY <1>1, <1>2, <1>3, <1>7, <1>8 DEF Check, Executed
<1>10. /\ requests' = [requests EXCEPT ![r] = n]
       /\ admitted' = IF p.checks = <<>> /\ Decided(p).step = "admitted"
                      THEN [x \in Keys |-> admitted[x] +
                              IF x \in CountedIn(Decided(p), counters') THEN 1 ELSE 0]
                      ELSE admitted
  <2> DEFINE key == Head(requests[r].checks)
             counted == Counted(requests[r], key, counters'[key])
  <2>1. /\ requests' = [requests EXCEPT ![r] =
                          IF counted.checks = <<>> THEN Decided(counted) ELSE counted]
        /\ admitted' = IF counted.checks = <<>> /\ Decided(counted).step = "admitted"
                       THEN [x \in Keys |-> admitted[x] +
                               IF x \in CountedIn(Decided(counted), counters') THEN 1 ELSE 0]
                       ELSE admitted
    BY DEF Check, Counted, Decided
  <2>2. key = k /\ counters'[key] = c
    BY <1>1, <1>2, <1>9
  <2>3. counted = p
    BY <1>1, <1>4, <2>2
  <2> HIDE DEF counted
  <2> QED BY <1>5, <2>1, <2>3
<1>11. /\ n \in Request /\ n.windows = p.windows /\ n.exceeded = p.exceeded
       /\ n.retryAfter = p.retryAfter /\ n.checks = p.checks
       /\ p.checks # <<>> => n.step = "check"
       /\ p.checks = <<>> => n.at = now /\ n = Decided(p)
                             /\ n.step = IF p.exceeded # {} THEN "rejected" ELSE "admitted"
  <2>1. CASE p.checks = <<>>
    <3>1. p.retryAfter > 0 <=> p.exceeded # {}
      <4>1. p.retryAfter \in Nat
        BY <1>7 DEF Request
      <4> QED BY <1>7, <4>1
    <3> QED BY <1>5, <1>7, <1>8, <2>1, <3>1 DEF Decided, Request
  <2>2. CASE p.checks # <<>>
    BY <1>5, <1>7, <2>2
  <2> QED BY <2>1, <2>2
<1>12. RequestInv(n)'
  <2>1. ASSUME NEW x \in Keys
        PROVE  n.windows[x] <= now \/ n.windows[x] <= counters'[x].expires
    <3>1. CASE x = k
      <4>1. q.windows \in [Keys -> Nat] /\ c.expires \in Nat
        BY <1>6, <1>8 DEF Counter, Request
      <4>2. n.windows[x] = c.expires /\ counters'[x].expires = c.expires
        BY <1>7, <1>9, <1>11, <3>1, <4>1
      <4> QED BY <4>1, <4>2
    <3>2. CASE x # k
      <4>1. n.windows[x] = q.windows[x] /\ counters'[x] = counters[x]
        BY <1>6, <1>7, <1>8, <1>9, <1>11, <3>2 DEF Request
      <4> QED BY <4>1, <1>6 DEF RequestInv
    <3> QED BY <3>1, <3>2
  <2>2. n.step = "check" => Unchecked(n) /\ OverBy(n, now)
    BY <1>7, <1>11 DEF Unchecked, OverBy
  <2>3. n.step = "rejected" => OverBy(n, n.at)
    BY <1>7, <1>11 DEF OverBy
  <2> QED BY <1>7, <1>9, <1>11, <2>1, <2>2, <2>3 DEF RequestInv, OverBy
<1>13. /\ counters' \in [Keys -> Counter]
       /\ requests' \in [Requests -> Request]
       /\ \A s \in Requests : RequestInv(requests[s])'
       /\ \A x \in Keys : /\ CounterInv(x)' /\ Count(x)' >= Count(x)
                          /\ Pending(x)' \in SUBSET Requests
                          /\ Pending(x)' \ {r} = Pending(x) \ {r}
                          /\ r \in Pending(x)' <=> Holds(n, x, counters')
  BY <1>7, <1>9, <1>10, <1>11, <1>12, OneRequestSteps
<1>14. admitted' \in [Keys -> Nat]
  BY <1>8, <1>10
<1>15. ASSUME NEW x \in Keys
       PROVE  WithinLimit(x)'
  <2>1. PICK A : A = Pending(x)
    OBVIOUS
  <2>2. PICK B : B = Pending(x)'
    OBVIOUS
  <2>3. /\ Cardinality(A) \in Nat /\ Cardinality(B) \in Nat
        /\ Cardinality(B) + (IF r \in A THEN 1 ELSE 0) = Cardinality(A) + (IF r \in B THEN 1 ELSE 0)
    <3>1. A \in SUBSET Requests
      BY <2>1 DEF Pending
    <3> QED BY <1>13, <2>1, <2>2, <3>1, OneApart
  <2>4. /\ WithinLimit(x) /\ Count(x) \in Nat /\ Limit[x] \in Nat /\ admitted[x] \in Nat
        /\ Count(x)' \in Nat /\ Count(x)' >= Count(x)
    BY <1>8, <1>13, LimitAssumption DEF IInv, Count, Counter
  <2>5. r \in A <=> x \in CountedIn(q, counters) /\ x \notin q.exceeded
    BY <1>1, <1>6, <2>1 DEF Pending, Holds
  <2>6. r \in B <=> n.step = "check" /\ x \in CountedIn(n, counters') /\ x \notin n.exceeded
    BY <1>13, <2>2 DEF Holds
  <2>7. admitted'[x] = admitted[x] +
          IF p.checks = <<>> /\ p.exceeded = {} /\ x \in CountedIn(n, counters') THEN 1 ELSE 0
    BY <1>8, <1>10, <1>11
  <2>8. CASE x = k
    <3>1. r \notin A
      BY <1>2, <1>6, <2>5, <2>8, NextKey DEF CountedIn, RequestInv
    <3>2. k \in CountedIn(n, counters')
      BY <1>6, <1>7, <1>8, <1>9, <1>11 DEF CountedIn, Request, Counter
    <3>3. Count(k)' = Count(k) + 1
      BY <1>8, <1>9 DEF Count
    <3>4. CASE Over(c.count, k)
      <4>1. k \in n.exceeded /\ p.exceeded # {}
        BY <1>7, <1>11, <3>4
      <4>2. Cardinality(B) = Cardinality(A) /\ admitted'[x] = admitted[x]
        BY <2>3, <2>4, <2>6, <2>7, <2>8, <3>1, <4>1
      <4> QED BY <2>1, <2>2, <2>3, <2>4, <4>2 DEF WithinLimit
    <3>5. CASE ~ Over(c.count, k)
      <4>1. Count(x)' <= Limit[x]
        BY <1>8, <2>4, <2>8, <3>3, <3>5 DEF Over
      <4>2. admitted'[x] + Cardinality(B) <= admitted[x] + Cardinality(A) + 1
        BY <1>11, <2>3, <2>4, <2>6, <2>7, <3>1
      <4>3. admitted'[x] \in Nat
        BY <1>14
      <4>4. admitted[x] + Cardinality(A) <= Count(x)
        BY <2>1, <2>4 DEF WithinLimit
      <4> QED BY <2>2, <2>3, <2>4, <2>8, <3>3, <4>1, <4>2, <4>3, <4>4 DEF WithinLimit
    <3> QED BY <3>4, <3>5
  <2>9. CASE x # k
    <3>1. counters'[x] = counters[x] /\ n.windows[x] = q.windows[x]
      BY <1>6, <1>7, <1>8, <1>9, <1>11, <2>9 DEF Request
    <3>2. x \in CountedIn(n, counters') <=> x \in CountedIn(q, counters)
      BY <3>1 DEF CountedIn
    <3>3. x \in n.exceeded <=> x \in q.exceeded
      BY <1>7, <1>11, <2>9
    <3>4. admitted'[x] + Cardinality(B) <= admitted[x] + Cardinality(A)
      <4>1. CASE p.checks # <<>>
        BY <1>11, <2>3, <2>4, <2>5, <2>6, <2>7, <3>2, <3>3, <4>1
      <4>2. CASE p.checks = <<>> /\ p.exceeded = {}
        BY <1>11, <2>3, <2>4, <2>5, <2>6, <2>7, <3>2, <3>3, <4>2
      <4>3. CASE p.checks = <<>> /\ p.exceeded # {}
        BY <1>11, <2>3, <2>4, <2>5, <2>6, <2>7, <3>2, <3>3, <4>3
      <4> QED BY <4>1, <4>2, <4>3
    <3>5. admitted'[x] \in Nat
      BY <1>14
    <3> QED BY <2>1, <2>2, <2>3, <2>4, <3>4, <3>5 DEF WithinLimit
  <2> QED BY <2>8, <2>9
<1> QED BY <1>8, <1>9, <1>13, <1>14, <1>15 DEF IInv, TypeOK

LEMMA TickStep ==
  ASSUME IInv, Tick
  PROVE  IInv'
<1>1. PICK alive : alive = {k \in Existing : counters[k].expires > now + 1}
  OBVIOUS
<1>2. /\ now' = now + 1 /\ requests' = requests /\ faults' = faults
      /\ counters' = [k \in Keys |-> IF k \in alive THEN counters[k] ELSE NoCounter]
      /\ admitted' = [k \in Keys |-> IF k \in alive THEN admitted[k] ELSE 0]
  BY <1>1 DEF Tick
<1>3. /\ now \in Nat /\ faults \in Nat /\ admitted \in [Keys -> Nat] /\ counters \in [Keys -> Counter]
      /\ requests \in [Requests -> Request] /\ NoCounter \in Counter
      /\ alive \subseteq Keys
  BY <1>1 DEF IInv, TypeOK, Existing, Counter, NoCounter
<1>4. TypeOK'
  BY <1>2, <1>3 DEF TypeOK
<1>5. ASSUME NEW x \in Keys
      PROVE  CounterInv(x)' /\ WithinLimit(x)'
  <2>1. CounterInv(x) /\ WithinLimit(x) /\ counters[x] \in Counter /\ Limit[x] \in Nat
    BY <1>3, LimitAssumption DEF IInv
  <2>2. CASE x \in alive
    <3>1. counters'[x] = counters[x] /\ admitted'[x] = admitted[x]
      BY <1>2, <2>2
    <3>2. Pending(x)' = Pending(x)
      BY <1>2, <3>1 DEF Pending, Holds, CountedIn
    <3>3. counters[x].expires > now'
      BY <1>1, <1>2, <2>2
    <3> QED BY <2>1, <3>1, <3>2, <3>3 DEF CounterInv, WithinLimit, Count
  <2>3. CASE x \notin alive
    <3>1. counters'[x] = NoCounter /\ admitted'[x] = 0
      BY <1>2, <2>3
    <3>2. Pending(x)' = {}
      <4>1. ASSUME NEW s \in Requests, Holds(requests[s], x, counters')
            PROVE  FALSE
        <5>1. requests[s].windows[x] > 0 /\ requests[s].windows[x] = 0
          BY <3>1, <4>1 DEF Holds, CountedIn, NoCounter
        <5> QED BY <5>1
      <4>2. Pending(x)' = {s \in Requests : Holds(requests[s], x, counters')}
        BY <1>2 DEF Pending, Holds, CountedIn
      <4> QED BY <4>1, <4>2
    <3>3. Count(x)' = 0
      BY <3>1 DEF Count, NoCounter
    <3>4. Cardinality(Pending(x)') = 0
      BY <3>2, FS_EmptySet
    <3> QED BY <2>1, <3>1, <3>3, <3>4 DEF CounterInv, WithinLimit
  <2> QED BY <2>2, <2>3
<1>6. ASSUME NEW r \in Requests
      PROVE  RequestInv(requests[r])'
  <2>1. PICK q : q = requests[r]
    OBVIOUS
  <2>2. q \in Request /\ RequestInv(q) /\ requests'[r] = q
    BY <1>2, <2>1 DEF IInv, TypeOK
  <2>3. ASSUME NEW x \in Keys
        PROVE  q.windows[x] <= now' \/ q.windows[x] <= counters'[x].expires
    <3>1. /\ q.windows[x] \in Nat /\ counters[x] \in Counter
          /\ q.windows[x] <= now \/ q.windows[x] <= counters[x].expires
      BY <1>3, <2>2 DEF Request, RequestInv
    <3>2. CASE x \in alive
      BY <1>2, <1>3, <3>1, <3>2
    <3>3. CASE x \notin alive
      <4>1. counters[x].expires <= now + 1
        <5>1. CASE x \in Existing
          BY <1>1, <1>3, <3>1, <3>3, <5>1 DEF Counter
        <5>2. CASE x \notin Existing
          BY <1>3, <5>2 DEF Existing, NoCounter
        <5> QED BY <5>1, <5>2
      <4> QED BY <1>2, <1>3, <3>1, <4>1 DEF Counter
    <3> QED BY <3>2, <3>3
  <2>4. q.step = "check" => OverBy(q, now')
    <3>1. ASSUME q.step = "check", NEW x \in q.exceeded
          PROVE  q.windows[x] <= now' + q.retryAfter * Second + Second \div 2
      <4>1. x \in Keys /\ q.windows[x] \in Nat /\ q.retryAfter * Second \in Nat
        BY <2>2, LongerWait DEF Request
      <4>2. q.windows[x] <= now + q.retryAfter * Second + Second \div 2
        BY <2>2, <3>1 DEF RequestInv, OverBy
      <4> QED BY <1>2, <1>3, <4>1, <4>2, HalfSecond
    <3> QED BY <3>1 DEF OverBy
  <2>5. RequestInv(q)'
    BY <2>2, <2>3, <2>4 DEF RequestInv, OverBy
  <2> QED BY <2>2, <2>5 DEF RequestInv, OverBy
<1> QED BY <1>4, <1>5, <1>6 DEF IInv
-----------------------------------------------------------------------------
(* Theorems.                                                               *)

\* The rate limits stay consistent: a counter in Valkey is positive and not over
\* its time, the places of the requests not answered yet are reserved, and every
\* request that is told to wait is told long enough.
THEOREM LimitInvariant == Spec => []IInv
<1>1. Init => IInv
  BY InitInvariant
<1>2. IInv /\ [Next]_vars => IInv'
  <2> SUFFICES ASSUME IInv, [Next]_vars
               PROVE  IInv'
    OBVIOUS
  <2>1. CASE UNCHANGED vars
    BY <2>1 DEF vars, IInv, TypeOK, CounterInv, WithinLimit, Count, Pending, Holds, CountedIn,
                RequestInv, OverBy
  <2>2. CASE Tick
    BY <2>2, TickStep
  <2>3. ASSUME NEW r \in Requests, Arrive(r) \/ Check(r) \/ FailOpen(r)
        PROVE  IInv'
    BY <2>3, ArriveStep, CheckStep, FailOpenStep
  <2> QED BY <2>1, <2>2, <2>3 DEF Next
<1> QED BY <1>1, <1>2, PTL DEF Spec

\* However the requests of the tasks interleave between their two scripts, no
\* window of an IP address, an email, a token or a user admits more than its limit.
THEOREM LimitHolds == Spec => []LimitPerWindow
<1>1. IInv => LimitPerWindow
  <2> SUFFICES ASSUME IInv, NEW k \in Keys
               PROVE  admitted[k] <= Limit[k]
    BY DEF LimitPerWindow
  <2>1. IsFiniteSet(Pending(k))
    BY RequestsAssumption, FS_Subset DEF Pending
  <2>2. Cardinality(Pending(k)) \in Nat /\ admitted[k] \in Nat /\ Limit[k] \in Nat
    BY <2>1, FS_CardinalityType, LimitAssumption DEF IInv, TypeOK
  <2> QED BY <2>2 DEF IInv, WithinLimit
<1> QED BY <1>1, LimitInvariant, PTL

\* The Retry-After of a rejection covers the windows of all the keys it was over,
\* to the half second that TTL rounds away.
THEOREM WaitSuffices == Spec => []WaitIsLongEnough
<1>1. IInv => WaitIsLongEnough
  BY DEF IInv, RequestInv, OverBy, WaitIsLongEnough
<1> QED BY <1>1, LimitInvariant, PTL
=============================================================================
