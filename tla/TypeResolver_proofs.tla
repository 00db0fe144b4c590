-------------------------- MODULE TypeResolver_proofs --------------------------
(***************************************************************************)
(* Theorems about the plan cache, for any number of Events, purchases,     *)
(* loads and mode switches.  A plan on its way to a purchase, whether read *)
(* by a load, about to be primed or in the cache, was the database's since *)
(* a known time (WasTrueSince); and the token of a load decides whether it *)
(* is older than the last prime or invalidate of its Event.                *)
(***************************************************************************)
EXTENDS TypeResolver, Integers, TLAPS

-----------------------------------------------------------------------------
(* The inductive invariant.                                                *)

Entries == [event: Events, plan: Plans, expires: Nat, source: Nat]
Loads == [token: Nat \ {0}, event: Events, step: {"query", "answered", "settled"},
          plan: Plans, failed: BOOLEAN, began: Nat]
Calls == [step: {"idle", "waiting", "done"}, token: Nat,
          result: Plans \cup {"none", "failed"}, late: Int]

TypeOK ==
  /\ mode \in {"legacy", "ticket_type"} /\ count \in [Events -> 0..2]
  /\ switches \in Nat /\ wasTrue \in [Events -> [Plans -> Nat]] /\ now \in Nat
  /\ cache \in Seq(Entries)
  /\ inflight \in [Events -> Nat] /\ loadToken \in Nat /\ wiped \in [Events -> Nat]
  /\ loads \subseteq Loads
  /\ calls \in [Callers -> Calls]
  /\ creating \subseteq Events \X Nat

\* The cache is a Map: one entry per Event.
OneEntry(s) == \A i, j \in 1..Len(s) : s[i].event = s[j].event => i = j

\* The plan is the database's, or was at time t or later.
WasTrueSince(e, plan, t) == plan = Current(e) \/ t <= wasTrue[e][plan]

EntryInv(x) ==
  /\ x.source # 0 => x.source > wiped[x.event]
  /\ x.expires <= now + Ttl
  /\ WasTrueSince(x.event, x.plan, x.expires - (Ttl + MaxDelay))

LoadInv(l) ==
  /\ l.token <= loadToken
  /\ l.began <= now /\ now <= l.began + MaxDelay
  /\ l.step # "query" => WasTrueSince(l.event, l.plan, l.began)
  /\ l.step # "settled" => l.token = inflight[l.event] \/ l.token <= wiped[l.event]

TokenInv ==
  /\ \A l, m \in loads : l.token = m.token => l = m
  /\ \A e \in Events :
       /\ wiped[e] <= loadToken
       /\ inflight[e] # 0 => /\ inflight[e] > wiped[e]
                             /\ \E l \in loads : l.token = inflight[e] /\ l.event = e

CreationInv(x) ==
  x[2] <= now /\ now <= x[2] + MaxDelay /\ WasTrueSince(x[1], "single", x[2])

CacheInv == OneEntry(cache) /\ \A x \in Range(cache) : EntryInv(x)

IInv ==
  /\ TypeOK
  /\ CacheInv
  /\ \A l \in loads : LoadInv(l)
  /\ TokenInv
  /\ \A x \in creating : CreationInv(x)
  /\ StalenessBounded

-----------------------------------------------------------------------------
(* The Map.                                                                *)

\* A sequence that consists of others of a sequence of entries.
Within(s, rest) == /\ s \in Seq(Entries) /\ OneEntry(s)
                   /\ \A i \in 1..Len(s) : s[i] \in rest

LEMMA RangeOfSeq ==
  ASSUME NEW S, NEW s \in Seq(S)
  PROVE  Range(s) = {s[i] : i \in 1..Len(s)}
BY DEF Range

LEMMA OthersWithin ==
  ASSUME cache \in Seq(Entries), OneEntry(cache), NEW e
  PROVE  Within(Others(e), {x \in Range(cache) : x.event # e})
<1>1. Range(cache) = {cache[i] : i \in 1..Len(cache)}
  BY RangeOfSeq
<1>2. CASE Cached(e) = {}
  <2>1. Others(e) = cache
    BY <1>2 DEF Others
  <2>2. \A x \in Range(cache) : x.event # e
    BY <1>2 DEF Cached
  <2> QED BY <1>1, <2>1, <2>2 DEF Within
<1>3. CASE Cached(e) # {}
  <2> DEFINE p == Position(e)
             s == SubSeq(cache, 1, p - 1) \o SubSeq(cache, p + 1, Len(cache))
  <2>1. Others(e) = s
    BY <1>3 DEF Others
  <2>2. p \in 1..Len(cache) /\ cache[p].event = e
    BY <1>1, <1>3 DEF Cached, Position
  <2> HIDE DEF p
  <2>3. /\ s \in Seq(Entries) /\ Len(s) = Len(cache) - 1
        /\ \A i \in 1..Len(s) : s[i] = cache[IF i < p THEN i ELSE i + 1]
    <3> DEFINE a == SubSeq(cache, 1, p - 1)
               b == SubSeq(cache, p + 1, Len(cache))
    <3>1. /\ a \in Seq(Entries) /\ Len(a) = p - 1
          /\ \A i \in 1..p - 1 : a[i] = cache[i]
      BY <2>2
    <3>2. /\ b \in Seq(Entries) /\ Len(b) = Len(cache) - p
          /\ \A i \in 1..Len(cache) - p : b[i] = cache[p + i]
      BY <2>2
    <3>3. p \in Nat /\ Len(cache) \in Nat /\ p <= Len(cache) /\ 1 <= p
      BY <2>2
    <3> HIDE DEF a, b
    <3>4. /\ a \o b \in Seq(Entries) /\ Len(a \o b) = Len(cache) - 1
          /\ \A i \in 1..Len(cache) - 1 :
               (a \o b)[i] = IF i <= p - 1 THEN a[i] ELSE b[i - (p - 1)]
      <4>1. /\ a \o b \in Seq(Entries) /\ Len(a \o b) = Len(a) + Len(b)
            /\ \A i \in 1..Len(a) + Len(b) :
                 (a \o b)[i] = IF i <= Len(a) THEN a[i] ELSE b[i - Len(a)]
        <5>1. a \o b \in Seq(Entries) /\ Len(a \o b) = Len(a) + Len(b)
          BY <3>1, <3>2
        <5>2. ASSUME NEW i \in 1..Len(a) + Len(b)
              PROVE  (a \o b)[i] = IF i <= Len(a) THEN a[i] ELSE b[i - Len(a)]
          BY <3>1, <3>2
        <5> QED BY <5>1, <5>2
      <4> QED BY <3>1, <3>2, <3>3, <4>1
    <3>5. ASSUME NEW i \in 1..Len(cache) - 1
          PROVE  (a \o b)[i] = cache[IF i < p THEN i ELSE i + 1]
      <4>1. CASE i < p
        <5>1. i \in 1..p - 1 /\ i <= p - 1
          BY <3>3, <4>1
        <5>2. (a \o b)[i] = a[i]
          BY <3>4, <5>1
        <5> QED BY <3>1, <4>1, <5>1, <5>2
      <4>2. CASE ~(i < p)
        <5>1. ~(i <= p - 1) /\ i - (p - 1) \in 1..Len(cache) - p /\ p + (i - (p - 1)) = i + 1
          BY <3>3, <4>2
        <5>2. (a \o b)[i] = b[i - (p - 1)]
          BY <3>4, <5>1
        <5>3. b[i - (p - 1)] = cache[i + 1]
          BY <3>2, <5>1
        <5> QED BY <4>2, <5>2, <5>3
      <4> QED BY <4>1, <4>2
    <3> QED BY <3>4, <3>5 DEF a, b
  <2> HIDE DEF s
  <2>4. ASSUME NEW i \in 1..Len(s)
        PROVE  \E j \in 1..Len(cache) \ {p} : s[i] = cache[j]
    <3> DEFINE j == IF i < p THEN i ELSE i + 1
    <3>1. j \in 1..Len(cache) \ {p} /\ s[i] = cache[j]
      BY <2>2, <2>3
    <3> QED BY <3>1
  <2>5. OneEntry(s)
    <3> SUFFICES ASSUME NEW i \in 1..Len(s), NEW j \in 1..Len(s), s[i].event = s[j].event
                 PROVE  i = j
      BY DEF OneEntry
    <3> DEFINE k == IF i < p THEN i ELSE i + 1
               m == IF j < p THEN j ELSE j + 1
    <3>1. k \in 1..Len(cache) /\ m \in 1..Len(cache) /\ s[i] = cache[k] /\ s[j] = cache[m]
      BY <2>2, <2>3
    <3>2. k = m
      BY <3>1 DEF OneEntry
    <3> QED BY <2>2, <3>2
  <2>6. \A i \in 1..Len(s) : s[i] \in Range(cache) /\ s[i].event # e
    BY <1>1, <2>2, <2>4 DEF OneEntry
  <2> QED BY <2>1, <2>3, <2>5, <2>6 DEF Within, s
<1> QED BY <1>2, <1>3

LEMMA AppendWithin ==
  ASSUME NEW s, NEW rest, NEW x \in Entries,
         Within(s, rest), \A y \in rest : y.event # x.event
  PROVE  Within(Append(s, x), rest \cup {x})
<1> DEFINE a == Append(s, x)
<1>1. /\ s \in Seq(Entries) /\ a \in Seq(Entries) /\ Len(a) = Len(s) + 1
      /\ \A i \in 1..Len(s) : a[i] = s[i] /\ a[i] \in rest
      /\ a[Len(s) + 1] = x
  BY DEF Within
<1> HIDE DEF a
<1>2. \A i \in 1..Len(a) : i \in 1..Len(s) \/ i = Len(s) + 1
  BY <1>1
<1>3. OneEntry(a)
  BY <1>1, <1>2 DEF OneEntry, Within
<1>4. \A i \in 1..Len(a) : a[i] \in rest \cup {x}
  BY <1>1, <1>2
<1> QED BY <1>1, <1>3, <1>4 DEF Within, a

LEMMA TailWithin ==
  ASSUME NEW s, NEW rest, Within(s, rest), Len(s) > 0
  PROVE  Within(Tail(s), rest)
<1>1. /\ s \in Seq(Entries) /\ Tail(s) \in Seq(Entries) /\ Len(Tail(s)) = Len(s) - 1
      /\ \A i \in 1..Len(Tail(s)) : Tail(s)[i] = s[i + 1] /\ i + 1 \in 1..Len(s)
  BY DEF Within
<1>2. OneEntry(Tail(s))
  BY <1>1 DEF OneEntry, Within
<1> QED BY <1>1, <1>2 DEF Within

\* The entries of other Events stay, and the new one comes to them.
LEMMA StoredWithin ==
  ASSUME cache \in Seq(Entries), OneEntry(cache), NEW x \in Entries
  PROVE  LET rest == {y \in Range(cache) : y.event # x.event}
         IN  Within(Stored(x), rest \cup {x}) /\ Within(Touched(x), rest \cup {x})
<1> DEFINE rest == {y \in Range(cache) : y.event # x.event}
           all == Append(Others(x.event), x)
<1>1. Within(all, rest \cup {x})
  BY OthersWithin, AppendWithin
<1>2. Len(all) > MaxEntries => Len(all) > 0
  BY <1>1, ResolverAssumption DEF Within
<1>3. Within(Stored(x), rest \cup {x})
  BY <1>1, <1>2, TailWithin DEF Stored
<1> QED BY <1>1, <1>3 DEF Touched

\* What a step does to the cache as a whole.
LEMMA CacheKept ==
  ASSUME NEW rest, Within(cache', rest), \A x \in rest : EntryInv(x)'
  PROVE  CacheInv' /\ cache' \in Seq(Entries)
<1>1. Range(cache)' \subseteq rest
  BY DEF Range, Within
<1> QED BY <1>1 DEF Within, CacheInv

LEMMA CachedEntry ==
  ASSUME IInv, NEW x \in Range(cache)
  PROVE  x \in Entries /\ EntryInv(x)
BY RangeOfSeq DEF IInv, TypeOK, CacheInv

-----------------------------------------------------------------------------
(* Plans and the times since when they were right.                         *)

LEMMA NumberTypes ==
  ASSUME TypeOK
  PROVE  /\ Ttl \in Nat \ {0} /\ MaxDelay \in Nat /\ now \in Nat
         /\ \A e \in Events :
              /\ Current(e) \in Plans /\ inflight[e] \in Nat /\ wiped[e] \in Nat
              /\ \A plan \in Plans : wasTrue[e][plan] \in Nat /\ Lateness(e, plan) \in Int
<1>1. Ttl \in Nat \ {0} /\ MaxDelay \in Nat /\ now \in Nat
  BY ResolverAssumption DEF TypeOK
<1>2. ASSUME NEW e \in Events
      PROVE  /\ Current(e) \in Plans /\ inflight[e] \in Nat /\ wiped[e] \in Nat
             /\ \A plan \in Plans : wasTrue[e][plan] \in Nat /\ Lateness(e, plan) \in Int
  <2>1. Current(e) \in Plans /\ inflight[e] \in Nat /\ wiped[e] \in Nat
    BY DEF Current, PlanOf, Plans, TypeOK
  <2>2. ASSUME NEW plan \in Plans
        PROVE  wasTrue[e][plan] \in Nat /\ Lateness(e, plan) \in Int
    BY <1>1 DEF TypeOK, Lateness
  <2> QED BY <2>1, <2>2
<1> QED BY <1>1, <1>2

\* A plan that was right at some time or later stays so.
SinceKept ==
  \A e \in Events, plan \in Plans, t \in Int :
    t <= now /\ WasTrueSince(e, plan, t) => WasTrueSince(e, plan, t)'

LEMMA RememberKeeps ==
  ASSUME TypeOK, Remember
  PROVE  SinceKept /\ wasTrue' \in [Events -> [Plans -> Nat]]
<1>1. ASSUME NEW e \in Events
      PROVE  /\ wasTrue'[e] = [wasTrue[e] EXCEPT ![Current(e)] = now]
             /\ wasTrue[e] \in [Plans -> Nat] /\ Current(e) \in Plans /\ now \in Nat
  BY NumberTypes DEF Remember, TypeOK
<1>2. ASSUME NEW e \in Events, NEW plan \in Plans, NEW t \in Int,
             t <= now, WasTrueSince(e, plan, t)
      PROVE  WasTrueSince(e, plan, t)'
  <2>1. t <= wasTrue'[e][plan]
    <3>1. CASE plan = Current(e)
      <4>1. wasTrue'[e][plan] = now
        BY <1>1, <3>1
      <4> QED BY <1>2, <4>1
    <3>2. CASE plan # Current(e)
      <4>1. wasTrue'[e][plan] = wasTrue[e][plan]
        BY <1>1, <3>2
      <4> QED BY <1>2, <3>2, <4>1 DEF WasTrueSince
    <3> QED BY <3>1, <3>2
  <2> QED BY <2>1 DEF WasTrueSince
<1>3. wasTrue' \in [Events -> [Plans -> Nat]]
  BY <1>1 DEF Remember
<1> QED BY <1>2, <1>3 DEF SinceKept

LEMMA DatabaseKeeps ==
  ASSUME UNCHANGED database
  PROVE  SinceKept
BY DEF database, SinceKept, WasTrueSince, Current

LEMMA EntryKept ==
  ASSUME TypeOK, now' \in Nat, now <= now', SinceKept,
         NEW x \in Entries, EntryInv(x), wiped'[x.event] = wiped[x.event]
  PROVE  EntryInv(x)'
<1>1. x.event \in Events /\ x.plan \in Plans /\ x.expires \in Nat
  BY DEF Entries
<1>2. now \in Nat /\ Ttl \in Nat /\ MaxDelay \in Nat
  BY NumberTypes DEF TypeOK
<1>3. /\ x.expires - (Ttl + MaxDelay) \in Int
      /\ x.expires - (Ttl + MaxDelay) <= now
  BY <1>1, <1>2 DEF EntryInv
<1>4. WasTrueSince(x.event, x.plan, x.expires - (Ttl + MaxDelay))'
  BY <1>1, <1>3 DEF EntryInv, SinceKept
<1> QED BY <1>1, <1>2, <1>4 DEF EntryInv

LEMMA LoadKept ==
  ASSUME TypeOK, now' = now, SinceKept, loadToken' \in Nat, loadToken <= loadToken',
         NEW l \in Loads, LoadInv(l),
         l.step # "settled" => l.token = inflight'[l.event] \/ l.token <= wiped'[l.event]
  PROVE  LoadInv(l)'
<1>1. /\ l.event \in Events /\ l.plan \in Plans /\ l.began \in Int /\ l.token \in Nat
      /\ loadToken \in Nat
  BY DEF Loads, TypeOK
<1>2. l.step # "query" => WasTrueSince(l.event, l.plan, l.began)'
  BY <1>1 DEF LoadInv, SinceKept
<1> QED BY <1>1, <1>2 DEF LoadInv

LEMMA CreationKept ==
  ASSUME TypeOK, now' = now, SinceKept, NEW x \in Events \X Nat, CreationInv(x)
  PROVE  CreationInv(x)'
<1>1. x[1] \in Events /\ x[2] \in Int /\ "single" \in Plans
  BY DEF Plans
<1> QED BY <1>1 DEF CreationInv, SinceKept

LEMMA OtherCalls ==
  /\ NoCall \in Calls /\ NoCall.late = 0
  /\ Rejected \in Calls /\ Rejected.late = 0
  /\ \A token \in Nat : WaitsFor(token) \in Calls /\ WaitsFor(token).late = 0
<1>1. NoCall \in Calls /\ NoCall.late = 0
  BY DEF NoCall, Calls
<1>2. Rejected \in Calls /\ Rejected.late = 0
  BY <1>1 DEF Rejected, Calls
<1>3. \A token \in Nat : WaitsFor(token) \in Calls /\ WaitsFor(token).late = 0
  BY <1>1 DEF WaitsFor, Calls
<1> QED BY <1>1, <1>2, <1>3

\* A plan that was right in time is answered in time.
LEMMA AnsweredInTime ==
  ASSUME TypeOK, NEW e \in Events, NEW plan \in Plans, NEW t \in Int,
         WasTrueSince(e, plan, t), now < t + (Ttl + MaxDelay)
  PROVE  Answered(e, plan) \in Calls /\ Answered(e, plan).late < Ttl + MaxDelay
<1>1. Lateness(e, plan) \in Int /\ now \in Nat /\ wasTrue[e][plan] \in Nat
  BY NumberTypes
<1>2. Lateness(e, plan) < Ttl + MaxDelay
  BY <1>1, NumberTypes DEF WasTrueSince, Lateness
<1> QED BY <1>1, <1>2, OtherCalls DEF Answered, Calls

LEMMA OutcomeInTime ==
  ASSUME TypeOK, NEW l \in loads, LoadInv(l), l.step # "query"
  PROVE  Outcome(l) \in Calls /\ Outcome(l).late < Ttl + MaxDelay
<1>1. l.event \in Events /\ l.plan \in Plans /\ l.began \in Int
  BY DEF TypeOK, Loads
<1>2. WasTrueSince(l.event, l.plan, l.began) /\ now <= l.began + MaxDelay
  BY DEF LoadInv
<1>3. Ttl \in Nat \ {0} /\ MaxDelay \in Nat /\ now \in Nat
  BY NumberTypes
<1>4. now < l.began + (Ttl + MaxDelay)
  BY <1>1, <1>2, <1>3
<1> QED BY <1>1, <1>2, <1>4, AnsweredInTime, OtherCalls, NumberTypes DEF Outcome

-----------------------------------------------------------------------------
(* The database and the clock.                                             *)

\* Steps that leave the cache and the loads alone.
LEMMA ProcessUntouched ==
  ASSUME IInv, TypeOK', SinceKept,
         UNCHANGED <<now, cache, inflight, loadToken, loads, calls, wiped>>,
         \A x \in creating' : x \in creating \/ CreationInv(x)'
  PROVE  IInv'
<1>1. now \in Nat /\ now <= now'
  BY DEF IInv, TypeOK
<1>2. CacheInv'
  <2>1. \A x \in Range(cache) : EntryInv(x)'
    BY <1>1, CachedEntry, EntryKept DEF IInv
  <2> QED BY <2>1 DEF IInv, CacheInv, OneEntry
<1>3. \A l \in loads : LoadInv(l)'
  <2>1. loadToken' \in Nat /\ loadToken <= loadToken' /\ loads \subseteq Loads
    BY DEF IInv, TypeOK
  <2>2. ASSUME NEW l \in loads PROVE LoadInv(l)'
    <3>1. l.step # "settled" => l.token = inflight'[l.event] \/ l.token <= wiped'[l.event]
      BY DEF IInv, LoadInv
    <3> QED BY <2>1, <3>1, LoadKept DEF IInv
  <2> QED BY <2>2
<1>4. TokenInv' /\ StalenessBounded'
  BY DEF IInv, TokenInv, StalenessBounded
<1>5. \A x \in creating' : CreationInv(x)'
  BY CreationKept DEF IInv, TypeOK
<1> QED BY <1>2, <1>3, <1>4, <1>5 DEF IInv

LEMMA CreateEventKeepsInv ==
  ASSUME IInv, NEW e \in Events, CreateEvent(e)
  PROVE  IInv'
<1>1. UNCHANGED <<mode, switches, now, cache, inflight, loadToken, loads, calls, wiped>>
  BY DEF CreateEvent
<1>2. SinceKept /\ wasTrue' \in [Events -> [Plans -> Nat]]
  BY RememberKeeps DEF CreateEvent, IInv
<1>3. TypeOK'
  <2>1. count' \in [Events -> 0..2]
    BY DEF CreateEvent, IInv, TypeOK
  <2>2. creating' \subseteq Events \X Nat
    BY DEF CreateEvent, IInv, TypeOK
  <2> QED BY <1>1, <1>2, <2>1, <2>2 DEF IInv, TypeOK
<1>4. ASSUME NEW x \in creating', x \notin creating
      PROVE  CreationInv(x)'
  <2>1. x = <<e, now>> /\ mode = "ticket_type" /\ count'[e] = 1
    BY <1>4 DEF CreateEvent, IInv, TypeOK
  <2>2. Current(e)' = "single"
    BY <1>1, <2>1 DEF Current, PlanOf
  <2>3. now \in Nat /\ MaxDelay \in Nat
    BY NumberTypes DEF IInv
  <2> QED BY <1>1, <2>1, <2>2, <2>3 DEF CreationInv, WasTrueSince
<1> QED BY <1>1, <1>2, <1>3, <1>4, ProcessUntouched

LEMMA OutOfBandKeepsInv ==
  ASSUME IInv, (\E e \in Events : AddTicketType(e)) \/ SwitchMode
  PROVE  IInv'
<1>1. UNCHANGED <<now, process>> /\ Remember
  BY DEF AddTicketType, SwitchMode
<1>2. SinceKept /\ wasTrue' \in [Events -> [Plans -> Nat]]
  BY <1>1, RememberKeeps DEF IInv
<1>3. TypeOK'
  <2>1. /\ mode' \in {"legacy", "ticket_type"} /\ switches' \in Nat
        /\ count' \in [Events -> 0..2]
    <3>1. CASE SwitchMode
      BY <3>1 DEF SwitchMode, IInv, TypeOK
    <3>2. CASE \E e \in Events : AddTicketType(e)
      BY <3>2 DEF AddTicketType, IInv, TypeOK
    <3> QED BY <3>1, <3>2
  <2> QED BY <1>1, <1>2, <2>1 DEF process, IInv, TypeOK
<1> QED BY <1>1, <1>2, <1>3, ProcessUntouched DEF process

LEMMA TickKeepsInv ==
  ASSUME IInv, Tick
  PROVE  IInv'
<1>1. /\ UNCHANGED <<database, process>> /\ now' = now + 1
      /\ \A l \in loads : now < l.began + MaxDelay
      /\ \A x \in creating : now < x[2] + MaxDelay
  BY DEF Tick
<1>2. TypeOK'
  BY <1>1 DEF IInv, TypeOK, database, process
<1>3. SinceKept /\ now \in Nat /\ MaxDelay \in Nat
  BY <1>1, DatabaseKeeps, NumberTypes DEF IInv
<1>4. CacheInv'
  <2>1. \A x \in Range(cache) : EntryInv(x)'
    BY <1>1, <1>3, CachedEntry, EntryKept DEF IInv, process
  <2> QED BY <1>1, <2>1 DEF IInv, CacheInv, OneEntry, process
<1>5. ASSUME NEW l \in loads PROVE LoadInv(l)'
  <2>1. l.began \in Nat
    BY DEF IInv, TypeOK, Loads
  <2> QED BY <1>1, <1>3, <2>1 DEF IInv, LoadInv, WasTrueSince, Current, database, process
<1>6. ASSUME NEW x \in creating PROVE CreationInv(x)'
  <2>1. x[2] \in Nat
    BY DEF IInv, TypeOK
  <2> QED BY <1>1, <1>3, <2>1 DEF IInv, CreationInv, WasTrueSince, Current, database
<1>7. TokenInv' /\ StalenessBounded'
  BY <1>1 DEF IInv, TokenInv, StalenessBounded, process
<1> QED BY <1>1, <1>2, <1>4, <1>5, <1>6, <1>7 DEF IInv, process

-----------------------------------------------------------------------------
(* Purchases.                                                              *)

\* Steps of the process that happen at once and leave the database alone.
LEMMA ProcessStep ==
  ASSUME IInv, UNCHANGED <<database, now, switches>>, creating' \subseteq creating,
         TypeOK', CacheInv', \A l \in loads' : LoadInv(l)', TokenInv', StalenessBounded'
  PROVE  IInv'
<1>1. \A x \in creating' : CreationInv(x)'
  BY DatabaseKeeps, CreationKept DEF IInv, TypeOK
<1> QED BY <1>1 DEF IInv

\* What is not touched of them.
LEMMA LoadsUntouched ==
  ASSUME IInv, UNCHANGED <<database, now, inflight, loadToken, loads, wiped>>
  PROVE  (\A l \in loads' : LoadInv(l)') /\ TokenInv'
<1>1. \A l \in loads : LoadInv(l)'
  BY DEF IInv, LoadInv, WasTrueSince, Current, database
<1>2. TokenInv'
  BY DEF IInv, TokenInv
<1> QED BY <1>1, <1>2

\* Entries of the cache, and one more, in a step of the process.
LEMMA CacheStep ==
  ASSUME IInv, UNCHANGED <<database, now>>, NEW e \in Events,
         \A u \in Events \ {e} : wiped'[u] = wiped[u],
         NEW rest, Within(cache', rest),
         \A x \in rest : (x \in Range(cache) /\ x.event # e) \/ EntryInv(x)'
  PROVE  CacheInv' /\ cache' \in Seq(Entries)
<1>1. now \in Nat /\ now' = now
  BY DEF IInv, TypeOK
<1>2. ASSUME NEW x \in Range(cache), x.event # e PROVE EntryInv(x)'
  <2>1. x \in Entries /\ EntryInv(x) /\ x.event \in Events
    BY CachedEntry DEF Entries
  <2> QED BY <1>1, <1>2, <2>1, DatabaseKeeps, EntryKept DEF IInv
<1> QED BY <1>2, CacheKept

\* A call that changes, with an answer in time.
LEMMA OneCall ==
  ASSUME IInv, NEW c \in Callers, NEW answer \in Calls, answer.late < Ttl + MaxDelay,
         calls' = [calls EXCEPT ![c] = answer]
  PROVE  calls' \in [Callers -> Calls] /\ StalenessBounded'
BY DEF IInv, TypeOK, StalenessBounded

LEMMA HitKeepsInv ==
  ASSUME IInv, NEW c \in Callers, NEW e \in Events, Hit(c, e)
  PROVE  IInv'
<1>1. PICK x \in Cached(e) : /\ x.expires > now /\ cache' = Touched(x)
                             /\ calls' = [calls EXCEPT ![c] = Answered(e, x.plan)]
  BY DEF Hit
<1>2. UNCHANGED <<database, now, inflight, loadToken, loads, wiped, creating>>
  BY DEF Hit
<1>3. x \in Entries /\ EntryInv(x) /\ x.event = e /\ x.plan \in Plans /\ x.expires \in Nat
  BY CachedEntry DEF Cached, Entries
<1>4. CacheInv' /\ cache' \in Seq(Entries)
  <2>1. Within(cache', {y \in Range(cache) : y.event # e} \cup {x})
    BY <1>1, <1>3, StoredWithin DEF IInv, TypeOK, CacheInv
  <2>2. EntryInv(x)'
    BY <1>2, <1>3, DatabaseKeeps, EntryKept DEF IInv, TypeOK
  <2> QED BY <1>2, <2>1, <2>2, CacheStep
<1>5. calls' \in [Callers -> Calls] /\ StalenessBounded'
  <2> DEFINE t == x.expires - (Ttl + MaxDelay)
  <2>1. t \in Int /\ now < t + (Ttl + MaxDelay) /\ WasTrueSince(e, x.plan, t)
    BY <1>1, <1>3, NumberTypes DEF IInv, EntryInv
  <2>2. Answered(e, x.plan) \in Calls /\ Answered(e, x.plan).late < Ttl + MaxDelay
    BY <1>3, <2>1, AnsweredInTime DEF IInv
  <2> QED BY <1>1, <2>2, OneCall
<1>6. TypeOK'
  BY <1>2, <1>4, <1>5 DEF IInv, TypeOK, database
<1> QED BY <1>2, <1>4, <1>5, <1>6, LoadsUntouched, ProcessStep DEF database

\* A miss deletes an entry at most.
LEMMA MissedKeepsCache ==
  ASSUME IInv, NEW e \in Events, Missed(e), UNCHANGED <<database, now, wiped>>
  PROVE  CacheInv' /\ cache' \in Seq(Entries)
<1>1. Within(cache', {y \in Range(cache) : y.event # e})
  BY OthersWithin DEF Missed, IInv, TypeOK, CacheInv
<1> QED BY <1>1, CacheStep

LEMMA JoinKeepsInv ==
  ASSUME IInv, NEW c \in Callers, NEW e \in Events, Join(c, e)
  PROVE  IInv'
<1>1. PICK l \in loads : calls' = [calls EXCEPT ![c] = IF l.step = "settled" THEN Outcome(l)
                                                       ELSE WaitsFor(l.token)]
  BY DEF Join
<1>2. UNCHANGED <<database, now, inflight, loadToken, loads, wiped, creating>> /\ Missed(e)
  BY DEF Join
<1>3. calls' \in [Callers -> Calls] /\ StalenessBounded'
  <2>1. l.token \in Nat /\ LoadInv(l) /\ TypeOK
    BY DEF IInv, TypeOK, Loads
  <2>2. CASE l.step = "settled"
    BY <1>1, <2>1, <2>2, OutcomeInTime, OneCall
  <2>3. CASE l.step # "settled"
    <3>1. WaitsFor(l.token) \in Calls /\ WaitsFor(l.token).late < Ttl + MaxDelay
      BY <2>1, OtherCalls, NumberTypes
    <3> QED BY <1>1, <2>3, <3>1, OneCall
  <2> QED BY <2>2, <2>3
<1>4. CacheInv' /\ cache' \in Seq(Entries)
  BY <1>2, MissedKeepsCache
<1>5. TypeOK'
  BY <1>2, <1>3, <1>4 DEF IInv, TypeOK, database
<1> QED BY <1>2, <1>3, <1>4, <1>5, LoadsUntouched, ProcessStep DEF database

LEMMA StartLoadKeepsInv ==
  ASSUME IInv, NEW c \in Callers, NEW e \in Events, StartLoad(c, e)
  PROVE  IInv'
<1>a. PICK token : token = loadToken + 1
  OBVIOUS
<1>b. PICK new : new = [token |-> token, event |-> e, step |-> "query", plan |-> "legacy",
                        failed |-> FALSE, began |-> now]
  OBVIOUS
<1>1. /\ UNCHANGED <<database, now, wiped, creating>> /\ Missed(e)
      /\ inflight[e] = 0 /\ loadToken' = token
      /\ loads' = loads \cup {new} /\ inflight' = [inflight EXCEPT ![e] = token]
      /\ calls' = [calls EXCEPT ![c] = WaitsFor(token)]
  BY <1>a, <1>b DEF StartLoad
<1>2. loadToken \in Nat /\ now \in Nat /\ MaxDelay \in Nat /\ token \in Nat \ {0}
  BY <1>a, NumberTypes DEF IInv, TypeOK
<1>3. calls' \in [Callers -> Calls] /\ StalenessBounded'
  <2>1. WaitsFor(token) \in Calls /\ WaitsFor(token).late < Ttl + MaxDelay
    BY <1>2, OtherCalls, NumberTypes DEF IInv
  <2> QED BY <1>1, <2>1, OneCall
<1>4. CacheInv' /\ cache' \in Seq(Entries)
  BY <1>1, MissedKeepsCache
<1>5. /\ inflight'[e] = token /\ inflight' \in [Events -> Nat]
      /\ \A u \in Events \ {e} : inflight'[u] = inflight[u]
  BY <1>1, <1>2 DEF IInv, TypeOK
<1>6. /\ new \in Loads /\ new.token = token /\ new.event = e
      /\ new.step = "query" /\ new.began = now
  BY <1>2, <1>b DEF Loads, Plans
<1>7. TypeOK'
  BY <1>1, <1>2, <1>3, <1>4, <1>5, <1>6 DEF IInv, TypeOK, database
<1>8. ASSUME NEW l \in loads PROVE LoadInv(l)'
  <2>1. /\ l \in Loads /\ LoadInv(l) /\ l.event \in Events /\ l.token # 0
    BY DEF IInv, TypeOK, Loads
  <2>2. l.step # "settled" => l.token = inflight'[l.event] \/ l.token <= wiped'[l.event]
    BY <1>1, <1>5, <2>1 DEF LoadInv
  <2> QED BY <1>1, <1>2, <1>a, <2>1, <2>2, DatabaseKeeps, LoadKept DEF IInv
<1>9. LoadInv(new)'
  BY <1>1, <1>2, <1>5, <1>6, <1>a DEF LoadInv
<1>10. \A l \in loads : l.token \in Nat /\ l.token <= loadToken
  BY DEF IInv, LoadInv, TypeOK, Loads
<1>11. TokenInv'
  <2>1. \A l, m \in loads' : l.token = m.token => l = m
    BY <1>1, <1>2, <1>6, <1>10, <1>a DEF IInv, TokenInv
  <2>2. ASSUME NEW u \in Events
        PROVE  /\ wiped'[u] <= loadToken'
               /\ inflight'[u] # 0 => /\ inflight'[u] > wiped'[u]
                                      /\ \E l \in loads' : l.token = inflight'[u] /\ l.event = u
    <3>1. wiped[u] \in Nat /\ wiped[u] <= loadToken
      BY DEF IInv, TokenInv, TypeOK
    <3>2. CASE u = e
      BY <1>1, <1>2, <1>5, <1>6, <1>a, <3>1, <3>2
    <3>3. CASE u # e
      BY <1>1, <1>2, <1>5, <1>a, <3>1, <3>3 DEF IInv, TokenInv
    <3> QED BY <3>2, <3>3
  <2> QED BY <2>1, <2>2 DEF TokenInv
<1> QED BY <1>1, <1>3, <1>4, <1>7, <1>8, <1>9, <1>11, ProcessStep DEF database

-----------------------------------------------------------------------------
(* Loads.                                                                  *)

\* A load that goes on keeps its token and its Event.
LEMMA LoadReplaced ==
  ASSUME IInv, NEW l \in loads, NEW m \in Loads, m.token = l.token, m.event = l.event,
         loads' = (loads \ {l}) \cup {m}, UNCHANGED <<database, now, inflight, loadToken, wiped>>,
         LoadInv(m)'
  PROVE  (\A k \in loads' : LoadInv(k)') /\ TokenInv' /\ loads' \subseteq Loads
<1>1. ASSUME NEW k \in loads PROVE LoadInv(k)'
  BY DEF IInv, LoadInv, WasTrueSince, Current, database
<1>2. \A j, k \in loads' : j.token = k.token => j = k
  BY DEF IInv, TokenInv
<1>3. ASSUME NEW u \in Events, inflight[u] # 0
      PROVE  \E k \in loads' : k.token = inflight[u] /\ k.event = u
  <2>1. PICK k \in loads : k.token = inflight[u] /\ k.event = u
    BY <1>3 DEF IInv, TokenInv
  <2> QED BY <2>1
<1>4. TokenInv'
  BY <1>2, <1>3 DEF IInv, TokenInv
<1> QED BY <1>1, <1>4 DEF IInv, TypeOK

LEMMA QueryKeepsInv ==
  ASSUME IInv, NEW l \in loads, Query(l)
  PROVE  IInv'
<1>1. PICK broken \in BOOLEAN :
        loads' = (loads \ {l}) \cup {[l EXCEPT !.step = "answered", !.failed = broken,
                                               !.plan = Current(l.event)]}
  BY DEF Query
<1>m. PICK m : m = [l EXCEPT !.step = "answered", !.failed = broken,
                              !.plan = Current(l.event)]
  OBVIOUS
<1>2. /\ UNCHANGED <<database, now, cache, inflight, loadToken, calls, wiped, creating>>
      /\ l.step = "query"
  BY DEF Query
<1>3. /\ l \in Loads /\ l.event \in Events /\ LoadInv(l) /\ Current(l.event) \in Plans
  BY NumberTypes DEF IInv, TypeOK, Loads
<1>4. /\ m \in Loads /\ m.token = l.token /\ m.event = l.event /\ m.began = l.began
      /\ m.plan = Current(l.event)
  BY <1>3, <1>m DEF Loads
<1>5. loads' = (loads \ {l}) \cup {m}
  BY <1>1, <1>m
<1>6. LoadInv(m)'
  <2>1. Current(m.event)' = Current(l.event)
    BY <1>2, <1>4 DEF Current, database
  <2> QED BY <1>2, <1>3, <1>4, <2>1 DEF LoadInv, WasTrueSince
<1>7. (\A k \in loads' : LoadInv(k)') /\ TokenInv' /\ loads' \subseteq Loads
  BY <1>2, <1>4, <1>5, <1>6, LoadReplaced
<1>8. CacheInv'
  BY <1>2 DEF IInv, CacheInv, EntryInv, WasTrueSince, Current, database
<1>9. TypeOK' /\ StalenessBounded'
  BY <1>2, <1>7 DEF IInv, TypeOK, StalenessBounded, database
<1> QED BY <1>2, <1>7, <1>8, <1>9, ProcessStep DEF database

LEMMA SettleKeepsInv ==
  ASSUME IInv, NEW l \in loads, Settle(l)
  PROVE  IInv'
<1> DEFINE m == [l EXCEPT !.step = "settled"]
<1>1. /\ UNCHANGED <<database, now, inflight, loadToken, wiped, creating>>
      /\ l.step = "answered" /\ loads' = (loads \ {l}) \cup {m}
      /\ calls' = [c \in Callers |-> IF calls[c] = WaitsFor(l.token) THEN Outcome(l)
                                     ELSE calls[c]]
      /\ cache' = IF ~l.failed /\ IsCurrent(l) THEN Stored(Entry(l.event, l.plan, l.token))
                  ELSE cache
  BY DEF Settle
<1>2. /\ l \in Loads /\ l.event \in Events /\ l.plan \in Plans /\ l.began \in Nat
      /\ l.token \in Nat /\ LoadInv(l)
  BY DEF IInv, TypeOK, Loads
<1>3. /\ m \in Loads /\ m.token = l.token /\ m.event = l.event /\ m.began = l.began
      /\ m.plan = l.plan /\ m.step = "settled"
  BY <1>2 DEF Loads
<1>4. (\A k \in loads' : LoadInv(k)') /\ TokenInv' /\ loads' \subseteq Loads
  <2> HIDE DEF m
  <2>1. LoadInv(m)'
    BY <1>1, <1>2, <1>3 DEF LoadInv, WasTrueSince, Current, database
  <2> QED BY <1>1, <1>3, <2>1, LoadReplaced
<1>5. Outcome(l) \in Calls /\ Outcome(l).late < Ttl + MaxDelay
  BY <1>1, <1>2, OutcomeInTime DEF IInv
<1>6. calls' \in [Callers -> Calls] /\ StalenessBounded'
  BY <1>1, <1>5 DEF IInv, TypeOK, StalenessBounded
<1>7. CacheInv' /\ cache' \in Seq(Entries)
  <2>1. CASE ~(~l.failed /\ IsCurrent(l))
    BY <1>1, <2>1 DEF IInv, TypeOK, CacheInv, EntryInv, WasTrueSince, Current, database
  <2>2. CASE ~l.failed /\ IsCurrent(l)
    <3>x. PICK x : x = Entry(l.event, l.plan, l.token)
      OBVIOUS
    <3>1. now \in Nat /\ Ttl \in Nat /\ MaxDelay \in Nat
      BY NumberTypes DEF IInv
    <3>2. /\ x \in Entries /\ x.event = l.event /\ x.plan = l.plan
          /\ x.expires = now + Ttl /\ x.source = l.token
      BY <1>2, <3>1, <3>x DEF Entry, Entries
    <3>3. Within(cache', {y \in Range(cache) : y.event # l.event} \cup {x})
      BY <1>1, <2>2, <3>2, <3>x, StoredWithin DEF IInv, TypeOK, CacheInv
    <3>4. l.token > wiped[l.event]
      BY <1>2, <2>2 DEF IInv, TokenInv, IsCurrent, TypeOK, Loads
    <3>5. WasTrueSince(l.event, l.plan, x.expires - (Ttl + MaxDelay))
      <4>1. WasTrueSince(l.event, l.plan, l.began) /\ now <= l.began + MaxDelay
        BY <1>1, <1>2 DEF LoadInv
      <4>2. wasTrue[l.event][l.plan] \in Nat
        BY <1>2, NumberTypes DEF IInv
      <4> QED BY <1>2, <3>1, <3>2, <4>1, <4>2 DEF WasTrueSince
    <3>6. EntryInv(x)'
      BY <1>1, <3>1, <3>2, <3>4, <3>5 DEF EntryInv, WasTrueSince, Current, database
    <3> QED BY <1>1, <1>2, <3>3, <3>6, CacheStep
  <2> QED BY <2>1, <2>2
<1>8. TypeOK'
  BY <1>1, <1>4, <1>6, <1>7 DEF IInv, TypeOK, database
<1> QED BY <1>1, <1>4, <1>6, <1>7, <1>8, ProcessStep DEF database

LEMMA FinallyKeepsInv ==
  ASSUME IInv, NEW l \in loads, Finally(l)
  PROVE  IInv'
<1>1. /\ UNCHANGED <<database, now, cache, loadToken, calls, wiped, creating>>
      /\ l.step = "settled" /\ inflight' = Forget(l) /\ loads' = loads \ {l}
  BY DEF Finally
<1>2. \A k \in loads : k \in Loads /\ k.event \in Events /\ LoadInv(k)
  BY DEF IInv, TypeOK, Loads
<1>3. /\ inflight' \in [Events -> Nat]
      /\ \A u \in Events : inflight'[u] = IF u = l.event /\ inflight[u] = l.token THEN 0
                                          ELSE inflight[u]
  BY <1>1, <1>2 DEF Forget, IInv, TypeOK
<1>4. \A j, k \in loads : j.token = k.token => j = k
  BY DEF IInv, TokenInv
<1>5. ASSUME NEW k \in loads' PROVE LoadInv(k)'
  <2>1. k \in loads /\ k # l /\ k.token # l.token
    BY <1>1, <1>4
  <2>2. k.step # "settled" => k.token = inflight'[k.event] \/ k.token <= wiped'[k.event]
    BY <1>1, <1>2, <1>3, <2>1 DEF LoadInv
  <2>3. loadToken' \in Nat /\ loadToken <= loadToken'
    BY <1>1 DEF IInv, TypeOK
  <2> QED BY <1>1, <1>2, <2>1, <2>2, <2>3, DatabaseKeeps, LoadKept DEF IInv
<1>6. TokenInv'
  <2>1. ASSUME NEW u \in Events
        PROVE  /\ wiped'[u] <= loadToken'
               /\ inflight'[u] # 0 => /\ inflight'[u] > wiped'[u]
                                      /\ \E k \in loads' : k.token = inflight'[u] /\ k.event = u
    <3>1. wiped'[u] <= loadToken'
      BY <1>1 DEF IInv, TokenInv
    <3>2. ASSUME inflight'[u] # 0
          PROVE  /\ inflight'[u] > wiped'[u]
                 /\ \E k \in loads' : k.token = inflight'[u] /\ k.event = u
      <4>1. inflight'[u] = inflight[u] /\ ~(u = l.event /\ inflight[u] = l.token)
        BY <1>3, <3>2
      <4>2. PICK k \in loads : k.token = inflight[u] /\ k.event = u
        BY <3>2, <4>1 DEF IInv, TokenInv
      <4>3. k \in loads'
        BY <1>1, <4>1, <4>2
      <4>4. inflight[u] > wiped[u]
        BY <3>2, <4>1 DEF IInv, TokenInv
      <4> QED BY <1>1, <4>1, <4>2, <4>3, <4>4
    <3> QED BY <3>1, <3>2
  <2> QED BY <1>1, <1>4, <2>1 DEF TokenInv
<1>7. CacheInv' /\ StalenessBounded'
  BY <1>1 DEF IInv, CacheInv, EntryInv, WasTrueSince, Current, database, StalenessBounded
<1>8. TypeOK'
  BY <1>1, <1>3 DEF IInv, TypeOK, database
<1> QED BY <1>1, <1>5, <1>6, <1>7, <1>8, ProcessStep DEF database

-----------------------------------------------------------------------------
(* prime and invalidate.                                                   *)

\* Whatever is in flight is cut off.
LEMMA WipeKeeps ==
  ASSUME IInv, NEW e \in Events, Wipe(e), UNCHANGED <<database, now, loadToken, loads>>
  PROVE  /\ \A l \in loads' : LoadInv(l)'
         /\ TokenInv'
         /\ inflight' \in [Events -> Nat] /\ wiped' \in [Events -> Nat]
         /\ \A u \in Events \ {e} : wiped'[u] = wiped[u]
<1>1. /\ inflight' \in [Events -> Nat] /\ wiped' \in [Events -> Nat]
      /\ inflight'[e] = 0 /\ wiped'[e] = loadToken /\ loadToken \in Nat
      /\ \A u \in Events \ {e} : wiped'[u] = wiped[u] /\ inflight'[u] = inflight[u]
  BY DEF Wipe, IInv, TypeOK
<1>2. ASSUME NEW l \in loads PROVE LoadInv(l)'
  <2>1. l \in Loads /\ LoadInv(l) /\ l.event \in Events
    BY DEF IInv, TypeOK, Loads
  <2>2. l.step # "settled" => l.token = inflight'[l.event] \/ l.token <= wiped'[l.event]
    BY <1>1, <2>1 DEF LoadInv
  <2> QED BY <1>1, <2>1, <2>2, DatabaseKeeps, LoadKept DEF IInv
<1>3. TokenInv'
  BY <1>1 DEF IInv, TokenInv
<1> QED BY <1>1, <1>2, <1>3

LEMMA PrimeKeepsInv ==
  ASSUME IInv, NEW e \in Events, Prime(e)
  PROVE  IInv'
<1>x. PICK x : x = Entry(e, "single", 0)
  OBVIOUS
<1>1. PICK y \in creating : y[1] = e /\ creating' = creating \ {y}
  BY DEF Prime
<1>2. UNCHANGED <<database, now, loadToken, loads, calls>> /\ Wipe(e) /\ cache' = Stored(x)
  BY <1>x DEF Prime
<1>3. now \in Nat /\ Ttl \in Nat /\ MaxDelay \in Nat
  BY NumberTypes DEF IInv
<1>4. /\ x \in Entries /\ x.event = e /\ x.plan = "single" /\ x.expires = now + Ttl
      /\ x.source = 0
  BY <1>3, <1>x DEF Entry, Entries, Plans
<1>5. Within(cache', {z \in Range(cache) : z.event # e} \cup {x})
  BY <1>2, <1>4, StoredWithin DEF IInv, TypeOK, CacheInv
<1>6. EntryInv(x)'
  <2>1. /\ y[2] \in Nat /\ now <= y[2] + MaxDelay /\ WasTrueSince(e, "single", y[2])
    BY <1>1 DEF IInv, TypeOK, CreationInv
  <2>2. wasTrue[e]["single"] \in Nat
    BY NumberTypes DEF IInv, Plans
  <2> QED BY <1>2, <1>3, <1>4, <2>1, <2>2 DEF EntryInv, WasTrueSince, Current, database
<1>7. CacheInv' /\ cache' \in Seq(Entries)
  BY <1>2, <1>5, <1>6, WipeKeeps, CacheStep
<1>8. TypeOK' /\ StalenessBounded'
  BY <1>1, <1>2, <1>7, WipeKeeps DEF IInv, TypeOK, database, StalenessBounded
<1> QED BY <1>1, <1>2, <1>7, <1>8, WipeKeeps, ProcessStep DEF database

LEMMA InvalidateKeepsInv ==
  ASSUME IInv, NEW e \in Events, Invalidate(e)
  PROVE  IInv'
<1>1. UNCHANGED <<database, now, loadToken, loads, calls, creating>> /\ Wipe(e)
  BY DEF Invalidate
<1>2. Within(cache', {z \in Range(cache) : z.event # e})
  BY OthersWithin DEF Invalidate, IInv, TypeOK, CacheInv
<1>3. CacheInv' /\ cache' \in Seq(Entries)
  BY <1>1, <1>2, WipeKeeps, CacheStep
<1>4. TypeOK' /\ StalenessBounded'
  BY <1>1, <1>3, WipeKeeps DEF IInv, TypeOK, database, StalenessBounded
<1> QED BY <1>1, <1>3, <1>4, WipeKeeps, ProcessStep DEF database

-----------------------------------------------------------------------------
LEMMA InitInv == Init => IInv
<1> SUFFICES ASSUME Init PROVE IInv
  OBVIOUS
<1>1. TypeOK
  BY OtherCalls DEF Init, TypeOK
<1>2. CacheInv
  BY DEF Init, CacheInv, OneEntry, Range
<1>3. TokenInv
  BY DEF Init, TokenInv
<1>4. StalenessBounded
  BY <1>1, OtherCalls, NumberTypes DEF Init, StalenessBounded
<1> QED BY <1>1, <1>2, <1>3, <1>4 DEF Init, IInv

LEMMA NextInv == IInv /\ [Next]_vars => IInv'
<1> SUFFICES ASSUME IInv, [Next]_vars PROVE IInv'
  OBVIOUS
<1>1. CASE SwitchMode \/ \E e \in Events : AddTicketType(e)
  BY <1>1, OutOfBandKeepsInv
<1>2. CASE Tick
  BY <1>2, TickKeepsInv
<1>3. ASSUME NEW e \in Events, CreateEvent(e) \/ Prime(e) \/ Invalidate(e) PROVE IInv'
  BY <1>3, CreateEventKeepsInv, PrimeKeepsInv, InvalidateKeepsInv
<1>4. ASSUME NEW e \in Events, NEW c \in Callers, Hit(c, e) \/ Join(c, e) \/ StartLoad(c, e)
      PROVE  IInv'
  BY <1>4, HitKeepsInv, JoinKeepsInv, StartLoadKeepsInv
<1>5. ASSUME NEW l \in loads, Query(l) \/ Settle(l) \/ Finally(l) PROVE IInv'
  BY <1>5, QueryKeepsInv, SettleKeepsInv, FinallyKeepsInv
<1>6. CASE UNCHANGED vars
  <2>1. SinceKept
    BY <1>6, DatabaseKeeps DEF vars
  <2>2. TypeOK'
    BY <1>6 DEF IInv, TypeOK, vars, database, process
  <2> QED BY <1>6, <2>1, <2>2, ProcessUntouched DEF vars, process
<1> QED BY <1>1, <1>2, <1>3, <1>4, <1>5, <1>6 DEF Next

(* The plans in the cache, the loads and their tokens, and the purchases   *)
(* that wait for a load stay consistent between any two awaits.            *)
THEOREM ResolverInvariant == Spec => []IInv
BY InitInv, NextInv, PTL DEF Spec

(* A plan in the cache was primed, or loaded since the Event's last prime  *)
(* or invalidate: no load that was under way then stores its plan later.   *)
THEOREM OldPlansStayOut == Spec => []OldLoadsStayOut
<1>1. IInv => OldLoadsStayOut
  BY DEF IInv, CacheInv, EntryInv, OldLoadsStayOut
<1> QED BY <1>1, ResolverInvariant, PTL

(* However many purchases miss the cache, prime or invalidate it, each     *)
(* Event has one load at most that is neither finished nor cut off, and    *)
(* whoever joins a load joins one that will be settled.                    *)
THEOREM MissesShareOneLoad == Spec => []OneLoadPerMiss
<1>1. IInv => OneLoadPerMiss
  BY DEF IInv, LoadInv, TokenInv, OneLoadPerMiss
<1> QED BY <1>1, ResolverInvariant, PTL

(* No purchase is given a plan that the database gave up Ttl plus the      *)
(* longest query or Valkey call ago or earlier, through whatever uses,     *)
(* joins, failures, primes and mode switches it came.                      *)
THEOREM PlansAreRecent == Spec => []StalenessBounded
<1>1. IInv => StalenessBounded
  BY DEF IInv
<1> QED BY <1>1, ResolverInvariant, PTL
=============================================================================
