----------------------------- MODULE TypeResolver -----------------------------
(***************************************************************************)
(* The plan cache of one API process                                       *)
(* (src/purchases/ticket-type-resolver.service.ts): which counters the     *)
(* purchases of an Event reserve from, read from the database once, kept   *)
(* for a TTL and shared by the calls that miss it at the same time.  The   *)
(* process is single-threaded: a step is what runs between two awaits.     *)
(***************************************************************************)
EXTENDS Naturals, Sequences, FiniteSets, Functions

CONSTANTS Events,     \* ids of Events
          Callers,    \* purchases that resolve a plan
          Ttl,        \* ttlMs
          MaxEntries, \* maxEntries of the cache
          MaxDelay,   \* bound: how long a query or Valkey call may take
          MaxTime,    \* bound on the clock
          MaxLoads,   \* bound on loads started
          MaxSwitches \* bound on writer-mode switches

ASSUME ResolverAssumption == /\ Ttl \in Nat \ {0} /\ MaxEntries \in Nat \ {0}
                             /\ MaxDelay \in Nat

VARIABLES mode,     \* inventory_writer_control.writer_mode
          count,    \* ticket_types rows of each Event
          switches, \* history: switches so far
          wasTrue,  \* history: when a plan was last the database's
          now,      \* Date.now()
          cache,    \* the Map, oldest use first
          inflight, \* token of the load that callers join, 0: none
          loadToken,
          loads,    \* loads that have not run to their end
          calls,    \* what each caller waits for or got
          wiped,    \* history: loadToken at the last prime or invalidate
          creating  \* Events committed and not yet primed, and when

database == <<mode, count, switches, wasTrue>>
process == <<cache, inflight, loadToken, loads, calls, wiped, creating>>
vars == <<database, now, process>>
-----------------------------------------------------------------------------
\* PrefilterPlan.
Plans == {"legacy", "single", "multi"}

\* loadPlanFromDatabase: a missing type is treated like several.
PlanOf(m, n) == IF m = "legacy" THEN "legacy" ELSE IF n = 1 THEN "single" ELSE "multi"
Current(e) == PlanOf(mode, count[e])

\* How long ago the plan was the right one.
Lateness(e, plan) == IF plan = Current(e) THEN 0 ELSE now - wasTrue[e][plan]

\* A cached plan.  `source': the token of its load, or 0 if it was primed.
Entry(e, plan, source) == [event |-> e, plan |-> plan, expires |-> now + Ttl,
                           source |-> source]

Cached(e) == {x \in Range(cache) : x.event = e}

\* The Map without the entry of an Event, of which it has one at most.
Position(e) == CHOOSE i \in 1..Len(cache) : cache[i].event = e
Others(e) == IF Cached(e) = {} THEN cache
             ELSE SubSeq(cache, 1, Position(e) - 1) \o
                  SubSeq(cache, Position(e) + 1, Len(cache))

\* storeInternal: to the end of the Map, and the oldest out of a full one.
Stored(entry) ==
  LET all == Append(Others(entry.event), entry)
  IN IF Len(all) > MaxEntries THEN Tail(all) ELSE all

\* Mutant: the use of an entry renews its TTL.
TouchedAnew(entry) == Append(Others(entry.event), [entry EXCEPT !.expires = now + Ttl])

\* getFresh: the entry moves to the end, with the expiry it has.
Touched(entry) == Append(Others(entry.event), entry)
-----------------------------------------------------------------------------
NoCall == [step |-> "idle", token |-> 0, result |-> "none", late |-> 0]
WaitsFor(token) == [NoCall EXCEPT !.step = "waiting", !.token = token]
Answered(e, plan) == [NoCall EXCEPT !.step = "done", !.result = plan,
                                    !.late = Lateness(e, plan)]
Rejected == [NoCall EXCEPT !.step = "done", !.result = "failed"]

Init ==
  /\ mode \in {"legacy", "ticket_type"}
  /\ count = [e \in Events |-> 0]
  /\ switches = 0
  /\ wasTrue = [e \in Events |-> [p \in Plans |-> 0]]
  /\ now = 0
  /\ cache = <<>>
  /\ inflight = [e \in Events |-> 0]
  /\ loadToken = 0
  /\ loads = {}
  /\ calls = [c \in Callers |-> NoCall]
  /\ wiped = [e \in Events |-> 0]
  /\ creating = {}
-----------------------------------------------------------------------------
(* The database, and the clock.                                            *)

\* The plans in force until now.
Remember == wasTrue' = [e \in Events |-> [wasTrue[e] EXCEPT ![Current(e)] = now]]

\* createEvent has committed; in ticket_type mode it will prime the cache, after
\* a Valkey call.
CreateEvent(e) ==
  /\ count[e] = 0
  /\ count' = [count EXCEPT ![e] = 1]
  /\ creating' = IF mode = "ticket_type" THEN creating \cup {<<e, now>>} ELSE creating
  /\ Remember
  /\ UNCHANGED <<mode, switches, now, cache, inflight, loadToken, loads, calls, wiped>>

\* A second type, inserted out of band.
AddTicketType(e) ==
  /\ mode = "ticket_type" /\ count[e] = 1
  /\ count' = [count EXCEPT ![e] = 2]
  /\ Remember
  /\ UNCHANGED <<mode, switches, now, process>>

\* Going back to legacy needs Events of one type.
SwitchMode ==
  /\ switches < MaxSwitches
  /\ mode = "ticket_type" => \A e \in Events : count[e] <= 1
  /\ mode' = IF mode = "legacy" THEN "ticket_type" ELSE "legacy"
  /\ switches' = switches + 1
  /\ Remember
  /\ UNCHANGED <<count, now, process>>

\* Nothing that has been asked for takes longer than MaxDelay.
Tick ==
  /\ now < MaxTime
  /\ \A l \in loads : now < l.began + MaxDelay
  /\ \A x \in creating : now < x[2] + MaxDelay
  /\ now' = now + 1
  /\ UNCHANGED <<database, process>>
-----------------------------------------------------------------------------
(* resolvePrefilterPlan.                                                   *)

Free(c) == calls[c].step # "waiting"

Hit(c, e) ==
  \E x \in Cached(e) :
    /\ Free(c)
    /\ x.expires > now
    /\ cache' = Touched(x)
    /\ calls' = [calls EXCEPT ![c] = Answered(e, x.plan)]
    /\ UNCHANGED <<database, now, inflight, loadToken, loads, wiped, creating>>

\* An entry that has expired is deleted.
Missed(e) == /\ \A x \in Cached(e) : x.expires <= now
             /\ cache' = Others(e)

\* What the promise of a load holds for those who await it.
Outcome(l) == IF l.failed THEN Rejected ELSE Answered(l.event, l.plan)

\* The load in flight is joined; its promise may have settled already.
Join(c, e) ==
  /\ Free(c) /\ Missed(e)
  /\ inflight[e] # 0
  /\ \E l \in loads :
       /\ l.token = inflight[e]
       /\ calls' = [calls EXCEPT ![c] = IF l.step = "settled" THEN Outcome(l)
                                        ELSE WaitsFor(l.token)]
  /\ UNCHANGED <<database, now, inflight, loadToken, loads, wiped, creating>>

StartLoad(c, e) ==
  LET token == loadToken + 1 IN
  /\ Free(c) /\ Missed(e)
  /\ inflight[e] = 0 /\ loadToken < MaxLoads
  /\ loadToken' = token
  /\ loads' = loads \cup {[token |-> token, event |-> e, step |-> "query", plan |-> "legacy",
                           failed |-> FALSE, began |-> now]}
  /\ inflight' = [inflight EXCEPT ![e] = token]
  /\ calls' = [calls EXCEPT ![c] = WaitsFor(token)]
  /\ UNCHANGED <<database, now, wiped, creating>>

\* The query runs in the database; or connect, the query or the check of its
\* result throws.
Query(l) ==
  /\ l.step = "query"
  /\ \E broken \in BOOLEAN :
       loads' = (loads \ {l}) \cup {[l EXCEPT !.step = "answered", !.failed = broken,
                                              !.plan = Current(l.event)]}
  /\ UNCHANGED <<database, now, cache, inflight, loadToken, calls, wiped, creating>>

\* Mutant: every load stores what it has read.
StoresAnyway(l) == TRUE

\* The load is still the one in flight: no prime, no invalidate came meanwhile.
IsCurrent(l) == inflight[l.event] = l.token

\* The load continues with the query's rows: the plan is stored and the promise
\* settled, for all who wait.
Settle(l) ==
  /\ l.step = "answered"
  /\ cache' = IF ~l.failed /\ IsCurrent(l) THEN Stored(Entry(l.event, l.plan, l.token))
              ELSE cache
  /\ calls' = [c \in Callers |-> IF calls[c] = WaitsFor(l.token) THEN Outcome(l) ELSE calls[c]]
  /\ loads' = (loads \ {l}) \cup {[l EXCEPT !.step = "settled"]}
  /\ UNCHANGED <<database, now, inflight, loadToken, wiped, creating>>

\* Mutant: finally deletes whatever is in flight.
ForgetAny(l) == [inflight EXCEPT ![l.event] = 0]

\* finally: the load's own entry, and no other, is deleted.
Forget(l) == IF inflight[l.event] = l.token THEN [inflight EXCEPT ![l.event] = 0] ELSE inflight

Finally(l) ==
  /\ l.step = "settled"
  /\ inflight' = Forget(l)
  /\ loads' = loads \ {l}
  /\ UNCHANGED <<database, now, cache, loadToken, calls, wiped, creating>>
-----------------------------------------------------------------------------
Wipe(e) == /\ inflight' = [inflight EXCEPT ![e] = 0]
           /\ wiped' = [wiped EXCEPT ![e] = loadToken]

\* prime, by createEvent, with the default type it has inserted.
Prime(e) ==
  /\ \E x \in creating : x[1] = e /\ creating' = creating \ {x}
  /\ cache' = Stored(Entry(e, "single", 0))
  /\ Wipe(e)
  /\ UNCHANGED <<database, now, loadToken, loads, calls>>

\* invalidate: offered to those who change an Event's types or the mode.
Invalidate(e) ==
  /\ cache' = Others(e)
  /\ Wipe(e)
  /\ UNCHANGED <<database, now, loadToken, loads, calls, creating>>

Next == \/ SwitchMode \/ Tick
        \/ \E e \in Events : \/ CreateEvent(e) \/ AddTicketType(e) \/ Prime(e) \/ Invalidate(e)
                             \/ \E c \in Callers : Hit(c, e) \/ Join(c, e) \/ StartLoad(c, e)
        \/ \E l \in loads : Query(l) \/ Settle(l) \/ Finally(l)

Spec == Init /\ [][Next]_vars
-----------------------------------------------------------------------------
(* Properties.                                                             *)

\* A load that was under way when the Event's plan was primed or invalidated
\* never brings its plan into the cache, however late it returns and whatever
\* load has been started since.
OldLoadsStayOut ==
  \A x \in Range(cache) : x.source # 0 => x.source > wiped[x.event]

\* A flood of misses costs one query: of the loads of an Event that are not
\* finished, one is in flight and the others were cut off by prime or invalidate;
\* and what is in flight is alive, so that nobody joins a failure of the past.
OneLoadPerMiss ==
  /\ \A l \in loads : l.step # "settled" => l.token = inflight[l.event]
                                            \/ l.token <= wiped[l.event]
  /\ \A e \in Events : inflight[e] # 0 =>
       \E l \in loads : l.token = inflight[e] /\ l.event = e

\* A plan a purchase is given was the database's less than the TTL plus the duration
\* of one query or Valkey call ago, through whatever uses, joins, failures and
\* primes it came.
StalenessBounded == \A c \in Callers : calls[c].late < Ttl + MaxDelay
=============================================================================
