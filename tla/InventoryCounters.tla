-------------------------- MODULE InventoryCounters --------------------------
(***************************************************************************)
(* The Valkey counters in front of the purchase transaction, for one       *)
(* Event: src/cache/inventory-cache.service.ts and the three paths of      *)
(* src/purchases/purchases.service.ts that reserve, transact and then      *)
(* settle the reservation.  A counter is only a filter: it may promise too *)
(* much, and the database decides; what it must not do is turn buyers away *)
(* while there are tickets.                                                *)
(*                                                                         *)
(* The database is the abstract sale that PurchaseTransaction implements,  *)
(* so a transaction is one step here.  A Lua script is one step too; its   *)
(* reply may be lost after it has run, and the client may send it again.   *)
(***************************************************************************)
EXTENDS Naturals, FiniteSets, Functions

CONSTANTS Attempts,    \* purchase requests
          Types,       \* Ticket Types the Event can have
          DefaultType, \* the type the Event is created with
          EventScope,  \* the Event's own counter, of the legacy mode
          NoScope,     \* no counter is consulted
          NoType,      \* the request names no Ticket Type
          Keys,        \* request keys
          NoKey,       \* the request carries no requestId
          Quantities,  \* quantities buyers ask for
          Capacity,    \* tickets a type starts with
          NoAnchor,    \* no revision is known
          MaxResends   \* bound on the times a command is sent again

Scopes == Types \cup {EventScope}

ASSUME TypesAssumption == DefaultType \in Types /\ NoType \notin Types
ASSUME ScopesAssumption == EventScope \notin Types /\ NoScope \notin Scopes
ASSUME KeysAssumption == NoKey \notin Keys
ASSUME QuantitiesAssumption == Quantities \subseteq Nat \ {0}
ASSUME CapacityAssumption == Capacity \in [Types -> Nat]
ASSUME AnchorAssumption == NoAnchor \notin Nat
ASSUME ResendsAssumption == MaxResends \in Nat
ASSUME FinitelyMany == IsFiniteSet(Attempts) /\ IsFiniteSet(Types)

VARIABLES onSale, left, ledger, \* the database: see TicketSale
          mode,      \* inventory_writer_control.writer_mode
          cached,    \* writer modes whose plans may still be cached
          toInit,    \* the counter createEvent has yet to initialise
          present,   \* counters that exist
          counter,   \* their values
          revision,  \* their CAS versions
          owed,      \* tickets taken, or not given back, by a call without reply
          pc,        \* step of each attempt
          request,   \* its ParsedPurchaseInput
          scope,     \* the counter its plan names
          reserved,  \* gate = 'reserved'
          anchor,    \* the revision its sync will compare
          remaining, \* the remaining quantity the transaction reported
          resent     \* how often its current command was sent again

database == <<onSale, left, ledger>>
control == <<mode, cached, toInit>>
valkey == <<present, counter, revision, owed>>
local == <<request, scope, reserved, anchor, remaining, resent>>
vars == <<database, control, valkey, pc, local>>

Sale == INSTANCE TicketSale WITH Buys <- Attempts,
                                 Amounts <- {Capacity[y] : y \in Types}

Modes == {"legacy", "ticket_type"}
Opposite(m) == IF m = "legacy" THEN "ticket_type" ELSE "legacy"
NoInput == [key |-> NoKey, type |-> NoType, quantity |-> 0]
Input == [key: Keys \cup {NoKey}, type: Types \cup {NoType}, quantity: Quantities]
Steps == {"new", "planned", "gated", "anchored", "syncing", "releasing",
          "refused", "ended"}

\* The Event aggregate: what the legacy path syncs its counter with.
EventLeft == SumFunction([y \in onSale |-> left[y]])

Init ==
  /\ Sale!Init
  /\ mode \in Modes /\ cached = {mode}
  /\ toInit = NoScope
  /\ present = {}
  /\ counter = [s \in Scopes |-> 0]
  /\ revision = [s \in Scopes |-> 0]
  /\ owed = [s \in Scopes |-> 0]
  /\ pc = [t \in Attempts |-> "new"]
  /\ request = [t \in Attempts |-> NoInput]
  /\ scope = [t \in Attempts |-> NoScope]
  /\ reserved = [t \in Attempts |-> FALSE]
  /\ anchor = [t \in Attempts |-> NoAnchor]
  /\ remaining = [t \in Attempts |-> 0]
  /\ resent = [t \in Attempts |-> 0]

-----------------------------------------------------------------------------
(* The Lua scripts.                                                        *)

\* RESERVE: absent is unknown, too few is sold out, otherwise take them.
CanReserve(s, q) == s \in present /\ counter[s] >= q
Reserves(s, q) == /\ counter' = [counter EXCEPT ![s] = @ - q]
                  /\ revision' = [revision EXCEPT ![s] = @ + 1]
                  /\ UNCHANGED present

\* RELEASE: an absent counter is not made up.
Releases(s, q) == /\ IF s \in present
                     THEN /\ counter' = [counter EXCEPT ![s] = @ + q]
                          /\ revision' = [revision EXCEPT ![s] = @ + 1]
                     ELSE UNCHANGED <<counter, revision>>
                  /\ UNCHANGED present

\* Mutant: the value is written whatever the revision.
SetUnconditionally(s, a) == s \in present

\* SYNC, compare and set.  Only the legacy script makes up an absent counter.
CanSync(s, a) == /\ revision[s] = a
                 /\ s \in Types => s \in present

\* INIT and a SYNC that compares equal.
Sets(s, v) == /\ present' = present \cup {s}
              /\ counter' = [counter EXCEPT ![s] = v]
              /\ revision' = [revision EXCEPT ![s] = @ + 1]
              /\ UNCHANGED owed

-----------------------------------------------------------------------------
(* One purchase.                                                           *)

Goto(t, step) == pc' = [pc EXCEPT ![t] = step]

\* The purchase is answered: its locals go out of scope.
Leave(t, how) == /\ Goto(t, how)
                 /\ request' = [request EXCEPT ![t] = NoInput]
                 /\ scope' = [scope EXCEPT ![t] = NoScope]
                 /\ reserved' = [reserved EXCEPT ![t] = FALSE]
                 /\ anchor' = [anchor EXCEPT ![t] = NoAnchor]
                 /\ remaining' = [remaining EXCEPT ![t] = 0]
                 /\ resent' = [resent EXCEPT ![t] = 0]

\* resolvePrefilterPlan, from a cache that may be behind the writer mode; when
\* it fails the purchase goes to the database without a counter.
PlanScopes(in) ==
  {NoScope}
  \cup {s \in {EventScope} : "legacy" \in cached}
  \cup {s \in {in.type} \cap Types : "ticket_type" \in cached}
  \cup {s \in {DefaultType} \cap onSale : in.type = NoType /\ "ticket_type" \in cached}

Arrive(t, in, s) ==
  /\ pc[t] = "new"
  /\ s \in PlanScopes(in)
  /\ Goto(t, IF s = NoScope THEN "anchored" ELSE "planned")
  /\ request' = [request EXCEPT ![t] = in]
  /\ scope' = [scope EXCEPT ![t] = s]
  /\ UNCHANGED <<database, control, valkey, reserved, anchor, remaining, resent>>

\* Reserved.  The Ticket Type script returns the revision in the same step; the
\* legacy path reads it in a call of its own.
Reserve(t) ==
  LET s == scope[t] IN
  /\ pc[t] = "planned"
  /\ CanReserve(s, request[t].quantity)
  /\ Reserves(s, request[t].quantity)
  /\ reserved' = [reserved EXCEPT ![t] = TRUE]
  /\ anchor' = [anchor EXCEPT ![t] = IF s \in Types THEN revision[s] + 1 ELSE NoAnchor]
  /\ Goto(t, IF s \in Types THEN "anchored" ELSE "gated")
  /\ resent' = [resent EXCEPT ![t] = 0]
  /\ UNCHANGED <<database, control, owed, request, scope, remaining>>

\* The script ran and its reply was lost: the client sends it again, or gives up.
ReserveUnanswered(t) ==
  LET s == scope[t]  q == request[t].quantity IN
  /\ pc[t] = "planned"
  /\ resent[t] < MaxResends
  /\ CanReserve(s, q)
  /\ Reserves(s, q)
  /\ owed' = [owed EXCEPT ![s] = @ + q]
  /\ resent' = [resent EXCEPT ![t] = @ + 1]
  /\ UNCHANGED <<database, control, pc, request, scope, reserved, anchor, remaining>>

\* Sold out: refused at once, unless a requestId may name a stored result.
SoldOut(t) ==
  /\ pc[t] = "planned"
  /\ scope[t] \in present
  /\ counter[scope[t]] < request[t].quantity
  /\ IF request[t].key = NoKey
     THEN Leave(t, "refused")
     ELSE /\ Goto(t, "gated")
          /\ resent' = [resent EXCEPT ![t] = 0]
          /\ UNCHANGED <<request, scope, reserved, anchor, remaining>>
  /\ UNCHANGED <<database, control, valkey>>

\* No counter, or Valkey does not answer: fail open.
ReserveUnknown(t) ==
  /\ pc[t] = "planned"
  /\ Goto(t, "gated")
  /\ resent' = [resent EXCEPT ![t] = 0]
  /\ UNCHANGED <<database, control, valkey, request, scope, reserved, anchor, remaining>>

\* getCounterVersion / getTicketTypeCounterRevision before the transaction; null
\* when Valkey does not answer.
ReadAnchor(t) ==
  /\ pc[t] = "gated"
  /\ \E a \in {revision[scope[t]], NoAnchor} : anchor' = [anchor EXCEPT ![t] = a]
  /\ Goto(t, "anchored")
  /\ UNCHANGED <<database, control, valkey, request, scope, reserved, remaining, resent>>

\* The reservation is given back, if there is one.
Compensate(t) == IF reserved[t] THEN Goto(t, "releasing") /\ UNCHANGED local
                                ELSE Leave(t, "ended")

\* Mutant: a replay keeps what it reserved.
NothingToGiveBack(t) ==
  /\ pc[t] = "anchored"
  /\ Leave(t, "ended")
  /\ UNCHANGED <<database, control, valkey>>

\* The transaction replays a stored result, answers 409 or 404, or fails.
NotDecided(t) ==
  /\ pc[t] = "anchored"
  /\ Compensate(t)
  /\ UNCHANGED <<database, control, valkey>>

\* Ticket Types resolveTicketType may return.
Resolvable(in) ==
  {y \in onSale : /\ mode = "legacy" => onSale = {y}
                  /\ in.type # NoType => y = in.type
                  /\ in.type = NoType => onSale = {y}}

\* The transaction decides: the abstract sale's step for a new ledger row.
Decides(t, y, status) ==
  LET row == [id |-> t, key |-> request[t].key, type |-> y,
              quantity |-> request[t].quantity, status |-> status] IN
  /\ y \in Resolvable(request[t])
  /\ Sale!Sell(row) \/ Sale!TurnDown(row)

\* May the counter be synced with what the transaction reported?  Not the Ticket
\* Type's by a transaction of the legacy writer, nor another type's.
MaySync(t, y) == /\ scope[t] # NoScope
                 /\ anchor[t] # NoAnchor
                 /\ scope[t] \in Types => mode = "ticket_type" /\ scope[t] = y

\* The outcome is known.  Confirmed and reserved: the reservation is the sale.
\* Confirmed unreserved, or rejected and reserved: the counter is off, sync it.
Decide(t, y, status) ==
  LET confirmed == status = "confirmed"
      mismatch == scope[t] \in Types /\ scope[t] # y IN
  /\ pc[t] = "anchored"
  /\ Decides(t, y, status)
  /\ \/ /\ confirmed # reserved[t] /\ MaySync(t, y)
        /\ remaining' = [remaining EXCEPT ![t] = IF scope[t] = EventScope
                                                 THEN EventLeft' ELSE left'[y]]
        /\ Goto(t, "syncing")
        /\ UNCHANGED <<request, scope, reserved, anchor, resent>>
     \/ /\ ~(confirmed # reserved[t] /\ MaySync(t, y))
        /\ IF confirmed /\ ~mismatch THEN Leave(t, "ended") ELSE Compensate(t)
  /\ UNCHANGED <<control, valkey>>

\* COMMIT takes effect but its reply is lost: handled as not decided.
DecideReplyLost(t, y, status) ==
  /\ pc[t] = "anchored"
  /\ Decides(t, y, status)
  /\ Compensate(t)
  /\ UNCHANGED <<control, valkey>>

\* syncCounter / syncTicketTypeCounter.  Not synced: release, if reserved.
Sync(t) ==
  LET s == scope[t] IN
  /\ pc[t] = "syncing"
  /\ \/ /\ CanSync(s, anchor[t])
        /\ Sets(s, remaining[t])
        /\ Leave(t, "ended")
     \/ /\ Compensate(t)
        /\ UNCHANGED valkey
  /\ UNCHANGED <<database, control>>

SyncUnanswered(t) ==
  LET s == scope[t] IN
  /\ pc[t] = "syncing"
  /\ CanSync(s, anchor[t])
  /\ Sets(s, remaining[t])
  /\ UNCHANGED <<database, control, pc, local>>

\* release / releaseTicketType.
Release(t) ==
  /\ pc[t] = "releasing"
  /\ Releases(scope[t], request[t].quantity)
  /\ Leave(t, "ended")
  /\ UNCHANGED <<database, control, owed>>

ReleaseUnanswered(t) ==
  /\ pc[t] = "releasing"
  /\ resent[t] < MaxResends
  /\ Releases(scope[t], request[t].quantity)
  /\ resent' = [resent EXCEPT ![t] = @ + 1]
  /\ UNCHANGED <<database, control, owed, pc, request, scope, reserved, anchor, remaining>>

\* The release fails as far as the client knows, which goes on without it: at most
\* a CompensationFailure metric.
ReleaseFails(t) ==
  /\ pc[t] = "releasing"
  /\ Leave(t, "ended")
  /\ owed' = [owed EXCEPT ![scope[t]] = @ + request[t].quantity]
  /\ UNCHANGED <<database, control, present, counter, revision>>

-----------------------------------------------------------------------------
(* Everything else that touches the counters or the database.              *)

\* createEvent commits; the counter of the mode it ran under comes later.
CreateEvent ==
  /\ onSale = {}
  /\ Sale!Offer(DefaultType, Capacity[DefaultType])
  /\ toInit' = IF mode = "legacy" THEN EventScope ELSE DefaultType
  /\ UNCHANGED <<mode, cached, valkey, pc, local>>

\* initCounter / initTicketTypeCounter: an unconditional SET of the total.
InitCounter ==
  /\ toInit # NoScope
  /\ Sets(toInit, Capacity[DefaultType])
  /\ toInit' = NoScope
  /\ UNCHANGED <<database, mode, cached, pc, local>>

\* Valkey does not answer, or the process dies after the COMMIT.
InitFails ==
  /\ toInit # NoScope
  /\ toInit' = NoScope
  /\ UNCHANGED <<database, mode, cached, valkey, pc, local>>

\* A further Ticket Type, inserted out of band; nobody initialises its counter.
AddTicketType(y) ==
  /\ onSale # {} /\ mode = "ticket_type"
  /\ Sale!Offer(y, Capacity[y])
  /\ UNCHANGED <<control, valkey, pc, local>>

\* The writer-mode switch; legacy cannot serve several types.
SwitchMode ==
  /\ mode = "ticket_type" => onSale \subseteq {DefaultType}
  /\ mode' = Opposite(mode)
  /\ cached' = cached \cup {mode'}
  /\ UNCHANGED <<database, toInit, valkey, pc, local>>

\* The TTL of the plans read under an earlier mode runs out.
PlansExpire ==
  /\ cached # {mode}
  /\ cached' = {mode}
  /\ UNCHANGED <<database, mode, toInit, valkey, pc, local>>

\* Valkey is restarted empty, or evicts the keys of a counter.
Forget(s) ==
  /\ s \in present
  /\ present' = present \ {s}
  /\ counter' = [counter EXCEPT ![s] = 0]
  /\ revision' = [revision EXCEPT ![s] = 0]
  /\ owed' = [owed EXCEPT ![s] = 0]
  /\ UNCHANGED <<database, control, pc, local>>

-----------------------------------------------------------------------------
Purchase(t) ==
  \/ \E in \in Input, s \in Scopes \cup {NoScope} : Arrive(t, in, s)
  \/ Reserve(t) \/ SoldOut(t) \/ ReserveUnknown(t) \/ ReadAnchor(t)
  \/ NotDecided(t)
  \/ \E y \in Types, status \in {"confirmed", "rejected"} : Decide(t, y, status)
  \/ Sync(t) \/ Release(t)

Fault(t) ==
  \/ ReserveUnanswered(t) \/ SyncUnanswered(t) \/ ReleaseUnanswered(t)
  \/ ReleaseFails(t)
  \/ \E y \in Types, status \in {"confirmed", "rejected"} : DecideReplyLost(t, y, status)

Other == \/ CreateEvent \/ InitCounter \/ InitFails
         \/ \E y \in Types : AddTicketType(y)
         \/ SwitchMode \/ PlansExpire
         \/ \E s \in Scopes : Forget(s)

Next == (\E t \in Attempts : Purchase(t) \/ Fault(t)) \/ Other

Spec == Init /\ [][Next]_vars
-----------------------------------------------------------------------------
(* Properties.                                                             *)

\* Types of the counters and of the attempts; a counter is never negative.
TypeOK ==
  /\ onSale \subseteq Types
  /\ left \in [Types -> Nat]
  /\ ledger \subseteq Sale!LedgerRow
  /\ mode \in Modes /\ cached \subseteq Modes
  /\ toInit \in Scopes \cup {NoScope}
  /\ present \subseteq Scopes
  /\ counter \in [Scopes -> Nat]
  /\ revision \in [Scopes -> Nat]
  /\ owed \in [Scopes -> Nat]
  /\ pc \in [Attempts -> Steps]
  /\ request \in [Attempts -> Input \cup {NoInput}]
  /\ scope \in [Attempts -> Scopes \cup {NoScope}]
  /\ reserved \in [Attempts -> BOOLEAN]
  /\ anchor \in [Attempts -> Nat \cup {NoAnchor}]
  /\ remaining \in [Attempts -> Nat]
  /\ resent \in [Attempts -> Nat]

\* Tickets attempt t holds in counter s: reserved, and neither sold to it as far
\* as it knows nor given back.
Held(t, s) == IF scope[t] = s /\ reserved[t] THEN request[t].quantity ELSE 0
Outstanding(s) == SumFunction([t \in Attempts |-> Held(t, s)])

\* The type whose tickets a counter counts; for the Event's counter while no
\* other type is on sale.
Counted(s) == IF s = EventScope THEN DefaultType ELSE s

\* No buyer is turned away by a counter that is short for no reason: what the
\* database has left is covered by the counter, the reservations in flight and
\* the tickets lost with a reply.  Over retries, replays, mode drift, COMMITs of
\* unknown outcome, syncs that overwrite and an initialisation that comes late.
CounterCoversStock ==
  \A s \in present :
    (s = EventScope => onSale \subseteq {DefaultType})
    => counter[s] + Outstanding(s) + owed[s] >= left[Counted(s)]

\* A Ticket Type's counter is never synced over a reservation made after the
\* revision was taken that the sync is anchored at: the transaction's remaining
\* quantity may be older than that reservation.
Syncs(t) == (Sync(t) \/ SyncUnanswered(t)) /\ revision' # revision

LaterReservesKept ==
  [][\A t, u \in Attempts :
       Syncs(t) /\ scope[t] \in Types /\ u # t /\ Held(u, scope[t]) > 0
       => anchor[u] <= anchor[t]]_vars
=============================================================================
