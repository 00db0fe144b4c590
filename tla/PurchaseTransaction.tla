------------------------- MODULE PurchaseTransaction -------------------------
(***************************************************************************)
(* The purchase transaction of src/purchases/purchases.service.ts against  *)
(* PostgreSQL, for one Event, with the compatibility triggers that keep    *)
(* the legacy Event row (ticket_inventory) and the Ticket Type rows        *)
(* (ticket_type_inventory) in step, Event creation, and the writer-mode    *)
(* switch of src/cutover/ticket-type-writer-mode-switch.ts.                *)
(*                                                                         *)
(* The isolation level is READ COMMITTED: `event', `stock', `types',       *)
(* `purchases' and `mode' are the committed tables; what a transaction has *)
(* written and not committed is in its draft, seen only by itself and      *)
(* guarded by row locks that it keeps until COMMIT or ROLLBACK.  Locks are *)
(* not variables: who holds which lock follows from the step it is at.     *)
(***************************************************************************)
EXTENDS Naturals, FiniteSets, Functions

CONSTANTS Attempts,     \* purchase requests served by this release
          OldAttempts,  \* purchase requests served by the previous release
          Types,        \* Ticket Types the Event can have
          DefaultType,  \* the type the events trigger creates
          NoType,       \* the request names no Ticket Type
          Keys,         \* (buyer, event, requestId) keys
          NoKey,        \* the request carries no requestId
          Quantities,   \* quantities buyers ask for
          Capacity,     \* tickets a type starts with
          MaxInteger    \* the largest INTEGER: 2147483647 in PostgreSQL

ASSUME TypesAssumption == DefaultType \in Types /\ NoType \notin Types
ASSUME KeysAssumption == NoKey \notin Keys
ASSUME QuantitiesAssumption == Quantities \subseteq Nat \ {0}
ASSUME CapacityAssumption == /\ MaxInteger \in Nat
                             /\ Capacity \in [Types -> 0..MaxInteger]
ASSUME AttemptsAssumption == Attempts \cap OldAttempts = {}

VARIABLES mode,       \* inventory_writer_control.writer_mode
          switchTo,   \* target of the mode switch in progress, or "none"
          types,      \* ticket_types rows of the Event ({}: no Event yet)
          event,      \* the ticket_inventory row
          stock,      \* the ticket_type_inventory rows
          purchases,  \* committed purchases rows
          pc,         \* step of each attempt
          request,    \* its ParsedPurchaseInput
          usedMode,   \* the writerMode it read
          chosen,     \* the ticketTypeId it resolved
          draftEvent, \* its uncommitted ticket_inventory row
          draftStock, \* its uncommitted ticket_type_inventory row
          result,     \* the purchases row it inserted, or replayed
          changes     \* versioned InventoryChanged details handed to publish

tables == <<mode, types, event, stock, purchases>>
local == <<request, usedMode, chosen, draftEvent, draftStock, result>>
vars == <<tables, switchTo, pc, local, changes>>

-----------------------------------------------------------------------------
Modes == {"legacy", "ticket_type"}
\* A row of the inventory tables. Versions are not bounded by INTEGER here: it
\* takes 2^31 commits of one row to get there.
Inventory == [total: 0..MaxInteger, remaining: 0..MaxInteger, version: Nat]
EmptyInventory == [total |-> 0, remaining |-> 0, version |-> 0]
Fresh(n) == [total |-> n, remaining |-> n, version |-> 0]

NoInput == [key |-> NoKey, type |-> NoType, quantity |-> 0]
Input == [key: Keys \cup {NoKey}, type: Types \cup {NoType}, quantity: Quantities]
PurchaseRow == [id: Attempts \cup OldAttempts, key: Keys \cup {NoKey}, type: Types,
                quantity: Quantities, status: {"confirmed", "rejected"}]
NoRow == [id |-> NoKey]

Change == [type: Types, stock: Inventory, event: Inventory]

\* Steps after the writer mode has been read; after the shared barrier has been
\* acquired; and between BEGIN and COMMIT or ROLLBACK.
ModeRead == {"resolved", "updated", "soldout", "mirrored", "inserted"}
Admitted == {"admitted", "serialized"} \cup ModeRead
InTransaction == {"begun"} \cup Admitted
Ended == {"created", "replayed", "conflict", "failed"}
Steps == InTransaction \cup Ended \cup {"new", "violated"}

\* sum(total_quantity) and sum(remaining_quantity) over the types' rows.
TotalOf(ys, rows) == SumFunction([y \in ys |-> rows[y].total])
RemainingOf(ys, rows) == SumFunction([y \in ys |-> rows[y].remaining])

-----------------------------------------------------------------------------
(* Locks.                                                                  *)

\* Mutant: the barrier is let go once the writer mode has been read.
BarrierUntilModeRead == {t \in Attempts : pc[t] \in {"admitted", "serialized"}}

\* pg_advisory_xact_lock_shared(335, 376): held by every transaction.
SharedBarrierHolders == {t \in Attempts : pc[t] \in Admitted}
ExclusiveBarrierHeld == switchTo # "none"

\* Mutant: a session-level lock, which the end of the transaction keeps.
SessionRequestLock(t, k) == /\ pc[t] \notin {"new", "begun", "admitted"}
                            /\ request[t].key = k

\* pg_advisory_xact_lock on the request key.
HoldsRequestLock(t, k) == /\ pc[t] \in Admitted \ {"admitted"}
                          /\ request[t].key = k

\* The ticket_type_inventory row a transaction writes: its own type, or the
\* default type that the forward bridge writes for it.
WrittenType(t) == IF usedMode[t] = "legacy" THEN DefaultType ELSE chosen[t]

HoldsBothRows(t) == \/ pc[t] = "mirrored"
                    \/ pc[t] = "inserted" /\ result[t].status = "confirmed"
HoldsEventRow(t) == \/ pc[t] = "updated" /\ usedMode[t] = "legacy"
                    \/ HoldsBothRows(t)
HoldsTypeRow(t, y) == /\ y = WrittenType(t)
                      /\ \/ pc[t] = "updated" /\ usedMode[t] = "ticket_type"
                         \/ HoldsBothRows(t)

\* Mutants: the aggregate is read without FOR UPDATE on the Event row; the
\* decrement is a read followed by a write instead of one guarded UPDATE.
NoEventRowLock == TRUE
NoTypeRowLock(y) == TRUE

EventRowFree == \A t \in Attempts : ~HoldsEventRow(t)
TypeRowFree(y) == \A t \in Attempts : ~HoldsTypeRow(t, y)

-----------------------------------------------------------------------------
(* What a transaction sees: the committed rows overlaid with its drafts.   *)

VisibleStock(t) == [stock EXCEPT ![WrittenType(t)] = draftStock[t]]

\* Mutant: the replay compares the Ticket Type and forgets the quantity.
SameTypeOnly(row, in) == in.type # NoType => row.type = in.type

\* assertIdempotencyReplayPayload: the stored row answers this request.
SamePayload(row, in) == /\ row.quantity = in.quantity
                        /\ in.type # NoType => row.type = in.type

\* findExistingPurchase: committed rows with the request's key.
Existing(t) == {p \in purchases : p.key = request[t].key /\ p.key # NoKey}

\* Which Ticket Types resolveTicketType may return under mode m.
Resolvable(m, in) ==
  {y \in types : /\ m = "legacy" => types = {y}
                 /\ in.type # NoType => y = in.type
                 /\ in.type = NoType => types = {y}}

\* The attempt is over: its locals go out of scope, its locks are released.
End(t, how, row) ==
  /\ pc' = [pc EXCEPT ![t] = how]
  /\ result' = [result EXCEPT ![t] = row]
  /\ usedMode' = [usedMode EXCEPT ![t] = "legacy"]
  /\ chosen' = [chosen EXCEPT ![t] = DefaultType]
  /\ draftEvent' = [draftEvent EXCEPT ![t] = EmptyInventory]
  /\ draftStock' = [draftStock EXCEPT ![t] = EmptyInventory]
  /\ UNCHANGED request

-----------------------------------------------------------------------------
Init ==
  /\ mode \in Modes
  /\ switchTo = "none"
  /\ types = {}
  /\ event = EmptyInventory
  /\ stock = [y \in Types |-> EmptyInventory]
  /\ purchases = {}
  /\ pc = [t \in Attempts |-> "new"]
  /\ request = [t \in Attempts |-> NoInput]
  /\ usedMode = [t \in Attempts |-> "legacy"]
  /\ chosen = [t \in Attempts |-> DefaultType]
  /\ draftEvent = [t \in Attempts |-> EmptyInventory]
  /\ draftStock = [t \in Attempts |-> EmptyInventory]
  /\ result = [t \in Attempts |-> NoRow]
  /\ changes = {}

\* BEGIN, on an arbitrary request.
Begin(t, in) ==
  /\ pc[t] = "new"
  /\ pc' = [pc EXCEPT ![t] = "begun"]
  /\ request' = [request EXCEPT ![t] = in]
  /\ UNCHANGED <<tables, switchTo, usedMode, chosen, draftEvent, draftStock,
                 result, changes>>

\* acquireSharedInventoryWriterBarrier: waits while a mode switch runs.
AcquireSharedBarrier(t) ==
  /\ pc[t] = "begun"
  /\ ~ExclusiveBarrierHeld
  /\ pc' = [pc EXCEPT ![t] = "admitted"]
  /\ UNCHANGED <<tables, switchTo, local, changes>>

\* acquirePurchaseRequestLock: the payload is not part of the lock's key.
AcquireRequestLock(t) ==
  /\ pc[t] = "admitted"
  /\ \/ request[t].key = NoKey
     \/ \A u \in Attempts \ {t} : ~HoldsRequestLock(u, request[t].key)
  /\ pc' = [pc EXCEPT ![t] = "serialized"]
  /\ UNCHANGED <<tables, switchTo, local, changes>>

\* The key has already been decided: the stored outcome is replayed, or 409.
Replay(t) ==
  /\ pc[t] = "serialized"
  /\ types # {}
  /\ \E p \in Existing(t) :
       IF SamePayload(p, request[t]) THEN End(t, "replayed", p)
                                     ELSE End(t, "conflict", NoRow)
  /\ UNCHANGED <<tables, switchTo, changes>>

\* readInventoryWriterMode, the event row, resolveTicketType.  No such event
\* or no type the request can mean: the transaction throws.
Resolve(t) ==
  /\ pc[t] = "serialized"
  /\ Existing(t) = {}
  /\ \/ /\ Resolvable(mode, request[t]) = {}
        /\ End(t, "failed", NoRow)
     \/ \E y \in Resolvable(mode, request[t]) :
          /\ usedMode' = [usedMode EXCEPT ![t] = mode]
          /\ chosen' = [chosen EXCEPT ![t] = y]
          /\ pc' = [pc EXCEPT ![t] = "resolved"]
          /\ UNCHANGED <<request, draftEvent, draftStock, result>>
  /\ UNCHANGED <<tables, switchTo, changes>>

\* The row after SET remaining_quantity = remaining_quantity - q, version + 1.
Taken(row, q) == [row EXCEPT !.remaining = @ - q, !.version = @ + 1]

\* updateActiveInventory: WHERE remaining_quantity >= q.  The statement fence
\* rejects a write to the table that is not active in the current mode.
UpdateActiveInventory(t) ==
  LET q == request[t].quantity IN
  /\ pc[t] = "resolved"
  /\ usedMode[t] = mode
  /\ \/ /\ usedMode[t] = "legacy"
        /\ event.remaining >= q
        /\ EventRowFree
        /\ draftEvent' = [draftEvent EXCEPT ![t] = Taken(event, q)]
        /\ UNCHANGED draftStock
     \/ /\ usedMode[t] = "ticket_type"
        /\ stock[chosen[t]].remaining >= q
        /\ TypeRowFree(chosen[t])
        /\ draftStock' = [draftStock EXCEPT ![t] = Taken(stock[chosen[t]], q)]
        /\ UNCHANGED draftEvent
  /\ pc' = [pc EXCEPT ![t] = "updated"]
  /\ UNCHANGED <<tables, switchTo, request, usedMode, chosen, result, changes>>

\* Mutant: a request for exactly the last tickets is turned down.
SoldOutTooEarly(t) ==
  LET row == IF usedMode[t] = "legacy" THEN event ELSE stock[chosen[t]] IN
  /\ pc[t] = "resolved"
  /\ usedMode[t] = mode
  /\ row.remaining <= request[t].quantity
  /\ pc' = [pc EXCEPT ![t] = "soldout"]
  /\ UNCHANGED <<tables, switchTo, local, changes>>

\* The UPDATE matched no row: insufficient_inventory.
FindSoldOut(t) ==
  LET row == IF usedMode[t] = "legacy" THEN event ELSE stock[chosen[t]] IN
  /\ pc[t] = "resolved"
  /\ usedMode[t] = mode
  /\ row.remaining < request[t].quantity
  /\ pc' = [pc EXCEPT ![t] = "soldout"]
  /\ UNCHANGED <<tables, switchTo, local, changes>>

\* Mutant: the reverse mirror rewrites the aggregate under the old version.
AggregateSameVersion(row, ys, rows) == [total |-> TotalOf(ys, rows),
                                        remaining |-> RemainingOf(ys, rows),
                                        version |-> row.version]

\* The aggregate of the types' rows, one version on.
Aggregate(row, ys, rows) == [total |-> TotalOf(ys, rows),
                             remaining |-> RemainingOf(ys, rows),
                             version |-> row.version + 1]

\* The AFTER triggers: the forward bridge copies the Event row to the default
\* type; the reverse mirror locks the Event row and only then sums the types.
\* A sum beyond INTEGER raises an exception: only a Rollback is left.
MirrorInventory(t) ==
  /\ pc[t] = "updated"
  /\ \/ /\ usedMode[t] = "legacy"
        /\ TypeRowFree(DefaultType)
        /\ draftStock' = [draftStock EXCEPT ![t] = draftEvent[t]]
        /\ UNCHANGED draftEvent
     \/ /\ usedMode[t] = "ticket_type"
        /\ EventRowFree
        /\ Aggregate(event, types, VisibleStock(t)) \in Inventory
        /\ draftEvent' =
             [draftEvent EXCEPT ![t] = Aggregate(event, types, VisibleStock(t))]
        /\ UNCHANGED draftStock
  /\ pc' = [pc EXCEPT ![t] = "mirrored"]
  /\ UNCHANGED <<tables, switchTo, request, usedMode, chosen, result, changes>>

\* Mutant: the index of the schema before this release, confirmed rows only.
KeyConfirmed(k) == k # NoKey /\ \E p \in purchases : p.key = k /\ p.status = "confirmed"

\* purchases_request_id_uq: a committed row makes the INSERT fail, one not yet
\* committed makes it wait.
KeyCommitted(k) == k # NoKey /\ \E p \in purchases : p.key = k
KeyPending(k) == /\ k # NoKey
                 /\ \E u \in Attempts : pc[u] = "inserted" /\ result[u].key = k

NewRow(t, status) == [id |-> t, key |-> request[t].key, type |-> chosen[t],
                      quantity |-> request[t].quantity, status |-> status]

InsertPurchase(t) ==
  /\ pc[t] \in {"mirrored", "soldout"}
  /\ ~KeyCommitted(request[t].key)
  /\ ~KeyPending(request[t].key)
  /\ result' = [result EXCEPT ![t] =
       NewRow(t, IF pc[t] = "mirrored" THEN "confirmed" ELSE "rejected")]
  /\ pc' = [pc EXCEPT ![t] = "inserted"]
  /\ UNCHANGED <<tables, switchTo, request, usedMode, chosen, draftEvent,
                 draftStock, changes>>

\* Unique violation: ROLLBACK, and recover outside the transaction.
LoseInsertRace(t) ==
  /\ pc[t] \in {"mirrored", "soldout"}
  /\ KeyCommitted(request[t].key)
  /\ End(t, "violated", NoRow)
  /\ UNCHANGED <<tables, switchTo, changes>>

RecoverReplay(t) ==
  /\ pc[t] = "violated"
  /\ \E p \in Existing(t) :
       IF SamePayload(p, request[t]) THEN End(t, "replayed", p)
                                     ELSE End(t, "conflict", NoRow)
  /\ UNCHANGED <<tables, switchTo, changes>>

\* What COMMIT makes durable and visible.
MakeDurable(t) ==
  /\ purchases' = purchases \cup {result[t]}
  /\ IF result[t].status = "confirmed"
     THEN event' = draftEvent[t] /\ stock' = VisibleStock(t)
     ELSE UNCHANGED <<event, stock>>
  /\ UNCHANGED <<mode, types>>

\* inventoryChange, built before COMMIT from the rows the transaction sees.
ChangeOf(t) == [type |-> chosen[t], stock |-> VisibleStock(t)[chosen[t]],
                event |-> draftEvent[t]]

\* COMMIT succeeds; only then the change is handed to publish.
Commit(t) ==
  /\ pc[t] = "inserted"
  /\ MakeDurable(t)
  /\ changes' = IF result[t].status = "confirmed"
                THEN changes \cup {ChangeOf(t)} ELSE changes
  /\ End(t, "created", result[t])
  /\ UNCHANGED switchTo

\* The server commits and the reply is lost: the attempt throws all the same.
CommitReplyLost(t) ==
  /\ pc[t] = "inserted"
  /\ MakeDurable(t)
  /\ End(t, "failed", NoRow)
  /\ UNCHANGED <<switchTo, changes>>

\* A statement fails, times out or loses its connection, or the fence rejects
\* the write: ROLLBACK.
Rollback(t) ==
  /\ pc[t] \in InTransaction
  /\ End(t, "failed", NoRow)
  /\ UNCHANGED <<tables, switchTo, changes>>

\* The recovery query fails, or finds no row: the original error is thrown.
RecoveryFails(t) ==
  /\ pc[t] = "violated"
  /\ End(t, "failed", NoRow)
  /\ UNCHANGED <<tables, switchTo, changes>>
-----------------------------------------------------------------------------
(* Other writers of the inventory tables.  Each is one step here: it holds *)
(* the shared barrier or the row locks throughout, and its rows are not    *)
(* visible before its COMMIT.                                              *)

\* EventsService.createEvent: the Event, its default type (events trigger)
\* and the inventory row of the active side; the other side is mirrored.
CreateEvent ==
  LET first == [stock EXCEPT ![DefaultType] = Fresh(Capacity[DefaultType])] IN
  /\ types = {}
  /\ ~ExclusiveBarrierHeld
  /\ types' = {DefaultType}
  /\ stock' = first
  /\ event' = IF mode = "legacy" THEN Fresh(Capacity[DefaultType])
              ELSE Aggregate(EmptyInventory, {DefaultType}, first)
  /\ UNCHANGED <<mode, purchases, switchTo, pc, local, changes>>

\* A further type is inserted out of band; the guards allow it in ticket_type
\* mode only, and the reverse mirror adds it to the Event row.
AddTicketType(y) ==
  LET more == [stock EXCEPT ![y] = Fresh(Capacity[y])] IN
  /\ types # {} /\ y \notin types
  /\ Aggregate(event, types \cup {y}, more) \in Inventory
  /\ mode = "ticket_type"
  /\ ~ExclusiveBarrierHeld
  /\ EventRowFree
  /\ types' = types \cup {y}
  /\ stock' = more
  /\ event' = Aggregate(event, types \cup {y}, more)
  /\ UNCHANGED <<mode, purchases, switchTo, pc, local, changes>>

\* A purchase by the previous release: no barrier, no request lock, legacy
\* table only.  The statement fence stops it in ticket_type mode, the table
\* locks stop it during a switch, the unique index stops a used key.
OldReleasePurchase(o, in) ==
  LET sold == event.remaining >= in.quantity
      row == [id |-> o, key |-> in.key, type |-> DefaultType,
              quantity |-> in.quantity,
              status |-> IF sold THEN "confirmed" ELSE "rejected"] IN
  /\ types # {} /\ mode = "legacy" /\ ~ExclusiveBarrierHeld
  /\ \A p \in purchases : p.id # o
  /\ in.type = NoType
  /\ ~KeyCommitted(in.key) /\ ~KeyPending(in.key)
  /\ sold => EventRowFree /\ TypeRowFree(DefaultType)
  /\ purchases' = purchases \cup {row}
  /\ IF sold THEN /\ event' = Taken(event, in.quantity)
                  /\ stock' = [stock EXCEPT ![DefaultType] =
                                  Taken(event, in.quantity)]
             ELSE UNCHANGED <<event, stock>>
  /\ UNCHANGED <<mode, types, switchTo, pc, local, changes>>

-----------------------------------------------------------------------------
(* The writer-mode switch.                                                 *)

Opposite(m) == IF m = "legacy" THEN "ticket_type" ELSE "legacy"

\* checkCutoverDatabase: the categories a reachable database can violate.
CutoverReady(m) ==
  /\ event.total = TotalOf(types, stock)
  /\ event.remaining = RemainingOf(types, stock)
  /\ m = "legacy" => types \subseteq {DefaultType}

\* The exclusive barrier: in-flight transactions drain, new ones wait.
AcquireExclusiveBarrier(m) ==
  /\ ~ExclusiveBarrierHeld
  /\ SharedBarrierHolders = {}
  /\ switchTo' = m
  /\ UNCHANGED <<tables, pc, local, changes>>

\* Both parity checks pass, UPDATE inventory_writer_control, COMMIT.
CommitSwitch ==
  /\ ExclusiveBarrierHeld
  /\ mode = Opposite(switchTo)
  /\ CutoverReady(mode) /\ CutoverReady(switchTo)
  /\ mode' = switchTo
  /\ switchTo' = "none"
  /\ UNCHANGED <<types, event, stock, purchases, pc, local, changes>>

\* A violation, a wrong current mode, a timeout: ROLLBACK.
AbortSwitch ==
  /\ ExclusiveBarrierHeld
  /\ switchTo' = "none"
  /\ UNCHANGED <<tables, pc, local, changes>>

-----------------------------------------------------------------------------
\* What an attempt does by itself once begun.
Proceed(t) == \/ AcquireSharedBarrier(t) \/ AcquireRequestLock(t) \/ Replay(t) \/ Resolve(t)
              \/ UpdateActiveInventory(t) \/ FindSoldOut(t)
              \/ MirrorInventory(t) \/ InsertPurchase(t)
              \/ LoseInsertRace(t) \/ RecoverReplay(t) \/ Commit(t)

Fault(t) == CommitReplyLost(t) \/ Rollback(t) \/ RecoveryFails(t)

Switch == \/ \E m \in Modes : AcquireExclusiveBarrier(m)
          \/ CommitSwitch \/ AbortSwitch

Next == \/ \E t \in Attempts, in \in Input : Begin(t, in)
        \/ \E t \in Attempts : Proceed(t) \/ Fault(t)
        \/ CreateEvent
        \/ \E y \in Types : AddTicketType(y)
        \/ \E o \in OldAttempts, in \in Input : OldReleasePurchase(o, in)
        \/ Switch

Spec == Init /\ [][Next]_vars

\* Statements of an open transaction are executed, and a switch ends within its
\* statement and transaction timeouts (WF).  PostgreSQL serves a lock queue in
\* order, so one switch after another cannot keep a writer out for ever (SF).
Fairness == /\ \A t \in Attempts : /\ WF_vars(Proceed(t))
                                   /\ SF_vars(AcquireSharedBarrier(t))
            /\ WF_vars(CommitSwitch \/ AbortSwitch)

FairSpec == Spec /\ Fairness
-----------------------------------------------------------------------------
(* Properties.                                                             *)

\* Types of every table and local variable; quantities never go negative.
TypeOK ==
  /\ mode \in Modes
  /\ switchTo \in Modes \cup {"none"}
  /\ types \subseteq Types
  /\ event \in Inventory
  /\ stock \in [Types -> Inventory]
  /\ purchases \subseteq PurchaseRow
  /\ pc \in [Attempts -> Steps]
  /\ request \in [Attempts -> Input \cup {NoInput}]
  /\ usedMode \in [Attempts -> Modes]
  /\ chosen \in [Attempts -> Types]
  /\ draftEvent \in [Attempts -> Inventory]
  /\ draftStock \in [Attempts -> Inventory]
  /\ result \in [Attempts -> PurchaseRow \cup {NoRow}]
  /\ changes \subseteq Change

Confirmed(y) == {p \in purchases : p.type = y /\ p.status = "confirmed"}
SoldOf(y) == SumFunction([p \in Confirmed(y) |-> p.quantity])

\* No oversell and no lost ticket: for every type, what is left plus what the
\* confirmed rows sold is what it started with, across concurrent purchases,
\* rollbacks, lost commit replies, old-release writers and mode switches.
StockMatchesLedger ==
  \A y \in types : stock[y].remaining + SoldOf(y) = stock[y].total

\* The Event row is the aggregate of the types' rows in every committed state,
\* whichever side is active: what lists, events and the switch's check rely on.
MirrorParity ==
  /\ event.total = TotalOf(types, stock)
  /\ event.remaining = RemainingOf(types, stock)

\* A request key is decided once, confirmed or rejected, also when the previous
\* release, which takes no request lock, races this one.
OneDecisionPerKey ==
  \A p, q \in purchases : p.key = q.key /\ p.key # NoKey => p = q

\* Whatever an attempt is told is on record: its own row, or the row of its key
\* with its payload; a 409 only when the key was decided for another payload.
AnswersAreOnRecord ==
  \A t \in Attempts :
    /\ pc[t] \in {"created", "replayed"} =>
         /\ result[t] \in purchases
         /\ result[t].key = request[t].key
         /\ result[t].quantity = request[t].quantity
         /\ request[t].type # NoType => result[t].type = request[t].type
    /\ pc[t] = "conflict" =>
         \E p \in purchases : /\ p.key = request[t].key /\ p.key # NoKey
                              /\ \/ p.quantity # request[t].quantity
                                 \/ p.type # request[t].type

\* The writer mode a transaction read stays the current one until it ends: the
\* switch drains the writers, so nobody updates the side that became inactive.
WriterModeHeld ==
  \A t \in Attempts :
    pc[t] \in ModeRead => usedMode[t] = mode

\* The projection compares versions only: two details with the same version
\* carry the same values, and no detail contradicts or outruns the tables.
ChangesAgree ==
  \A c \in changes :
    /\ \A d \in changes :
         /\ c.event.version = d.event.version => c.event = d.event
         /\ c.type = d.type /\ c.stock.version = d.stock.version
              => c.stock = d.stock
    /\ c.event.version <= event.version
    /\ c.event.version = event.version => c.event = event
    /\ c.stock.version <= stock[c.type].version
    /\ c.stock.version = stock[c.type].version => c.stock = stock[c.type]

\* Every committed change of a row of an existing Event moves its version up,
\* through both mirrors and both directions of the switch.
VersionsAdvance ==
  [][types # {} =>
       /\ event' # event => event'.version > event.version
       /\ \A y \in types :
            stock'[y] # stock[y] => stock'[y].version > stock[y].version]_vars

\* The transactions implement the abstract sale: every change of the committed
\* stock is the commit of exactly one ledger row that sells it, and a refusal
\* committed late is still justified by the stock at its commit.
Sale == INSTANCE TicketSale WITH
          onSale <- types,
          left <- [y \in Types |-> stock[y].remaining],
          ledger <- purchases,
          Buys <- Attempts \cup OldAttempts,
          Amounts <- {Capacity[y] : y \in Types}

ImplementsSale == Sale!Spec

\* Each commit is one atomic step of the inventory tables: what the projection
\* is built on, whatever the statements of several transactions do in between.
Tables == INSTANCE InventoryTables

ImplementsTables == Tables!TablesSpec

\* No transaction waits for ever: the lock orders of the two modes never form a
\* cycle, no lock outlives its transaction, and a switch lets writers go on.
EveryPurchaseEnds ==
  \A t \in Attempts : pc[t] = "begun" ~> pc[t] \in Ended
=============================================================================
