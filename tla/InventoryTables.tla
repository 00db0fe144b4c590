--------------------------- MODULE InventoryTables ---------------------------
(***************************************************************************)
(* The committed inventory tables of one Event, one step per commit: what  *)
(* purchase transactions, their triggers, Event creation and the mode      *)
(* switch do to them.  PurchaseTransaction implements this specification   *)
(* statement by statement; InventoryProjection builds the search document  *)
(* on top of it.                                                           *)
(***************************************************************************)
EXTENDS Naturals, Functions

CONSTANTS Types,       \* Ticket Types the Event can have
          DefaultType, \* the type the events trigger creates
          Quantities,  \* quantities buyers ask for
          Capacity,    \* tickets a type starts with
          MaxInteger   \* the largest INTEGER: 2147483647 in PostgreSQL

VARIABLES mode,  \* inventory_writer_control.writer_mode
          types, \* ticket_types rows of the Event ({}: no Event yet)
          event, \* the ticket_inventory row
          stock  \* the ticket_type_inventory rows

tables == <<mode, types, event, stock>>

Modes == {"legacy", "ticket_type"}
\* A row of the inventory tables. Versions are not bounded by INTEGER here: it
\* takes 2^31 commits of one row to get there.
Inventory == [total: 0..MaxInteger, remaining: 0..MaxInteger, version: Nat]
EmptyInventory == [total |-> 0, remaining |-> 0, version |-> 0]
Fresh(n) == [total |-> n, remaining |-> n, version |-> 0]

\* SET remaining_quantity = remaining_quantity - q, version = version + 1.
Taken(row, q) == [row EXCEPT !.remaining = @ - q, !.version = @ + 1]

\* The reverse mirror: the sum of the types' rows, one version on.
Aggregate(row, ys, rows) ==
  [total |-> SumFunction([y \in ys |-> rows[y].total]),
   remaining |-> SumFunction([y \in ys |-> rows[y].remaining]),
   version |-> row.version + 1]

TablesInit ==
  /\ mode \in Modes
  /\ types = {}
  /\ event = EmptyInventory
  /\ stock = [y \in Types |-> EmptyInventory]

\* The Event with its default type, and the mirror of the active side.
CreateEvent ==
  LET first == [stock EXCEPT ![DefaultType] = Fresh(Capacity[DefaultType])] IN
  /\ types = {}
  /\ types' = {DefaultType}
  /\ stock' = first
  /\ event' = IF mode = "legacy" THEN Fresh(Capacity[DefaultType])
              ELSE Aggregate(EmptyInventory, {DefaultType}, first)
  /\ UNCHANGED mode

\* A further type, inserted out of band.
AddTicketType(y) ==
  LET more == [stock EXCEPT ![y] = Fresh(Capacity[y])] IN
  /\ mode = "ticket_type"
  /\ types # {} /\ y \notin types
  /\ Aggregate(event, types \cup {y}, more) \in Inventory
  /\ types' = types \cup {y}
  /\ stock' = more
  /\ event' = Aggregate(event, types \cup {y}, more)
  /\ UNCHANGED mode

\* A purchase in legacy mode: the Event row, copied to the default type.
SellFromEvent(q) ==
  /\ mode = "legacy"
  /\ types # {} /\ event.remaining >= q
  /\ event' = Taken(event, q)
  /\ stock' = [stock EXCEPT ![DefaultType] = Taken(event, q)]
  /\ UNCHANGED <<mode, types>>

\* A purchase in ticket_type mode: the type's row, aggregated into the Event
\* row; a sum beyond INTEGER raises an exception.
SellFromType(y, q) ==
  LET sold == [stock EXCEPT ![y] = Taken(stock[y], q)] IN
  /\ mode = "ticket_type"
  /\ y \in types /\ stock[y].remaining >= q
  /\ Aggregate(event, types, sold) \in Inventory
  /\ stock' = sold
  /\ event' = Aggregate(event, types, sold)
  /\ UNCHANGED <<mode, types>>

Opposite(m) == IF m = "legacy" THEN "ticket_type" ELSE "legacy"

\* The switch's parity checks read the same sums; going back to the Event row
\* needs an Event whose only type is the default one.
SwitchMode ==
  /\ mode = "ticket_type" => types \subseteq {DefaultType}
  /\ mode' = Opposite(mode)
  /\ UNCHANGED <<types, event, stock>>

TablesNext == \/ CreateEvent
              \/ \E y \in Types : AddTicketType(y)
              \/ \E q \in Quantities : SellFromEvent(q) \/ \E y \in Types : SellFromType(y, q)
              \/ SwitchMode

TablesSpec == TablesInit /\ [][TablesNext]_tables
=============================================================================
