--------------------------- MODULE CutoverReadiness ---------------------------
(***************************************************************************)
(* The cutover checker, src/cutover/ticket-type-cutover-readiness.ts as    *)
(* check-ticket-type-cutover-readiness.ts runs it: is the system ready to  *)
(* switch its writer mode (preflight), or in order after a switch          *)
(* (postflight)?  It reads the database in one snapshot and the counters   *)
(* live, page by page and key by key, while purchases go on.               *)
(*                                                                         *)
(* Around it are the actions that change what it looks at: purchases,      *)
(* Event creation, seeds, evictions, direct SQL, and the switch that       *)
(* follows a green check.  A purchase is a reservation and a transaction   *)
(* here: InventoryCounters and PurchaseTransaction have its steps, and the *)
(* lost calls and replies that are left out here.                          *)
(***************************************************************************)
EXTENDS Naturals, FiniteSets, FiniteSetsExt, Functions

CONSTANTS Events,       \* Events, in the order of their ids
          Types,        \* Ticket Types, in the order of their ids
          Home,         \* the Event of each type
          Defaults,     \* the type that is created with its Event
          Capacity,     \* tickets a type starts with
          PageSize,     \* --page-size
          NoType,       \* a purchase without ticket_type_id
          MaxChanges    \* bound on purchases, changes made by hand and evictions together

ASSUME IdsAssumption == Events \subseteq Nat \ {0} /\ Types \subseteq Nat \ {0}
ASSUME FiniteAssumption == IsFiniteSet(Events) /\ IsFiniteSet(Types)
ASSUME HomeAssumption == Home \in [Types -> Events] /\ Defaults \subseteq Types
\* createEvent makes one default type.
ASSUME DefaultsAssumption ==
  \A e \in Events : \E y \in Defaults : \A z \in Defaults : Home[z] = e <=> z = y
ASSUME NoTypeAssumption == NoType \notin Types
ASSUME CapacityAssumption == Capacity \in [Types -> Nat]
ASSUME PageAssumption == PageSize \in Nat \ {0}
ASSUME MaxChangesAssumption == MaxChanges \in Nat

VARIABLES db,       \* the committed tables
          counter,  \* Valkey counters: a function on the keys that exist
          version,  \* their revisions: TRUE for a non-negative safe integer
          cached,   \* writer modes whose plans may still be cached
          buying,   \* the purchase under way
          changes,  \* purchases, changes made by hand and evictions so far
          step,     \* step of the checker
          expect, phase, \* --expect-mode, --phase
          snap,     \* its snapshot
          cursor,   \* the last row of the last page
          page,     \* rows of this page still to look at
          full,     \* the page had PageSize rows
          scanned,  \* keys the SCAN has passed
          found,    \* categories with violations
          code,     \* the exit code of the last check
          still,    \* history: keys nobody has changed since the check began
          busy,     \* history: a purchase or a creation since the check began
          calm,     \* history: active counters were only used as intended
          upset,    \* history: the database changed by hand, or a broken revision dropped,
                    \* since the check began
          sound     \* history: the mode was switched after a check, and nothing changed
                    \* by hand since the check began

valkey == <<counter, version>>
checker == <<step, expect, phase, snap, cursor, page, full, scanned, found, code>>
watched == <<still, busy, calm, upset, sound>>
readinessVars == <<db, valkey, cached, buying, changes, checker, watched>>

WriterModes == {"legacy", "ticket_type"}
OtherMode(m) == IF m = "legacy" THEN "ticket_type" ELSE "legacy"

\* Keys of a type's counter and of an Event's; each has its revision.
TypeKeys == {"type"} \X Types
EventKeys == {"event"} \X Events
Keys == TypeKeys \cup EventKeys
TypeKey(y) == <<"type", y>>
EventKey(e) == <<"event", e>>
NoKey == <<"none", 0>>

\* The default type of an Event.
First(e) == CHOOSE y \in Defaults : Home[y] = e
Fresh(n) == [total |-> n, remaining |-> n]
NoBuyer == [type |-> NoType, plan |-> "none", key |-> NoKey]

Assign(f, k, v) == [x \in DOMAIN f \cup {k} |-> IF x = k THEN v ELSE f[x]]
Drop(f, k) == [x \in DOMAIN f \ {k} |-> f[x]]

\* A type's rows of an Event, added up.
StockOf(d, e) == {y \in DOMAIN d.stock : Home[y] = e}
Sums(d, e) == [total |-> SumFunction([y \in StockOf(d, e) |-> d.stock[y].total]),
               remaining |-> SumFunction([y \in StockOf(d, e) |-> d.stock[y].remaining])]

-----------------------------------------------------------------------------
(* TICKET_TYPE_CUTOVER_DATABASE_SQL, a category at a time.                 *)

DefaultsOf(d, e) == {y \in d.defaults : Home[y] = e}

WithoutOneDefault(d) == \E e \in d.events : Cardinality(DefaultsOf(d, e)) # 1
WithoutEventRow(d) == d.events \ DOMAIN d.legacy # {}
WithoutDefaultStock(d) == \E e \in DOMAIN d.legacy : 
                             \/ DefaultsOf(d, e) = {}
                             \/ DefaultsOf(d, e) \ DOMAIN d.stock # {}
StockWithoutType(d) == DOMAIN d.stock \ d.types # {}
TypeWithoutStock(d) == d.types \ DOMAIN d.stock # {}
OrderWithoutType(d) == \E o \in d.orders : o.type = NoType
OrderOfOtherEvent(d) ==
  \E o \in d.orders : o.type # NoType /\ (o.type \notin d.types \/ Home[o.type] # o.event)

\* An Event without types' rows adds up to 0.
TotalMismatch(d) == \E e \in DOMAIN d.legacy : d.legacy[e].total # Sums(d, e).total
RemainingMismatch(d) ==
  \E e \in DOMAIN d.legacy : d.legacy[e].remaining # Sums(d, e).remaining
NonDefaultStock(d, m) ==
  m = "legacy" /\ (DOMAIN d.stock \cap d.types) \ d.defaults # {}
ControlInvalid(d) == d.mode \notin WriterModes
ControlMismatch(d, m) == d.mode \in WriterModes \ {m}

\* Triggers, their functions and the request index are as the migrations left them.
CompatibilityBroken(d) == ~d.bridge

DatabaseViolations(d, m) ==
  LET violated == [
        event_without_exactly_one_default |-> WithoutOneDefault(d),
        event_without_legacy_inventory |-> WithoutEventRow(d),
        legacy_inventory_without_default_ticket_type_inventory |-> WithoutDefaultStock(d),
        ticket_type_inventory_without_ticket_type |-> StockWithoutType(d),
        ticket_type_without_ticket_type_inventory |-> TypeWithoutStock(d),
        purchase_without_ticket_type |-> OrderWithoutType(d),
        purchase_ticket_type_event_mismatch |-> OrderOfOtherEvent(d),
        legacy_aggregate_total_mismatch |-> TotalMismatch(d),
        legacy_aggregate_remaining_mismatch |-> RemainingMismatch(d),
        non_default_ticket_type_inventory_in_legacy_mode |-> NonDefaultStock(d, m),
        writer_control_state_missing_or_invalid |-> ControlInvalid(d),
        writer_control_mode_mismatch |-> ControlMismatch(d, m),
        compatibility_object_missing_or_invalid |-> CompatibilityBroken(d)]
  IN {c \in DOMAIN violated : violated[c]}

-----------------------------------------------------------------------------
(* The states a check can find.                                            *)

\* The tables of a set of Events with types, nothing sold, everything in order.
Tables(m, es, ys) ==
  LET stock == [y \in ys |-> Fresh(Capacity[y])] IN
  [mode |-> m, events |-> es, types |-> ys, defaults |-> ys \cap Defaults,
   stock |-> stock,
   legacy |-> [e \in es |-> Sums([stock |-> stock], e)],
   orders |-> {}, bridge |-> TRUE]

\* What a key counts.
Row(d, k) == IF k[1] = "type" THEN d.stock[k[2]] ELSE d.legacy[k[2]]
KeysOf(d) == ({"type"} \X DOMAIN d.stock) \cup ({"event"} \X DOMAIN d.legacy)
Namespace(m) == IF m = "legacy" THEN EventKeys ELSE TypeKeys

ReadinessInit ==
  /\ \E e \in Events :
       \/ db = Tables("legacy", {e}, {First(e)})
       \/ \E ys \in SUBSET {y \in Types : Home[y] = e} :
            First(e) \in ys /\ db = Tables("ticket_type", {e}, ys)
  /\ counter = [k \in KeysOf(db) |-> Row(db, k).remaining]
  /\ version = [k \in KeysOf(db) |-> TRUE]
  /\ cached = {db.mode} /\ buying = NoBuyer
  /\ changes = 0
  /\ step = "ended" /\ code = "none"
  /\ expect = db.mode /\ phase = "postflight"
  /\ snap = db /\ cursor = <<0, 0>> /\ page = {} /\ full = FALSE
  /\ scanned = {} /\ found = {}
  /\ still = {} /\ busy = FALSE /\ calm = TRUE /\ upset = FALSE /\ sound = FALSE

\* Keys whose value and revision a step leaves alone stay still.
Value(k) == <<IF k \in DOMAIN counter THEN {counter[k]} ELSE {},
              IF k \in DOMAIN version THEN {version[k]} ELSE {}>>
Watch == still' = {k \in still : Value(k)' = Value(k)}

-----------------------------------------------------------------------------
(* The check.                                                              *)

\* The namespace that the writer does not use is not held to the rows after a switch.
StrictTypes == ~(expect = "legacy" /\ phase = "postflight")

\* Mutant: the phase is not looked at.
StrictInBothPhases == TRUE

StrictEvents == ~(expect = "ticket_type" /\ phase = "postflight")
EventsBecomeActive == expect = "ticket_type" /\ phase = "preflight"

Finds(c) == found' = found \cup {c}
Proceed(to) == step' = to
Unwatched == UNCHANGED <<db, valkey, cached, buying, changes, watched>>
Options == <<expect, phase, snap>>
\* The check is over: its locals go out of scope.
Leave == /\ Proceed("ended")
         /\ cursor' = <<0, 0>> /\ page' = {} /\ full' = FALSE /\ scanned' = {}

\* The snapshot is taken by the first query, checkCutoverDatabase's.
StartCheck(m, p) ==
  /\ step = "ended"
  /\ expect' = m /\ phase' = p
  /\ snap' = db
  /\ found' = DatabaseViolations(db, m)
  /\ Proceed("types")
  /\ cursor' = <<0, 0>> /\ page' = {} /\ full' = FALSE /\ scanned' = {}
  /\ code' = "none"
  /\ still' = Keys
  /\ busy' = (buying # NoBuyer) /\ upset' = FALSE
  /\ UNCHANGED <<db, valkey, cached, buying, changes, calm, sound>>

\* Mutant: the next page begins at the next Event.
BeyondEvent(y, c) == Home[y] > c[1]

\* (event_id, ticket_type_id) > (lastEventId, lastTicketTypeId)
Beyond(y, c) == Home[y] > c[1] \/ (Home[y] = c[1] /\ y > c[2])
Precedes(y, z) == Home[y] < Home[z] \/ (Home[y] = Home[z] /\ y < z)

\* ORDER BY ... LIMIT pageSize, ahead[r] being the rows that sort before r
FirstRows(ahead) == {r \in DOMAIN ahead : Cardinality(ahead[r]) < PageSize}

TypesBeyond(c) == {y \in DOMAIN snap.stock : Beyond(y, c)}

EventsBeyond(c) == {e \in DOMAIN snap.legacy : e > c[1]}

FetchTypes ==
  LET left == TypesBeyond(cursor)
      rows == FirstRows([y \in left |-> {z \in left : Precedes(z, y)}]) IN
  /\ step = "types"
  /\ page' = rows
  /\ full' = (Cardinality(rows) = PageSize)
  /\ Proceed(IF rows = {} THEN "scan" ELSE "typeRows")
  /\ UNCHANGED <<Options, cursor, scanned, found, code>> /\ Unwatched

\* After the last row of a page: the next page, unless this one was short.
NextType(y) ==
  /\ page' = page \ {y}
  /\ cursor' = <<Home[y], y>>
  /\ Proceed(IF page # {y} THEN "typeRows" ELSE IF full THEN "types" ELSE "scan")

\* Mutant: only a counter ahead of its row is a violation.
Ahead(number, row) == number > row.remaining

Differs(number, row) == number # row.remaining

\* GET of the counter.
TypeCounter(y) ==
  LET k == TypeKey(y) IN
  /\ step = "typeRows" /\ y \in page /\ \A z \in page \ {y} : Precedes(y, z)
  /\ IF k \notin DOMAIN counter
     THEN /\ IF StrictTypes THEN Finds("valkey_counter_missing") ELSE UNCHANGED found
          /\ NextType(y)
     ELSE /\ IF counter[k] > snap.stock[y].total THEN Finds("valkey_counter_value_invalid")
             ELSE IF StrictTypes /\ Differs(counter[k], snap.stock[y])
             THEN Finds("valkey_counter_remaining_mismatch")
             ELSE UNCHANGED found
          /\ IF StrictTypes THEN Proceed("typeRevision") /\ UNCHANGED <<page, cursor>>
             ELSE NextType(y)
  /\ UNCHANGED <<Options, full, scanned, code>> /\ Unwatched

\* GET of its revision.
TypeRevision(y) ==
  LET k == TypeKey(y) IN
  /\ step = "typeRevision" /\ y \in page /\ \A z \in page \ {y} : Precedes(y, z)
  /\ IF k \in DOMAIN version /\ version[k] THEN UNCHANGED found
     ELSE Finds("valkey_revision_missing_or_invalid")
  /\ NextType(y)
  /\ UNCHANGED <<Options, full, scanned, code>> /\ Unwatched

\* The SCAN comes across the keys in its own order.
Scan(k) ==
  /\ step = "scan" /\ k \in TypeKeys \ scanned
  /\ scanned' = scanned \cup {k}
  /\ IF k \in DOMAIN counter /\ k[2] \notin DOMAIN snap.stock
     THEN Finds("valkey_counter_without_inventory_row") ELSE UNCHANGED found
  /\ IF scanned' = TypeKeys THEN Proceed("events") /\ cursor' = <<0, 0>>
     ELSE UNCHANGED <<step, cursor>>
  /\ UNCHANGED <<Options, page, full, code>> /\ Unwatched

FetchEvents ==
  LET left == EventsBeyond(cursor)
      rows == FirstRows([e \in left |-> {d \in left : d < e}]) IN
  /\ step = "events"
  /\ page' = rows
  /\ full' = (Cardinality(rows) = PageSize)
  /\ Proceed(IF rows = {} THEN "search" ELSE "eventRows")
  /\ UNCHANGED <<Options, cursor, scanned, found, code>> /\ Unwatched

\* GET of the Event's version, which may outlive the counter.
EventVersion(e) ==
  LET k == EventKey(e) IN
  /\ step = "eventRows" /\ e = Min(page)
  /\ IF k \in DOMAIN version /\ ~version[k]
     THEN Finds("valkey_legacy_version_value_invalid") ELSE UNCHANGED found
  /\ Proceed("eventCounter")
  /\ UNCHANGED <<Options, cursor, page, full, scanned, code>> /\ Unwatched

\* GET of the Event's counter; without it purchases go to the database.
EventCounter(e) ==
  LET k == EventKey(e) IN
  /\ step = "eventCounter" /\ e = Min(page)
  /\ IF k \notin DOMAIN counter
     THEN IF EventsBecomeActive THEN Finds("valkey_legacy_counter_missing") ELSE UNCHANGED found
     ELSE IF counter[k] > snap.legacy[e].total THEN Finds("valkey_legacy_counter_value_invalid")
     ELSE IF StrictEvents /\ Differs(counter[k], snap.legacy[e])
     THEN Finds("valkey_legacy_counter_remaining_mismatch")
     ELSE UNCHANGED found
  /\ page' = page \ {e}
  /\ cursor' = <<e, 0>>
  /\ Proceed(IF page # {e} THEN "eventRows" ELSE IF full THEN "events" ELSE "search")
  /\ UNCHANGED <<Options, full, scanned, code>> /\ Unwatched

\* The reconciliation of the search index: InventoryProjection has its categories.
SearchFinds == UNCHANGED found \/ Finds("opensearch_projection_diff")

\* hasTicketTypeCutoverViolations, over the complete set of categories.
ExitCode(categories) == IF categories = {} THEN "0" ELSE "2"

\* It runs on a connection of its own; before it a control row that is no mode
\* ends the check.
CheckSearch ==
  /\ step = "search"
  /\ Leave
  /\ IF snap.mode \in WriterModes
     THEN /\ SearchFinds
          /\ code' = ExitCode(found')
     ELSE code' = "1" /\ UNCHANGED found
  /\ still' = IF code' = "0" THEN still ELSE {}
  /\ UNCHANGED <<Options, db, valkey, cached, buying, changes, busy, calm, upset, sound>>

\* Any error, a timeout of Valkey included.
CheckFails ==
  /\ step # "ended"
  /\ Leave
  /\ code' = "1" /\ found' = {}
  /\ still' = {}
  /\ UNCHANGED <<Options, db, valkey, cached, buying, changes, busy, calm, upset, sound>>

Check == \/ FetchTypes \/ FetchEvents \/ CheckSearch \/ CheckFails
         \/ \E y \in Types : TypeCounter(y) \/ TypeRevision(y)
         \/ \E k \in TypeKeys : Scan(k)
         \/ \E e \in Events : EventVersion(e) \/ EventCounter(e)

-----------------------------------------------------------------------------
(* What goes on meanwhile.                                                 *)

OneChangeMore == changes < MaxChanges /\ changes' = changes + 1

\* A green preflight, and the switch: under its locks the database is checked
\* again for the one mode and the other (WriterModeSwitch has the steps).
Switch ==
  /\ step = "ended" /\ code = "0" /\ phase = "preflight"
  /\ code' = "none"
  /\ IF /\ DatabaseViolations(db, expect) = {}
        /\ DatabaseViolations([db EXCEPT !.mode = OtherMode(expect)], OtherMode(expect)) = {}
     THEN /\ db' = [db EXCEPT !.mode = OtherMode(expect)]
          /\ cached' = cached \cup {OtherMode(expect)}
          /\ calm' = (calm /\ ~busy) /\ sound' = ~upset
     ELSE UNCHANGED <<db, cached, calm, sound>>
  /\ UNCHANGED <<valkey, buying, changes, step, Options, cursor, page, full, scanned,
                 found, still, busy, upset>>

\* Cached plans run out.
Expire ==
  /\ cached # {db.mode}
  /\ cached' = {db.mode}
  /\ UNCHANGED <<db, valkey, buying, changes, checker, watched>>

\* The counter of the plan: absent, the purchase goes on without; too few, it is
\* sold out; with a broken revision tickets are taken all the same and not known of.
Reserve(y, m) ==
  LET k == IF m = "legacy" THEN EventKey(Home[y]) ELSE TypeKey(y) IN
  /\ buying = NoBuyer
  /\ OneChangeMore
  /\ y \in db.types /\ m \in cached
  /\ k \in DOMAIN counter => counter[k] > 0
  /\ LET known == k \in DOMAIN counter /\ (k \in DOMAIN version => version[k]) IN
     /\ buying' = [type |-> y, plan |-> m, key |-> IF known THEN k ELSE NoKey]
     /\ version' = IF known THEN Assign(version, k, TRUE) ELSE version
  /\ counter' = IF k \in DOMAIN counter THEN [counter EXCEPT ![k] = @ - 1] ELSE counter
  /\ calm' = (calm /\ m = db.mode)
  /\ busy' = TRUE
  /\ Watch
  /\ UNCHANGED <<db, cached, checker, upset, sound>>

\* One ticket, in the row of the active side; the other side follows by trigger.
Sold(d, y) ==
  LET e == Home[y] IN
  IF d.mode = "legacy"
  THEN LET row == [d.legacy[e] EXCEPT !.remaining = @ - 1] IN
       [d EXCEPT !.legacy[e] = row,
                 !.stock = IF d.bridge THEN [@ EXCEPT ![y] = row] ELSE @,
                 !.orders = @ \cup {[event |-> e, type |-> y]}]
  ELSE LET sold == [d EXCEPT !.stock[y].remaining = @ - 1,
                             !.orders = @ \cup {[event |-> e, type |-> y]}] IN
       IF d.bridge THEN [sold EXCEPT !.legacy[e] = Sums(sold, e)] ELSE sold

\* Rows and definitions a sale needs; short of them, or of tickets, it is refused.
CanSell(d, y) ==
  /\ d.mode \in WriterModes
  /\ Home[y] \in DOMAIN d.legacy /\ y \in DOMAIN d.stock \cap d.types
  /\ IF d.mode = "legacy" THEN y \in d.defaults /\ d.legacy[Home[y]].remaining > 0
     ELSE d.stock[y].remaining > 0

\* The transaction, and the sync of its counter, which may come to nothing; only
\* the Event's is made up when it is absent.
Buy ==
  LET y == buying.type
      k == IF buying.plan = "legacy" THEN EventKey(Home[y]) ELSE TypeKey(y) IN
  /\ buying # NoBuyer /\ CanSell(db, y)
  /\ db' = Sold(db, y)
  /\ buying' = NoBuyer
  /\ \/ UNCHANGED valkey
     \/ /\ buying.plan = db.mode
        /\ k \in DOMAIN version => version[k]
        /\ k \in DOMAIN counter \/ k \in EventKeys
        /\ counter' = Assign(counter, k, Row(db', k).remaining)
        /\ version' = Assign(version, k, TRUE)
  /\ Watch
  /\ UNCHANGED <<cached, changes, checker, busy, calm, upset, sound>>

\* The transaction fails: what was reserved is given back, where there is a counter.
Refuse ==
  LET k == buying.key IN
  /\ buying # NoBuyer
  /\ buying' = NoBuyer
  /\ counter' = IF k \in DOMAIN counter THEN [counter EXCEPT ![k] = @ + 1] ELSE counter
  /\ version' = IF k \in DOMAIN counter THEN Assign(version, k, TRUE) ELSE version
  /\ Watch
  /\ UNCHANGED <<db, cached, changes, checker, busy, calm, upset, sound>>

\* EventsService.createEvent, and the counter it sets up afterwards if it can.
CreateEvent(e) ==
  LET y == First(e)
      made == Tables(db.mode, {e}, {y})
      k == IF db.mode = "legacy" THEN EventKey(e) ELSE TypeKey(y) IN
  /\ e \notin db.events /\ db.mode \in WriterModes /\ db.bridge
  /\ e \notin DOMAIN db.legacy /\ y \notin db.types \cup DOMAIN db.stock
  /\ db' = [db EXCEPT !.events = @ \cup {e}, !.types = @ \cup {y},
                      !.defaults = @ \cup {y},
                      !.stock = Assign(@, y, made.stock[y]),
                      !.legacy = Assign(@, e, made.legacy[e])]
  /\ \/ /\ counter' = Assign(counter, k, Capacity[y])
        /\ version' = Assign(version, k, TRUE)
        /\ UNCHANGED calm
     \/ UNCHANGED valkey /\ calm' = FALSE
  /\ busy' = TRUE
  /\ Watch
  /\ UNCHANGED <<cached, buying, changes, checker, upset, sound>>

\* A further type of an Event, inserted out of band, without a counter.
AddTicketType(y) ==
  /\ db.mode = "ticket_type" /\ db.bridge
  /\ Home[y] \in db.events /\ y \notin Defaults
  /\ y \notin db.types \cup DOMAIN db.stock
  /\ LET more == [db EXCEPT !.types = @ \cup {y},
                            !.stock = Assign(@, y, Fresh(Capacity[y]))] IN
     db' = [more EXCEPT !.legacy = Assign(@, Home[y], Sums(more, Home[y]))]
  /\ calm' = FALSE
  /\ UNCHANGED <<valkey, cached, buying, changes, checker, still, busy, upset, sound>>

\* The seed of a key of the namespace that is not in use (CounterSeed has the steps).
Seed(k) ==
  /\ db.mode \in WriterModes /\ cached = {db.mode}
  /\ k \in KeysOf(db) \ Namespace(db.mode)
  /\ counter' = Assign(counter, k, Row(db, k).remaining)
  /\ version' = Assign(version, k, TRUE)
  /\ Watch
  /\ UNCHANGED <<db, cached, buying, changes, checker, busy, calm, upset, sound>>

\* Valkey drops a key.
Evict(k) ==
  /\ OneChangeMore
  /\ \/ k \in DOMAIN counter /\ counter' = Drop(counter, k) /\ UNCHANGED version
     \/ k \in DOMAIN version /\ version' = Drop(version, k) /\ UNCHANGED counter
  /\ calm' = FALSE
  /\ upset' = (upset \/ (k \notin DOMAIN version' /\ k \in DOMAIN version /\ ~version[k]))
  /\ Watch
  /\ UNCHANGED <<db, cached, buying, checker, busy, sound>>

\* What direct SQL can leave behind, constraints and triggers or not.
TypesLost(d) ==
  {[d EXCEPT !.defaults = @ \ {y}] : y \in d.types}
  \cup {[d EXCEPT !.defaults = @ \ {y}, !.types = {}] : y \in d.types}
  \cup {[d EXCEPT !.defaults = @ \ {y}, !.types = @ \ {y}] : y \in d.types}
StockChanged(d) ==
  {[d EXCEPT !.stock = Drop(@, y)] : y \in DOMAIN d.stock}
  \cup {[d EXCEPT !.stock[y].remaining = 0] : y \in DOMAIN d.stock}
EventsChanged(d) ==
  {[d EXCEPT !.legacy = Drop(@, e)] : e \in DOMAIN d.legacy}
  \cup {[d EXCEPT !.legacy[e].remaining = 0] : e \in DOMAIN d.legacy}
  \cup {[d EXCEPT !.legacy[e].total = @ + 1] : e \in DOMAIN d.legacy}
Misordered(d) ==
  {[d EXCEPT !.orders = {[event |-> e, type |-> y]}] : e \in d.events, y \in Types \cup {NoType}}
Disabled(d) == {[d EXCEPT !.bridge = FALSE], [d EXCEPT !.mode = "none"]}

Drifted(d) ==
  TypesLost(d) \cup StockChanged(d) \cup EventsChanged(d) \cup Misordered(d) \cup Disabled(d)

Manual == OneChangeMore /\ calm' = FALSE /\ upset' = TRUE /\ sound' = FALSE

\* Direct SQL. During a check it is as if it came after: the check reads its snapshot.
DirectSql ==
  /\ Manual
  /\ step = "ended"
  /\ db' \in Drifted(db) \ {db}
  /\ UNCHANGED <<valkey, cached, buying, checker, still, busy>>

\* A counter or a revision out of step, whatever the reason, before a check.
Distort(k) ==
  /\ Manual
  /\ step = "ended"
  /\ k \in DOMAIN counter
  /\ \/ /\ \E n \in {0, 9} : counter' = [counter EXCEPT ![k] = n]
        /\ UNCHANGED version
     \/ version' = Assign(version, k, FALSE) /\ UNCHANGED counter
  /\ code' = "none"
  /\ Watch
  /\ UNCHANGED <<db, cached, buying, step, Options, cursor, page, full, scanned,
                 found, busy>>

World == \/ Switch \/ Expire \/ Buy \/ Refuse \/ DirectSql
         \/ \E y \in Types, m \in WriterModes : Reserve(y, m)
         \/ \E e \in Events : CreateEvent(e)
         \/ \E y \in Types : AddTicketType(y)
         \/ \E k \in Keys : Seed(k) \/ Evict(k) \/ Distort(k)

ReadinessNext ==
  \/ \E m \in WriterModes, p \in {"preflight", "postflight"} : StartCheck(m, p)
  \/ Check
  \/ World

ReadinessSpec == ReadinessInit /\ [][ReadinessNext]_readinessVars

-----------------------------------------------------------------------------
(* Properties.                                                             *)

\* A green check has missed nothing: every key nobody touched since it began is as
\* its rules want it of the snapshot, whatever the pages and whatever happened
\* to the other keys meanwhile.
GreenMissedNothing ==
  code = "0" =>
    /\ DatabaseViolations(snap, expect) = {}
    /\ \A k \in still :
         LET held == IF k \in TypeKeys THEN StrictTypes ELSE StrictEvents IN
         /\ k \in DOMAIN counter /\ k \in KeysOf(snap) =>
              /\ counter[k] <= Row(snap, k).total
              /\ held => counter[k] = Row(snap, k).remaining
         /\ k \in KeysOf(snap) \cap TypeKeys /\ held => k \in DOMAIN counter
         /\ k \in TypeKeys \cap DOMAIN counter => k \in KeysOf(snap)
         /\ k \in KeysOf(snap) \cap EventKeys /\ EventsBecomeActive => k \in DOMAIN counter

\* After a switch that followed a green check no counter in use turns buyers away
\* while there are tickets, though purchases, creations, seeds and evictions went on
\* during the check and after.  Not so when direct SQL changed rows after the check
\* had read them, or when a revision that was broken was evicted unseen.
NoFalseSoldOut ==
  sound => \A k \in DOMAIN counter \cap Namespace(db.mode) \cap KeysOf(db) :
             counter[k] + (IF buying.key = k THEN 1 ELSE 0) >= Row(db, k).remaining

\* The relaxed rules of a postflight are wide enough: normal operation since the
\* switch, in the mode expected, is no violation.
NormalOperationIsGreen ==
  step = "ended" /\ phase = "postflight" /\ code \in {"0", "2"}
    /\ expect = snap.mode /\ calm /\ ~busy
  => found \subseteq {"opensearch_projection_diff"}
=============================================================================
