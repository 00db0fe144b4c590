------------------------- MODULE InventoryProjection -------------------------
(***************************************************************************)
(* The search document of one Event: details published after a commit, the *)
(* SQS queue, the projection workers that apply them with OpenSearch       *)
(* scripts (src/search/events-projection.store.ts), the rebuild from the   *)
(* database, and what a reconciliation reports about the document.         *)
(*                                                                         *)
(* A document that does not exist is EmptyDocument: every script upserts,  *)
(* and writes a field that tells the document from the empty one.          *)
(***************************************************************************)
EXTENDS InventoryTables, FiniteSets

CONSTANTS Workers,   \* worker tasks
          BatchSize, \* MaxNumberOfMessages of a receive
          MaxVersion, \* the versions EveryMessageLands follows
          Absent     \* null: a field that is not set

ASSUME TypesAssumption == DefaultType \in Types /\ "metadata" \notin Types
ASSUME BatchAssumption == BatchSize \in Nat \ {0}
ASSUME CapacityAssumption == /\ MaxInteger \in Nat
                             /\ Capacity \in [Types -> 0..MaxInteger]
ASSUME QuantitiesAssumption == Quantities \subseteq Nat \ {0}
ASSUME AbsentAssumption == Absent \notin Inventory \cup Nat

VARIABLES past,     \* history: [event, stock] of every committed state
          queue,    \* messages in SQS, received or not
          batch,    \* what each worker has received and not deleted
          handled,  \* the message a worker has applied and not yet deleted
          doc,      \* the document
          rebuild   \* the rebuild run: its step and what it read

search == <<batch, handled, doc>>
vars == <<tables, past, queue, search, rebuild>>
-----------------------------------------------------------------------------
Row == Inventory \cup {Absent}
Rows == [Types -> Row]
Number == 0..MaxInteger \cup {Absent}
Document == [listed: BOOLEAN, total: Number, remaining: Number, event: Row, stock: Rows]
EmptyDocument == [listed |-> FALSE, total |-> Absent, remaining |-> Absent,
                  event |-> Absent, stock |-> [y \in Types |-> Absent]]

\* EventListed; InventoryChanged of this release and of the previous one.
Listed(n) == [kind |-> "listed", total |-> n]
Versioned(y, row, all) == [kind |-> "versioned", type |-> y, stock |-> row, event |-> all]
Legacy(n) == [kind |-> "legacy", remaining |-> n]
Message == [kind: {"listed"}, total: 0..MaxInteger]
           \cup [kind: {"versioned"}, type: Types, stock: Inventory, event: Inventory]
           \cup [kind: {"legacy"}, remaining: 0..MaxInteger]

\* The rows of the types on sale, as a read of the database returns them.
StockRows(ys, rows) == [y \in Types |-> IF y \in ys THEN rows[y] ELSE Absent]
TypesOf(rows) == {y \in Types : rows[y] # Absent}
-----------------------------------------------------------------------------
(* The scripts: document to document, atomic in OpenSearch.                *)

Newer(new, old) == old = Absent \/ new.version > old.version

\* The same version with other values: the script throws.
Contradicts(new, old) == /\ old # Absent
                         /\ new.version = old.version
                         /\ new # old

GuardThrows(d, m) == \/ Contradicts(m.stock, d.stock[m.type])
                     \/ Contradicts(m.event, d.event)

\* Mutant: the type's version decides for the Event's fields as well.
GuardByTypeVersion(d, m) ==
  IF ~Newer(m.stock, d.stock[m.type]) THEN d
  ELSE [d EXCEPT !.stock[m.type] = m.stock, !.event = m.event,
                 !.total = m.event.total, !.remaining = m.event.remaining]

\* INVENTORY_VERSION_GUARD_SCRIPT: type and Event are guarded independently.
GuardScript(d, m) ==
  LET typed == IF Newer(m.stock, d.stock[m.type])
               THEN [d EXCEPT !.stock[m.type] = m.stock] ELSE d
  IN IF Newer(m.event, d.event)
     THEN [typed EXCEPT !.event = m.event, !.total = m.event.total,
                        !.remaining = m.event.remaining]
     ELSE typed

\* Mutant: a detail without version is applied to a versioned document.
LegacyUnguarded(d, n) == [d EXCEPT !.remaining = n]

\* LEGACY_INVENTORY_SCRIPT.
LegacyScript(d, n) == IF d.event = Absent THEN [d EXCEPT !.remaining = n] ELSE d

\* EVENT_METADATA_SCRIPT: quantities are seeded where no detail has set them.
MetadataScript(d, total, remaining) ==
  [d EXCEPT !.listed = TRUE,
            !.total = IF d.event = Absent /\ @ = Absent THEN total ELSE @,
            !.remaining = IF d.event = Absent /\ @ = Absent THEN remaining ELSE @]

\* processEnvelope.
Throws(d, m) == m.kind = "versioned" /\ GuardThrows(d, m)
Applied(d, m) == CASE m.kind = "listed" -> MetadataScript(d, m.total, m.total)
                   [] m.kind = "versioned" -> GuardScript(d, m)
                   [] m.kind = "legacy" -> LegacyScript(d, m.remaining)
-----------------------------------------------------------------------------
NoRead == [event |-> EmptyInventory, stock |-> [y \in Types |-> Absent]]
NoRebuild == [step |-> "idle", read |-> NoRead, todo |-> {}]

Init ==
  /\ TablesInit
  /\ past = {}
  /\ queue = {}
  /\ batch = [w \in Workers |-> {}]
  /\ handled = [w \in Workers |-> {}]
  /\ doc = EmptyDocument
  /\ rebuild = NoRebuild

\* A commit is followed by publish(), which swallows every error: the message
\* reaches the queue or is lost.
Publish(m) == queue' \in {queue, queue \cup {m}}

Remember == past' = past \cup {[event |-> event', stock |-> StockRows(types', stock')]}

ListEvent ==
  /\ CreateEvent
  /\ Publish(Listed(Capacity[DefaultType]))
  /\ Remember
  /\ UNCHANGED <<search, rebuild>>

\* A type inserted out of band: nothing is published for it.
ListType(y) ==
  /\ AddTicketType(y)
  /\ Remember
  /\ UNCHANGED <<queue, search, rebuild>>

Purchase(y, q) ==
  /\ SellFromType(y, q) \/ (y = DefaultType /\ SellFromEvent(q))
  /\ Publish(Versioned(y, stock'[y], event'))
  /\ Remember
  /\ UNCHANGED <<search, rebuild>>

\* The previous release sells from the Event row and publishes no version.
OldReleasePurchase(q) ==
  /\ SellFromEvent(q)
  /\ Publish(Legacy(event'.remaining))
  /\ Remember
  /\ UNCHANGED <<search, rebuild>>

Cutover ==
  /\ SwitchMode
  /\ UNCHANGED <<past, queue, search, rebuild>>
-----------------------------------------------------------------------------
(* Workers: pollOnce.                                                      *)

\* A receive.  Messages stay in the queue until they are deleted: when their
\* visibility timeout has passed, another receive returns them again.
Receive(w, ms) ==
  /\ batch[w] = {}
  /\ ms # {} /\ Cardinality(ms) <= BatchSize
  /\ batch' = [batch EXCEPT ![w] = ms]
  /\ UNCHANGED <<tables, past, queue, handled, doc, rebuild>>

\* handleMessage, one message of the batch after the other.
Handle(w, m) ==
  /\ m \in batch[w] /\ handled[w] = {}
  /\ ~Throws(doc, m)
  /\ doc' = Applied(doc, m)
  /\ handled' = [handled EXCEPT ![w] = {m}]
  /\ UNCHANGED <<tables, past, queue, batch, rebuild>>

\* DeleteMessage after handleMessage has returned.
Delete(w) ==
  /\ handled[w] # {}
  /\ queue' = queue \ handled[w]
  /\ batch' = [batch EXCEPT ![w] = @ \ handled[w]]
  /\ handled' = [handled EXCEPT ![w] = {}]
  /\ UNCHANGED <<tables, past, doc, rebuild>>

\* Mutant: the error is logged and the message deleted all the same.
SwallowError(w) ==
  /\ batch[w] # {}
  /\ queue' = queue \ batch[w]
  /\ batch' = [batch EXCEPT ![w] = {}]
  /\ handled' = [handled EXCEPT ![w] = {}]
  /\ UNCHANGED <<tables, past, doc, rebuild>>

\* A script throws, a call fails, the task is stopped: the rest of the batch is
\* given up, and what was handled and not deleted will be received again.
AbandonBatch(w) ==
  /\ batch[w] # {}
  /\ batch' = [batch EXCEPT ![w] = {}]
  /\ handled' = [handled EXCEPT ![w] = {}]
  /\ UNCHANGED <<tables, past, queue, doc, rebuild>>
-----------------------------------------------------------------------------
(* The rebuild: the Event row, then the types' rows, without a snapshot;   *)
(* then bulk updates with the workers' scripts.                            *)

ReadAggregate ==
  /\ rebuild.step \in {"idle", "done"}
  /\ types # {}
  /\ rebuild' = [NoRebuild EXCEPT !.step = "aggregate", !.read.event = event]
  /\ UNCHANGED <<tables, past, queue, search>>

ReadTypes ==
  /\ rebuild.step = "aggregate"
  /\ rebuild' = [rebuild EXCEPT !.step = "write", !.read.stock = StockRows(types, stock),
                                !.todo = types \cup {"metadata"}]
  /\ UNCHANGED <<tables, past, queue, search>>

\* The items of the bulk requests, metadata first.  One that fails is left to
\* do; the others are executed all the same.
WriteMetadata ==
  LET row == rebuild.read.event IN
  /\ rebuild.todo = TypesOf(rebuild.read.stock) \cup {"metadata"}
  /\ doc' = MetadataScript(doc, row.total, row.remaining)
  /\ rebuild' = [rebuild EXCEPT !.todo = @ \ {"metadata"}]
  /\ UNCHANGED <<tables, past, queue, batch, handled>>

WriteType(y) ==
  LET m == Versioned(y, rebuild.read.stock[y], rebuild.read.event) IN
  /\ y \in rebuild.todo
  /\ ~Throws(doc, m)
  /\ doc' = Applied(doc, m)
  /\ rebuild' = [rebuild EXCEPT !.todo = @ \ {y}]
  /\ UNCHANGED <<tables, past, queue, batch, handled>>

\* Mutant: the items' errors are ignored, HTTP 200 is taken for success.
AllSent == rebuild.step = "write"

\* sendBulk throws if an item failed.
AllWritten == rebuild.step = "write" /\ rebuild.todo = {}

\* The index is refreshed and a report is returned.
FinishRebuild ==
  /\ AllWritten
  /\ rebuild' = [rebuild EXCEPT !.step = "done"]
  /\ UNCHANGED <<tables, past, queue, search>>

\* An exception, or the task is stopped, before a result is reported.
AbortRebuild ==
  /\ rebuild.step \notin {"idle", "done"}
  /\ rebuild' = NoRebuild
  /\ UNCHANGED <<tables, past, queue, search>>
-----------------------------------------------------------------------------
(* The reconciliation changes nothing.  Both tables are read in one         *)
(* REPEATABLE READ snapshot, which is a member of `past', and the document  *)
(* at some time after that.                                                 *)

\* Mutant: values are compared whatever the versions are.
DifferentValues(mine, theirs) == /\ mine.total = theirs.total
                                 /\ mine.remaining # theirs.remaining

\* contract_corruption of one row: the same version with other values.
CorruptRow(mine, theirs) == mine.version = theirs.version /\ mine # theirs

\* mgetDocuments and compareEvent: the categories recorded for the Event.
Findings(s, d) ==
  LET versioned == d.event # Absent \/ TypesOf(d.stock) # {}
      common == TypesOf(s.stock) \cap TypesOf(d.stock)
      record(category, condition) == IF condition THEN {category} ELSE {}
  IN IF d = EmptyDocument THEN {"missing_event_document"}
     ELSE IF ~versioned THEN {"unversioned_projection"}
     ELSE IF d.event = Absent \/ TypesOf(d.stock) = {} THEN {"malformed_projection"}
     ELSE UNION {
       record("contract_corruption", \/ CorruptRow(s.event, d.event)
                                     \/ \E y \in common : CorruptRow(s.stock[y], d.stock[y])),
       record("event_mismatch", s.event.version # d.event.version),
       record("metadata_mismatch", ~d.listed),
       record("ticket_type_mismatch",
              \E y \in common : s.stock[y].version # d.stock[y].version),
       record("missing_ticket_type", TypesOf(s.stock) \ common # {}),
       record("unexpected_ticket_type", TypesOf(d.stock) \ common # {})}
-----------------------------------------------------------------------------
Worker(w) == \/ \E ms \in SUBSET queue : Receive(w, ms)
             \/ \E m \in batch[w] : Handle(w, m)
             \/ Delete(w) \/ AbandonBatch(w)

Rebuild == \/ ReadAggregate \/ ReadTypes \/ WriteMetadata
           \/ \E y \in Types : WriteType(y)
           \/ FinishRebuild \/ AbortRebuild

Next == \/ ListEvent \/ Cutover
        \/ \E y \in Types : ListType(y)
        \/ \E q \in Quantities : OldReleasePurchase(q) \/ \E y \in Types : Purchase(y, q)
        \/ \E w \in Workers : Worker(w)
        \/ Rebuild

Spec == Init /\ [][Next]_vars
\* Workers go on receiving (WF).  A call that failed succeeds at last when it is
\* repeated (SF): what never succeeds is moved to the dead-letter queue, which
\* is a loss to the projection like a failed publish.
Fairness == /\ WF_vars(\E w \in Workers, ms \in SUBSET queue : Receive(w, ms))
            /\ SF_vars(\E w \in Workers : \E m \in batch[w] : Handle(w, m))
            /\ SF_vars(\E w \in Workers : Delete(w))

FairSpec == Spec /\ Fairness
-----------------------------------------------------------------------------
(* Properties.                                                             *)

\* Types of the document, the messages and what the rebuild has read.
TypeOK ==
  /\ mode \in Modes
  /\ types \subseteq Types
  /\ event \in Inventory
  /\ stock \in [Types -> Inventory]
  /\ past \subseteq [event: Inventory, stock: Rows]
  /\ queue \subseteq Message
  /\ batch \in [Workers -> SUBSET Message]
  /\ handled \in [Workers -> SUBSET Message]
  /\ \A w \in Workers : handled[w] \subseteq batch[w]
  /\ doc \in Document
  /\ rebuild \in [step: {"idle", "aggregate", "write", "done"},
                  read: [event: Inventory, stock: Rows],
                  todo: SUBSET (Types \cup {"metadata"})]

\* Every row of the document is a row the database once committed, values and
\* version together, and once the Event's row is versioned the quantities that
\* searches show are its quantities: no order of details of two types, of old
\* and new releases, of late metadata and of a rebuild makes up a mixture.
DocumentOnRecord ==
  /\ \A y \in Types :
       doc.stock[y] # Absent => \E p \in past : p.stock[y] = doc.stock[y]
  /\ doc.event # Absent =>
       /\ \E p \in past : p.event = doc.event
       /\ doc.total = doc.event.total
       /\ doc.remaining = doc.event.remaining

\* What the worker's task and the rebuild are about to apply.
Pending == (UNION {batch[w] : w \in Workers}) \cup queue
           \cup {Versioned(y, rebuild.read.stock[y], rebuild.read.event) :
                     y \in rebuild.todo \ {"metadata"}}

\* The guard's "contract corruption" exception, which sends a message to the
\* dead-letter queue and makes every rebuild fail, is never raised by details
\* and reads of this database, in whatever order they meet the document.
GuardNeverThrows == \A m \in Pending : ~Throws(doc, m)

\* Nothing takes the document back: not a late or repeated detail, not one
\* without version, not metadata after the fact, not a rebuild that read before
\* a newer detail was applied.
DocumentNeverGoesBack ==
  [][/\ \A y \in Types :
          doc.stock[y] # Absent =>
            /\ doc'.stock[y] # Absent
            /\ doc'.stock[y] # doc.stock[y] => doc'.stock[y].version > doc.stock[y].version
     /\ doc.event # Absent =>
          /\ doc'.event # Absent
          /\ doc'.event # doc.event => doc'.event.version > doc.event.version]_doc

\* A row of the document has reached a version.
Reached(row, version) == row # Absent /\ row.version >= version

\* A rebuild that reports success has repaired the document, whatever was lost
\* before it: nothing in the document is older than what the rebuild read, and
\* if the tables have not moved since, the document shows them exactly; old
\* messages that arrive after it do not undo that.
RebuildCatchesUp ==
  rebuild.step = "done" =>
    /\ doc.listed
    /\ Reached(doc.event, rebuild.read.event.version)
    /\ \A y \in TypesOf(rebuild.read.stock) :
         Reached(doc.stock[y], rebuild.read.stock[y].version)
    /\ event = rebuild.read.event =>
         /\ doc.event = event /\ doc.stock = StockRows(types, stock)
         /\ doc.total = event.total /\ doc.remaining = event.remaining

\* The categories on which an operator stops everything are no false alarms:
\* comparing a snapshot with a document that runs behind or ahead of it never
\* yields them.  And a report without findings is right: the document shows the
\* Event as the snapshot does, the top-level quantities too, which no category
\* compares.
ReportIsRight ==
  \A s \in past :
    LET found == Findings(s, doc) IN
    /\ found \cap {"contract_corruption", "malformed_projection"} = {}
    /\ found = {} => doc = [listed |-> TRUE, total |-> s.event.total,
                            remaining |-> s.event.remaining,
                            event |-> s.event, stock |-> s.stock]

\* A message in the queue is not lost by the workers: whatever crashes, batches
\* given up and deletions after a second delivery do, its content reaches the
\* document, or something newer does.
EveryMessageLands ==
  /\ (\E m \in queue : m.kind = "listed") ~> doc.listed
  /\ (\E m \in queue : m.kind = "legacy") ~> doc.remaining # Absent
  /\ \A n \in 1..MaxVersion :
       /\ (\E m \in queue : m.kind = "versioned" /\ m.event.version = n)
             ~> Reached(doc.event, n)
       /\ \A y \in Types :
            (\E m \in queue : m.kind = "versioned" /\ m.type = y /\ m.stock.version = n)
               ~> Reached(doc.stock[y], n)
=============================================================================
