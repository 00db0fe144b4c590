--------------------- MODULE InventoryProjection_proofs ---------------------
(***************************************************************************)
(* Theorems about the search document, for any number of workers, types    *)
(* and purchases.  The inductive invariant says that versions identify the *)
(* committed states (History), that what the messages, the rebuild and the *)
(* document hold are rows of such states (MessagesInv, ReadsInv,           *)
(* DocumentInv), and what a rebuild has achieved so far.  Its part on the  *)
(* tables and messages (SourceInv) needs no sound document: the theorems   *)
(* about the repair CLI, at the end, rest on it while the document may     *)
(* hold anything that damage has left there.                               *)
(***************************************************************************)
EXTENDS ProjectionRepair, SumTheorems

-----------------------------------------------------------------------------
(* The scripts.                                                            *)

\* A row of the document is replaced by a later one only.
Later(new, old) == old # Absent => new # Absent /\ (new = old \/ new.version > old.version)

\* A document may turn into another one.
Forward(d, e) == /\ \A y \in Types : Later(e.stock[y], d.stock[y])
                 /\ Later(e.event, d.event)
                 /\ d.listed => e.listed

\* The quantities that searches show are the versioned ones.
ShowsEvent(d) == d.event # Absent => d.total = d.event.total /\ d.remaining = d.event.remaining

\* An applied metadata message or operation: it touches no row.
LEMMA MetadataApplied ==
  ASSUME NEW d \in Document, NEW t \in 0..MaxInteger, NEW r \in 0..MaxInteger
  PROVE  LET e == MetadataScript(d, t, r) IN
         /\ e \in Document
         /\ e.stock = d.stock /\ e.event = d.event /\ e.listed
         /\ ShowsEvent(d) => ShowsEvent(e)
BY DEF MetadataScript, Document, Number, ShowsEvent

\* An applied detail without version: it touches no row.
LEMMA LegacyApplied ==
  ASSUME NEW d \in Document, NEW r \in 0..MaxInteger
  PROVE  LET e == LegacyScript(d, r) IN
         /\ e \in Document
         /\ e.stock = d.stock /\ e.event = d.event /\ e.listed = d.listed
         /\ ShowsEvent(d) => ShowsEvent(e)
BY DEF LegacyScript, Document, Number, ShowsEvent

\* An applied versioned detail: each row stays or becomes the detail's, and is
\* then at least as new as the detail's.
LEMMA VersionedApplied ==
  ASSUME NEW d \in Document, NEW y \in Types, NEW s \in Inventory, NEW a \in Inventory
  PROVE  LET e == GuardScript(d, Versioned(y, s, a)) IN
         /\ e \in Document
         /\ e.listed = d.listed
         /\ \A x \in Types \ {y} : e.stock[x] = d.stock[x]
         /\ e.stock[y] \in {d.stock[y], s} /\ Reached(e.stock[y], s.version)
         /\ Later(e.stock[y], d.stock[y])
         /\ e.event \in {d.event, a} /\ Reached(e.event, a.version)
         /\ Later(e.event, d.event)
         /\ ShowsEvent(d) => ShowsEvent(e)
<1> DEFINE m == Versioned(y, s, a)
           typed == IF Newer(m.stock, d.stock[m.type])
                    THEN [d EXCEPT !.stock[m.type] = m.stock] ELSE d
           e == GuardScript(d, m)
<1>1. m.type = y /\ m.stock = s /\ m.event = a
  BY DEF Versioned
<1>2. /\ s.version \in Nat /\ a.version \in Nat
      /\ a.total \in Number /\ a.remaining \in Number
      /\ s \in Row /\ a \in Row
  BY DEF Inventory, Number, Row
<1>3. /\ d.stock \in [Types -> Row]
      /\ \A x \in Row : x # Absent => x.version \in Nat
  BY DEF Document, Rows, Row, Inventory
<1>4. /\ typed \in Document
      /\ typed.event = d.event /\ typed.listed = d.listed
      /\ typed.total = d.total /\ typed.remaining = d.remaining
      /\ \A x \in Types \ {y} : typed.stock[x] = d.stock[x]
      /\ typed.stock[y] = IF Newer(s, d.stock[y]) THEN s ELSE d.stock[y]
  BY <1>1, <1>2, <1>3 DEF Document, Rows
<1>5. /\ e \in Document
      /\ e.stock = typed.stock /\ e.listed = typed.listed
      /\ e.event = IF Newer(a, d.event) THEN a ELSE d.event
      /\ ShowsEvent(d) => ShowsEvent(e)
  <2>1. CASE Newer(a, d.event)
    <3>1. e = [typed EXCEPT !.event = a, !.total = a.total, !.remaining = a.remaining]
      BY <2>1, <1>1 DEF GuardScript
    <3> QED BY <2>1, <3>1, <1>4, <1>2 DEF Document, ShowsEvent
  <2>2. CASE ~Newer(a, d.event)
    <3>1. e = typed
      BY <2>2, <1>1 DEF GuardScript
    <3> QED BY <2>2, <3>1, <1>4 DEF ShowsEvent
  <2> QED BY <2>1, <2>2
<1>6. d.event \in Row /\ d.stock[y] \in Row
  BY <1>3 DEF Document
<1>7. /\ e.stock[y] \in {d.stock[y], s} /\ Reached(e.stock[y], s.version)
      /\ Later(e.stock[y], d.stock[y])
  BY <1>2, <1>3, <1>4, <1>5, <1>6, AbsentAssumption DEF Newer, Reached, Later
<1>8. e.event \in {d.event, a} /\ Reached(e.event, a.version) /\ Later(e.event, d.event)
  BY <1>2, <1>3, <1>5, <1>6, AbsentAssumption DEF Newer, Reached, Later
<1> QED BY <1>4, <1>5, <1>7, <1>8

-----------------------------------------------------------------------------
(* Commits.                                                                *)

\* The states of the rebuild.
RebuildStates == [step: {"idle", "aggregate", "write", "done"},
                  read: [event: Inventory, stock: Rows],
                  todo: SUBSET (Types \cup {"metadata"})]

\* TypeOK without the document.
SourceTypes ==
  /\ mode \in Modes
  /\ types \subseteq Types
  /\ event \in Inventory
  /\ stock \in [Types -> Inventory]
  /\ past \subseteq [event: Inventory, stock: Rows]
  /\ queue \subseteq Message
  /\ batch \in [Workers -> SUBSET Message]
  /\ handled \in [Workers -> SUBSET Message]
  /\ \A w \in Workers : handled[w] \subseteq batch[w]
  /\ rebuild \in RebuildStates

LEMMA TypesSplit == TypeOK <=> SourceTypes /\ doc \in Document
BY DEF TypeOK, SourceTypes, RebuildStates

TablesInv ==
  /\ types # {} => DefaultType \in types
  /\ \A y \in types : stock[y].version <= event.version

\* A commit: the Event's version moves up, and with it that of each changed row.
Commits ==
  /\ types' \subseteq Types /\ DefaultType \in types' /\ types \subseteq types'
  /\ event' \in Inventory /\ stock' \in [Types -> Inventory]
  /\ types # {} => event'.version > event.version
  /\ \A y \in types : stock'[y] = stock[y] \/ stock'[y].version > stock[y].version
  /\ \A y \in types' : stock'[y].version <= event'.version
  /\ mode' = mode

LEMMA FreshInventory ==
  ASSUME NEW y \in Types
  PROVE  Fresh(Capacity[y]) \in Inventory /\ Fresh(Capacity[y]).version = 0
BY CapacityAssumption DEF Fresh, Inventory

LEMMA TakenInventory ==
  ASSUME NEW row \in Inventory, NEW q \in Nat, row.remaining >= q
  PROVE  Taken(row, q) \in Inventory /\ Taken(row, q).version = row.version + 1
<1>1. row.remaining - q \in 0..MaxInteger /\ row.version + 1 \in Nat
  BY CapacityAssumption DEF Inventory
<1>2. row \in [total: 0..MaxInteger, remaining: 0..MaxInteger, version: Nat]
  BY DEF Inventory
<1> QED BY <1>1, <1>2 DEF Taken, Inventory

LEMMA CreateEventCommits == SourceTypes /\ CreateEvent => Commits
<1> SUFFICES ASSUME SourceTypes, CreateEvent PROVE Commits
  OBVIOUS
<1> DEFINE n == Capacity[DefaultType]
           first == [stock EXCEPT ![DefaultType] = Fresh(n)]
<1>1. /\ types = {} /\ types' = {DefaultType} /\ stock' = first /\ mode' = mode
      /\ DefaultType \in Types /\ stock \in [Types -> Inventory]
      /\ n \in 0..MaxInteger /\ MaxInteger \in Nat
  BY TypesAssumption, CapacityAssumption DEF CreateEvent, SourceTypes
<1>2. Fresh(n) \in Inventory /\ Fresh(n).version = 0
  BY <1>1, FreshInventory
<1>3. stock' \in [Types -> Inventory] /\ stock'[DefaultType] = Fresh(n)
  BY <1>1, <1>2
<1>4. event' \in Inventory
  <2>1. CASE mode = "legacy"
    BY <2>1, <1>2 DEF CreateEvent
  <2>2. CASE mode # "legacy"
    <3>1. /\ [y \in {DefaultType} |-> first[y].total] = [y \in {DefaultType} |-> n]
          /\ [y \in {DefaultType} |-> first[y].remaining] = [y \in {DefaultType} |-> n]
      BY <1>1 DEF Fresh
    <3>2. n \in Nat
      BY <1>1
    <3>3. SumFunction([y \in {DefaultType} |-> n]) = n
      BY <3>2, SumSingleton
    <3> HIDE DEF n
    <3>4. Aggregate(EmptyInventory, {DefaultType}, first)
            = [total |-> n, remaining |-> n, version |-> 0 + 1]
      BY <3>1, <3>3 DEF Aggregate, EmptyInventory
    <3>5. event' = Aggregate(EmptyInventory, {DefaultType}, first)
      BY <2>2 DEF CreateEvent, n
    <3> QED BY <3>4, <3>5, <1>1 DEF Inventory
  <2> QED BY <2>1, <2>2
<1>5. event'.version \in Nat
  BY <1>4 DEF Inventory
<1> QED BY <1>1, <1>2, <1>3, <1>4, <1>5 DEF Commits

LEMMA AddTicketTypeCommits ==
  ASSUME SourceTypes, TablesInv, NEW y \in Types, AddTicketType(y)
  PROVE  Commits
<1>1. /\ types # {} /\ y \notin types /\ types' = types \cup {y} /\ mode' = mode
      /\ stock' = [stock EXCEPT ![y] = Fresh(Capacity[y])]
      /\ stock \in [Types -> Inventory] /\ event \in Inventory /\ types \subseteq Types
  BY DEF AddTicketType, SourceTypes
<1>2. event' \in Inventory /\ event'.version = event.version + 1
  BY DEF AddTicketType, Aggregate
<1>3. /\ event.version \in Nat
      /\ \A x \in Types : stock[x].version \in Nat
  BY <1>1 DEF Inventory
<1>4. Fresh(Capacity[y]) \in Inventory /\ Fresh(Capacity[y]).version = 0
  BY FreshInventory
<1> QED BY <1>1, <1>2, <1>3, <1>4 DEF TablesInv, Commits

LEMMA SellFromEventCommits ==
  ASSUME SourceTypes, TablesInv, NEW q \in Quantities, SellFromEvent(q)
  PROVE  Commits /\ event' = stock'[DefaultType]
<1>1. /\ types # {} /\ types' = types /\ mode' = mode
      /\ event' = Taken(event, q)
      /\ stock' = [stock EXCEPT ![DefaultType] = Taken(event, q)]
      /\ event.remaining >= q
      /\ stock \in [Types -> Inventory] /\ event \in Inventory /\ types \subseteq Types
      /\ q \in Nat
  BY QuantitiesAssumption DEF SellFromEvent, SourceTypes
<1>2. /\ event' \in Inventory /\ event'.version = event.version + 1
  BY <1>1, TakenInventory
<1>3. /\ event.version \in Nat
      /\ \A x \in Types : stock[x].version \in Nat
  BY <1>1 DEF Inventory
<1>4. /\ stock' \in [Types -> Inventory] /\ stock'[DefaultType] = event'
      /\ \A x \in Types \ {DefaultType} : stock'[x] = stock[x]
  BY <1>1, <1>2, TypesAssumption
<1> QED BY <1>1, <1>2, <1>3, <1>4 DEF TablesInv, Commits

LEMMA SellFromTypeCommits ==
  ASSUME SourceTypes, TablesInv, NEW y \in Types, NEW q \in Quantities, SellFromType(y, q)
  PROVE  Commits
<1>1. /\ y \in types /\ types' = types /\ mode' = mode
      /\ stock' = [stock EXCEPT ![y] = Taken(stock[y], q)]
      /\ stock[y].remaining >= q
      /\ stock \in [Types -> Inventory] /\ event \in Inventory /\ types \subseteq Types
      /\ q \in Nat
  BY QuantitiesAssumption DEF SellFromType, SourceTypes
<1>2. event' \in Inventory /\ event'.version = event.version + 1
  BY DEF SellFromType, Aggregate
<1>3. /\ event.version \in Nat
      /\ \A x \in Types : stock[x].version \in Nat
  BY <1>1 DEF Inventory
<1>4. /\ Taken(stock[y], q) \in Inventory
      /\ Taken(stock[y], q).version = stock[y].version + 1
  BY <1>1, TakenInventory
<1>5. /\ stock' \in [Types -> Inventory] /\ stock'[y] = Taken(stock[y], q)
      /\ \A x \in Types \ {y} : stock'[x] = stock[x]
  BY <1>1, <1>4
<1> QED BY <1>1, <1>2, <1>3, <1>4, <1>5 DEF TablesInv, Commits

LEMMA CommitKeepsTables ==
  ASSUME Commits PROVE TablesInv'
BY DEF Commits, TablesInv

-----------------------------------------------------------------------------
(* Committed states.                                                       *)

\* The committed state the tables are in.
Now == [event |-> event, stock |-> StockRows(types, stock)]

\* The Event's version identifies a committed state, a type's version a row of
\* that type, and no past version is beyond the current one.
History ==
  /\ types = {} => past = {}
  /\ types # {} => Now \in past
  /\ \A p, q \in past : p.event.version = q.event.version => p = q
  /\ \A p, q \in past : \A y \in Types :
       p.stock[y] # Absent /\ q.stock[y] # Absent =>
         (p.stock[y].version = q.stock[y].version => p.stock[y] = q.stock[y])
  /\ \A p \in past : /\ p.event.version <= event.version
                     /\ \A y \in Types : p.stock[y] # Absent =>
                          y \in types /\ p.stock[y].version <= stock[y].version

LEMMA StockRowsFacts ==
  ASSUME NEW ys \in SUBSET Types, NEW rows \in [Types -> Inventory]
  PROVE  /\ StockRows(ys, rows) \in Rows
         /\ \A y \in ys : StockRows(ys, rows)[y] = rows[y] /\ rows[y] # Absent
         /\ \A y \in Types \ ys : StockRows(ys, rows)[y] = Absent
         /\ TypesOf(StockRows(ys, rows)) = ys
<1>1. \A y \in Types : rows[y] \in Inventory /\ rows[y] # Absent
  BY AbsentAssumption
<1> QED BY <1>1 DEF StockRows, Rows, Row, TypesOf

LEMMA CommitKeepsHistory ==
  ASSUME SourceTypes, History, Commits, Remember
  PROVE  History' /\ past \subseteq past' /\ Now' \in past'
<1>1. past' = past \cup {Now'} /\ Now'.event = event'
      /\ Now'.stock = StockRows(types', stock')
  BY DEF Remember, Now
<1>2. /\ types \subseteq types' /\ types' \subseteq Types /\ types' # {}
      /\ stock' \in [Types -> Inventory] /\ event' \in Inventory
      /\ stock \in [Types -> Inventory] /\ event \in Inventory
      /\ past \subseteq [event: Inventory, stock: Rows]
  BY DEF Commits, SourceTypes
<1>3. /\ \A y \in types' : Now'.stock[y] = stock'[y]
      /\ \A y \in Types \ types' : Now'.stock[y] = Absent
      /\ \A y \in types : Now.stock[y] = stock[y] /\ stock[y] # Absent
  <2>1. Now.stock = StockRows(types, stock) /\ types \in SUBSET Types
    BY <1>2 DEF Now
  <2>2. types' \in SUBSET Types
    BY <1>2
  <2>3. \A y \in types : Now.stock[y] = stock[y] /\ stock[y] # Absent
    BY <2>1, <1>2, AbsentAssumption DEF StockRows
  <2>4. /\ \A y \in types' : StockRows(types', stock')[y] = stock'[y]
        /\ \A y \in Types \ types' : StockRows(types', stock')[y] = Absent
    BY <2>2 DEF StockRows
  <2> QED BY <2>3, <2>4, <1>1
<1>4. /\ event.version \in Nat /\ event'.version \in Nat
      /\ \A y \in Types : stock[y].version \in Nat /\ stock'[y].version \in Nat
      /\ \A p \in past : p.event.version \in Nat
      /\ \A p \in past : \A y \in Types : p.stock[y] # Absent => p.stock[y].version \in Nat
  BY <1>2 DEF Inventory, Rows, Row
<1>5. ASSUME NEW p \in past PROVE p.event.version < event'.version
  <2>1. types # {}
    BY DEF History
  <2>2. p.event.version <= event.version /\ event'.version > event.version
    BY <2>1 DEF History, Commits
  <2> QED BY <1>4, <2>2
<1>6. ASSUME NEW p \in past, NEW y \in Types, p.stock[y] # Absent
      PROVE  /\ y \in types' /\ p.stock[y].version <= stock'[y].version
             /\ p.stock[y].version = stock'[y].version => p.stock[y] = stock'[y]
  <2>1. y \in types /\ types # {} /\ p.stock[y].version <= stock[y].version
    BY <1>6 DEF History
  <2>2. stock'[y] = stock[y] \/ stock'[y].version > stock[y].version
    BY <2>1 DEF Commits
  <2>3. Now \in past /\ Now.stock[y] = stock[y] /\ stock[y] # Absent
    BY <2>1, <1>3 DEF History
  <2>4. p.stock[y].version = stock[y].version => p.stock[y] = stock[y]
    BY <2>3, <1>6 DEF History
  <2> QED BY <2>1, <2>2, <2>4, <1>2, <1>4, <1>6
<1>7. \A p, q \in past' : p.event.version = q.event.version => p = q
  <2> SUFFICES ASSUME NEW p \in past', NEW q \in past', p.event.version = q.event.version
               PROVE  p = q
    OBVIOUS
  <2>1. CASE p \in past /\ q \in past
    BY <2>1 DEF History
  <2>2. CASE p = Now' \/ q = Now'
    BY <2>2, <1>1, <1>4, <1>5
  <2> QED BY <2>1, <2>2, <1>1
<1>8. \A p, q \in past' : \A y \in Types :
        p.stock[y] # Absent /\ q.stock[y] # Absent =>
          (p.stock[y].version = q.stock[y].version => p.stock[y] = q.stock[y])
  <2> SUFFICES ASSUME NEW p \in past', NEW q \in past', NEW y \in Types,
                      p.stock[y] # Absent, q.stock[y] # Absent,
                      p.stock[y].version = q.stock[y].version
               PROVE  p.stock[y] = q.stock[y]
    OBVIOUS
  <2>1. CASE p \in past /\ q \in past
    BY <2>1 DEF History
  <2>2. CASE p = Now' /\ q \in past
    BY <2>2, <1>3, <1>6
  <2>3. CASE p \in past /\ q = Now'
    BY <2>3, <1>3, <1>6
  <2> QED BY <2>1, <2>2, <2>3, <1>1
<1>9. ASSUME NEW p \in past'
      PROVE  /\ p.event.version <= event'.version
             /\ \A y \in Types : p.stock[y] # Absent =>
                  y \in types' /\ p.stock[y].version <= stock'[y].version
  <2>1. CASE p \in past
    BY <2>1, <1>4, <1>5, <1>6
  <2>2. CASE p = Now'
    BY <2>2, <1>1, <1>3, <1>4
  <2> QED BY <2>1, <2>2, <1>1
<1>10. Now' \in past' /\ past \subseteq past'
  BY <1>1
<1> QED BY <1>2, <1>7, <1>8, <1>9, <1>10 DEF History

-----------------------------------------------------------------------------
(* What documents, messages and the rebuild hold.                          *)

\* Rows that the database once committed.
TypeRowOnRecord(y, row) == \E p \in past : p.stock[y] = row
EventRowOnRecord(row) == \E p \in past : p.event = row

Recorded(d) ==
  /\ \A y \in Types : d.stock[y] # Absent => TypeRowOnRecord(y, d.stock[y])
  /\ d.event # Absent => EventRowOnRecord(d.event)
  /\ ShowsEvent(d)
  /\ (d.event = Absent) <=> \A y \in Types : d.stock[y] = Absent

RecordedIn(ps, m) ==
  m.kind = "versioned" => /\ \E p \in ps : p.stock[m.type] = m.stock
                          /\ \E p \in ps : p.event = m.event

MessagesInv == /\ \A m \in queue : RecordedIn(past, m)
               /\ \A w \in Workers : \A m \in batch[w] : RecordedIn(past, m)
               /\ types = {} => queue = {} /\ \A w \in Workers : batch[w] = {}

\* What the rebuild read is on record, the types not before the aggregate.
ReadInv ==
  /\ \E p \in past : /\ p.stock = rebuild.read.stock
                     /\ p.event.version >= rebuild.read.event.version
  /\ TypesOf(rebuild.read.stock) # {}
ReadsInv ==
  /\ rebuild.todo \subseteq TypesOf(rebuild.read.stock) \cup {"metadata"}
  /\ rebuild.todo # {} => rebuild.step = "write"
  /\ rebuild.step # "idle" => EventRowOnRecord(rebuild.read.event)
  /\ rebuild.step \in {"write", "done"} => ReadInv

\* What the rebuild has written has reached the document.
WrittenInv ==
  /\ "metadata" \notin rebuild.todo => doc.listed
  /\ \A y \in TypesOf(rebuild.read.stock) \ rebuild.todo :
       /\ Reached(doc.stock[y], rebuild.read.stock[y].version)
       /\ Reached(doc.event, rebuild.read.event.version)
DocumentInv ==
  /\ doc \in Document
  /\ Recorded(doc)
  /\ rebuild.step \in {"write", "done"} => WrittenInv

\* The part that says nothing of the document.
SourceInv == SourceTypes /\ TablesInv /\ History /\ MessagesInv /\ ReadsInv

IInv == SourceInv /\ DocumentInv

LEMMA RowTypes ==
  ASSUME SourceTypes
  PROVE  /\ \A x \in Row : x # Absent => x \in Inventory /\ x.version \in Nat
         /\ \A x \in Inventory : x \in Row /\ x # Absent /\ x.version \in Nat
         /\ rebuild.read.event \in Inventory
         /\ \A y \in Types : rebuild.read.stock[y] \in Row
         /\ \A y \in TypesOf(rebuild.read.stock) : rebuild.read.stock[y] \in Inventory
         /\ \A p \in past : p.event \in Inventory /\ \A y \in Types : p.stock[y] \in Row
BY AbsentAssumption DEF SourceTypes, RebuildStates, Row, Rows, Inventory, TypesOf

LEMMA DocumentRows ==
  ASSUME NEW d \in Document
  PROVE  d.event \in Row /\ \A y \in Types : d.stock[y] \in Row
BY DEF Document, Rows

\* Two rows of a type on record with the same version are the same, and so are
\* two rows of the Event.
LEMMA RecordsAgree ==
  ASSUME SourceTypes, History
  PROVE  /\ \A y \in Types : \A r, s \in Inventory :
              TypeRowOnRecord(y, r) /\ TypeRowOnRecord(y, s) /\ r.version = s.version => r = s
         /\ \A r, s \in Inventory :
              EventRowOnRecord(r) /\ EventRowOnRecord(s) /\ r.version = s.version => r = s
BY AbsentAssumption, RowTypes DEF History, TypeRowOnRecord, EventRowOnRecord

\* A message of each kind, and what applying it means.
LEMMA MessageKinds ==
  ASSUME NEW m \in Message
  PROVE  /\ m.kind = "listed" =>
              /\ m.total \in 0..MaxInteger
              /\ Applied(doc, m) = MetadataScript(doc, m.total, m.total)
         /\ m.kind = "versioned" =>
              /\ m.type \in Types /\ m.stock \in Inventory /\ m.event \in Inventory
              /\ m = Versioned(m.type, m.stock, m.event)
              /\ Applied(doc, m) = GuardScript(doc, m)
         /\ m.kind = "legacy" =>
              /\ m.remaining \in 0..MaxInteger
              /\ Applied(doc, m) = LegacyScript(doc, m.remaining)
         /\ m.kind \in {"listed", "versioned", "legacy"}
<1>1. CASE m \in [kind: {"listed"}, total: 0..MaxInteger]
  <2>1. m.kind = "listed" /\ m.total \in 0..MaxInteger
    BY <1>1
  <2>2. Applied(doc, m) = MetadataScript(doc, m.total, m.total)
    BY <2>1 DEF Applied
  <2> QED BY <2>1, <2>2
<1>2. CASE m \in [kind: {"versioned"}, type: Types, stock: Inventory, event: Inventory]
  <2>1. /\ m.kind = "versioned" /\ m.type \in Types /\ m.stock \in Inventory
        /\ m.event \in Inventory
        /\ m = [kind |-> "versioned", type |-> m.type, stock |-> m.stock, event |-> m.event]
    BY <1>2
  <2>2. Applied(doc, m) = GuardScript(doc, m)
    BY <2>1 DEF Applied
  <2> QED BY <2>1, <2>2 DEF Versioned
<1>3. CASE m \in [kind: {"legacy"}, remaining: 0..MaxInteger]
  <2>1. m.kind = "legacy" /\ m.remaining \in 0..MaxInteger
    BY <1>3
  <2>2. Applied(doc, m) = LegacyScript(doc, m.remaining)
    BY <2>1 DEF Applied
  <2> QED BY <2>1, <2>2
<1> QED BY <1>1, <1>2, <1>3 DEF Message

\* A document that a script makes of the current one.
Sound(e) == e \in Document /\ Recorded(e) /\ Forward(doc, e)

LEMMA SameRowsSound ==
  ASSUME doc \in Document, Recorded(doc), NEW e \in Document,
         e.stock = doc.stock, e.event = doc.event, doc.listed => e.listed,
         ShowsEvent(doc) => ShowsEvent(e)
  PROVE  Sound(e)
BY DEF Sound, Recorded, Forward, Later

LEMMA VersionedSound ==
  ASSUME doc \in Document, Recorded(doc), NEW y \in Types, NEW s \in Inventory, NEW a \in Inventory,
         TypeRowOnRecord(y, s), EventRowOnRecord(a)
  PROVE  Sound(GuardScript(doc, Versioned(y, s, a)))
<1> DEFINE e == GuardScript(doc, Versioned(y, s, a))
<1>2. /\ e \in Document
      /\ e.listed = doc.listed
      /\ \A x \in Types \ {y} : e.stock[x] = doc.stock[x]
      /\ e.stock[y] \in {doc.stock[y], s} /\ Reached(e.stock[y], s.version)
      /\ Later(e.stock[y], doc.stock[y])
      /\ e.event \in {doc.event, a} /\ Reached(e.event, a.version)
      /\ Later(e.event, doc.event)
      /\ ShowsEvent(doc) => ShowsEvent(e)
  BY VersionedApplied
<1> HIDE DEF e
<1>3. Recorded(e)
  BY <1>2 DEF Recorded, Reached
<1>4. Forward(doc, e)
  BY <1>2 DEF Forward, Later
<1>5. Sound(e)
  BY <1>2, <1>3, <1>4 DEF Sound
<1> QED BY <1>5 DEF e

LEMMA AppliedSound ==
  ASSUME doc \in Document, Recorded(doc), NEW m \in Message, RecordedIn(past, m)
  PROVE  Sound(Applied(doc, m))
<1>2. CASE m.kind = "listed"
  BY <1>2, MessageKinds, MetadataApplied, SameRowsSound
<1>3. CASE m.kind = "versioned"
  <2>1. /\ m.type \in Types /\ m.stock \in Inventory /\ m.event \in Inventory
        /\ Applied(doc, m) = GuardScript(doc, Versioned(m.type, m.stock, m.event))
    BY <1>3, MessageKinds
  <2> QED BY <1>3, <2>1, VersionedSound DEF RecordedIn, TypeRowOnRecord, EventRowOnRecord
<1>4. CASE m.kind = "legacy"
  BY <1>4, MessageKinds, LegacyApplied, SameRowsSound
<1> QED BY <1>2, <1>3, <1>4, MessageKinds

-----------------------------------------------------------------------------
(* The tables, their history, the messages and the reads of the rebuild,   *)
(* whatever the document is.                                               *)

LEMMA InitSource == Init => SourceInv
<1> SUFFICES ASSUME Init PROVE SourceInv
  OBVIOUS
<1>1. SourceTypes
  <2>1. EmptyInventory \in Inventory
    BY CapacityAssumption DEF EmptyInventory, Inventory
  <2>2. NoRead \in [event: Inventory, stock: Rows]
    BY <2>1 DEF NoRead, Rows, Row
  <2>3. rebuild \in RebuildStates
    BY <2>2 DEF Init, NoRebuild, RebuildStates
  <2> QED BY <2>1, <2>3 DEF Init, TablesInit, SourceTypes
<1>2. TablesInv /\ History
  BY DEF Init, TablesInit, TablesInv, History
<1>3. MessagesInv /\ ReadsInv
  BY DEF Init, NoRebuild, MessagesInv, ReadsInv
<1> QED BY <1>1, <1>2, <1>3 DEF SourceInv

\* What is on record stays on record.
LEMMA RecordsKept ==
  ASSUME past \subseteq past'
  PROVE  /\ \A y, r : TypeRowOnRecord(y, r) => TypeRowOnRecord(y, r)'
         /\ \A r : EventRowOnRecord(r) => EventRowOnRecord(r)'
BY DEF TypeRowOnRecord, EventRowOnRecord

LEMMA ReadsKept ==
  ASSUME ReadsInv, past \subseteq past', UNCHANGED rebuild
  PROVE  ReadsInv'
<1>1. EventRowOnRecord(rebuild.read.event) => EventRowOnRecord(rebuild.read.event)'
  BY DEF EventRowOnRecord
<1>2. ReadInv => ReadInv'
  BY DEF ReadInv
<1> QED BY <1>1, <1>2 DEF ReadsInv

\* A commit, and the message that may have reached the queue after it.
QueueGrows == \A m \in queue' : m \in queue \/ (m \in Message /\ RecordedIn(past', m))

LEMMA CommitStep ==
  ASSUME SourceInv, Commits, Remember, QueueGrows, UNCHANGED <<search, rebuild>>
  PROVE  SourceInv'
<1> USE DEF QueueGrows
<1>1. History' /\ past \subseteq past' /\ Now' \in past'
  BY CommitKeepsHistory DEF SourceInv
<1>2. TablesInv'
  BY CommitKeepsTables
<1>3. SourceTypes'
  <2>1. types' \in SUBSET Types /\ stock' \in [Types -> Inventory] /\ event' \in Inventory
        /\ mode' = mode
    BY DEF Commits
  <2>2. past' \subseteq [event: Inventory, stock: Rows]
    <3>1. StockRows(types', stock') \in Rows
      BY <2>1 DEF StockRows, Rows, Row
    <3> QED BY <2>1, <3>1 DEF SourceInv, SourceTypes, Remember
  <2>3. queue' \subseteq Message
    BY DEF SourceInv, SourceTypes
  <2> QED BY <2>1, <2>2, <2>3 DEF SourceInv, SourceTypes, search
<1>4. MessagesInv'
  <2>1. \A m : RecordedIn(past, m) => RecordedIn(past', m)
    BY <1>1 DEF RecordedIn
  <2>2. batch' = batch /\ types' # {}
    BY DEF search, Commits
  <2> QED BY <2>1, <2>2 DEF SourceInv, MessagesInv
<1>5. ReadsInv'
  BY <1>1, ReadsKept DEF SourceInv
<1> QED BY <1>1, <1>2, <1>3, <1>4, <1>5 DEF SourceInv

LEMMA ListEventStep == SourceInv /\ ListEvent => SourceInv'
<1> SUFFICES ASSUME SourceInv, ListEvent PROVE SourceInv'
  OBVIOUS
<1>1. Commits
  BY CreateEventCommits DEF ListEvent, SourceInv
<1>2. Capacity[DefaultType] \in 0..MaxInteger
  BY TypesAssumption, CapacityAssumption
<1>3. ASSUME NEW m, m = Listed(Capacity[DefaultType])
      PROVE  m \in Message /\ RecordedIn(past', m)
  BY <1>2, <1>3 DEF Listed, Message, RecordedIn
<1>4. QueueGrows
  BY <1>3 DEF ListEvent, Publish, QueueGrows
<1>5. Remember /\ UNCHANGED <<search, rebuild>>
  BY DEF ListEvent
<1> QED BY <1>1, <1>4, <1>5, CommitStep

LEMMA ListTypeStep ==
  ASSUME SourceInv, NEW y \in Types, ListType(y) PROVE SourceInv'
<1>1. Commits
  BY AddTicketTypeCommits DEF ListType, SourceInv
<1>2. Remember /\ QueueGrows /\ UNCHANGED <<search, rebuild>>
  BY DEF ListType, QueueGrows
<1> QED BY <1>1, <1>2, CommitStep

\* The rows of a detail are rows of the state it was committed in.
LEMMA DetailRecorded ==
  ASSUME Commits, Remember, NEW y \in types', NEW m, m = Versioned(y, stock'[y], event')
  PROVE  m \in Message /\ RecordedIn(past', m)
<1>1. /\ y \in Types /\ stock'[y] \in Inventory /\ event' \in Inventory
  BY DEF Commits
<1>2. m \in Message
  BY <1>1 DEF Versioned, Message
<1>3. /\ Now' \in past' /\ Now'.event = event' /\ Now'.stock[y] = stock'[y]
  BY <1>1 DEF Remember, Now, StockRows
<1>4. RecordedIn(past', m)
  BY <1>3 DEF Versioned, RecordedIn
<1> QED BY <1>2, <1>4

LEMMA PurchaseStep ==
  ASSUME SourceInv, NEW y \in Types, NEW q \in Quantities, Purchase(y, q) PROVE SourceInv'
<1>1. Commits /\ y \in types'
  <2>1. CASE SellFromType(y, q)
    BY <2>1, SellFromTypeCommits DEF SellFromType, SourceInv
  <2>2. CASE y = DefaultType /\ SellFromEvent(q)
    BY <2>2, SellFromEventCommits DEF Commits, SourceInv
  <2> QED BY <2>1, <2>2 DEF Purchase
<1>2. Remember /\ UNCHANGED <<search, rebuild>>
  BY DEF Purchase
<1>3. ASSUME NEW m, m = Versioned(y, stock'[y], event')
      PROVE  m \in Message /\ RecordedIn(past', m)
  BY <1>1, <1>2, <1>3, DetailRecorded
<1>4. QueueGrows
  BY <1>3 DEF Purchase, Publish, QueueGrows
<1> QED BY <1>1, <1>2, <1>4, CommitStep

LEMMA OldReleasePurchaseStep ==
  ASSUME SourceInv, NEW q \in Quantities, OldReleasePurchase(q) PROVE SourceInv'
<1>1. Commits
  BY SellFromEventCommits DEF OldReleasePurchase, SourceInv
<1>2. event'.remaining \in 0..MaxInteger
  BY <1>1 DEF Commits, Inventory
<1>3. ASSUME NEW m, m = Legacy(event'.remaining)
      PROVE  m \in Message /\ RecordedIn(past', m)
  BY <1>2, <1>3 DEF Legacy, Message, RecordedIn
<1>4. QueueGrows
  BY <1>3 DEF OldReleasePurchase, Publish, QueueGrows
<1>5. Remember /\ UNCHANGED <<search, rebuild>>
  BY DEF OldReleasePurchase
<1> QED BY <1>1, <1>4, <1>5, CommitStep

LEMMA CutoverStep == SourceInv /\ Cutover => SourceInv'
<1> SUFFICES ASSUME SourceInv, Cutover PROVE SourceInv'
  OBVIOUS
<1>1. /\ mode' \in Modes
      /\ UNCHANGED <<types, event, stock, past, queue, batch, handled, rebuild>>
  BY DEF SourceInv, SourceTypes, Cutover, SwitchMode, Opposite, Modes, search
<1>2. SourceTypes' /\ TablesInv' /\ History' /\ MessagesInv'
  BY <1>1 DEF SourceInv, SourceTypes, TablesInv, History, Now, MessagesInv
<1>3. ReadsInv'
  BY <1>1, ReadsKept DEF SourceInv
<1> QED BY <1>2, <1>3 DEF SourceInv

\* A step that leaves the tables alone and takes messages from the queue only.
LEMMA SearchStep ==
  ASSUME SourceInv, UNCHANGED <<tables, past>>,
         \A m \in queue' : m \in queue,
         batch' \in [Workers -> SUBSET Message], handled' \in [Workers -> SUBSET Message],
         \A w \in Workers : handled'[w] \subseteq batch'[w],
         \A w \in Workers : \A m \in batch'[w] : m \in batch[w] \/ m \in queue,
         rebuild' \in RebuildStates, ReadsInv'
  PROVE  SourceInv'
<1>1. UNCHANGED <<mode, types, event, stock, past>>
  BY DEF tables
<1>2. TablesInv' /\ History'
  BY <1>1 DEF SourceInv, TablesInv, History, Now
<1>3. \A m : RecordedIn(past, m) => RecordedIn(past', m)
  BY <1>1
<1>4. MessagesInv'
  BY <1>1, <1>3 DEF SourceInv, MessagesInv
<1>5. SourceTypes'
  BY <1>1 DEF SourceInv, SourceTypes
<1> QED BY <1>2, <1>4, <1>5 DEF SourceInv

LEMMA WorkerStep ==
  ASSUME SourceInv, NEW w \in Workers, Worker(w) PROVE SourceInv'
<1>1. UNCHANGED rebuild /\ UNCHANGED <<tables, past>>
  BY DEF Worker, Receive, Handle, Delete, AbandonBatch
<1>2. rebuild' \in RebuildStates /\ ReadsInv'
  BY <1>1, ReadsKept DEF SourceInv, SourceTypes
<1>3. ASSUME NEW ms \in SUBSET queue, Receive(w, ms) PROVE SourceInv'
  <2>1. /\ batch' = [batch EXCEPT ![w] = ms] /\ batch[w] = {}
        /\ UNCHANGED <<queue, handled>>
    BY <1>3 DEF Receive
  <2>2. ms \subseteq Message /\ handled[w] = {}
    BY <2>1 DEF SourceInv, SourceTypes
  <2> QED BY <1>1, <1>2, <2>1, <2>2, SearchStep DEF SourceInv, SourceTypes
<1>4. ASSUME NEW m \in batch[w], Handle(w, m) PROVE SourceInv'
  <2>1. handled' = [handled EXCEPT ![w] = {m}] /\ UNCHANGED <<queue, batch>>
    BY <1>4 DEF Handle
  <2>2. m \in Message
    BY DEF SourceInv, SourceTypes
  <2> QED BY <1>1, <1>2, <2>1, <2>2, SearchStep DEF SourceInv, SourceTypes
<1>5. CASE Delete(w)
  <2>1. /\ queue' = queue \ handled[w]
        /\ batch' = [batch EXCEPT ![w] = @ \ handled[w]]
        /\ handled' = [handled EXCEPT ![w] = {}]
    BY <1>5 DEF Delete
  <2> QED BY <1>1, <1>2, <2>1, SearchStep DEF SourceInv, SourceTypes
<1>6. CASE AbandonBatch(w)
  <2>1. /\ batch' = [batch EXCEPT ![w] = {}]
        /\ handled' = [handled EXCEPT ![w] = {}]
        /\ queue' = queue
    BY <1>6 DEF AbandonBatch
  <2> QED BY <1>1, <1>2, <2>1, SearchStep DEF SourceInv, SourceTypes
<1> QED BY <1>3, <1>4, <1>5, <1>6 DEF Worker

LEMMA RebuildFrame ==
  ASSUME SourceInv, UNCHANGED <<tables, past, queue, batch, handled>>,
         rebuild' \in RebuildStates, ReadsInv'
  PROVE  SourceInv'
BY SearchStep DEF SourceInv, SourceTypes

\* What the rebuild has in its hands after each of its steps.
LEMMA ReadAggregateDoes ==
  ASSUME SourceInv, ReadAggregate
  PROVE  /\ rebuild' \in RebuildStates /\ ReadsInv' /\ rebuild'.step = "aggregate"
         /\ UNCHANGED <<tables, past, queue, batch, handled, doc>>
<1>1. /\ rebuild' = [step |-> "aggregate", todo |-> {},
                     read |-> [event |-> event, stock |-> [y \in Types |-> Absent]]]
      /\ UNCHANGED <<tables, past, queue, batch, handled, doc>> /\ types # {}
  BY DEF ReadAggregate, NoRebuild, NoRead, search
<1>2. event \in Inventory /\ [y \in Types |-> Absent] \in Rows
  BY DEF SourceInv, SourceTypes, Rows, Row
<1>3. EventRowOnRecord(event)'
  BY <1>1 DEF SourceInv, History, Now, EventRowOnRecord, tables
<1>4. ReadsInv'
  BY <1>1, <1>3 DEF ReadsInv, EventRowOnRecord, tables
<1> QED BY <1>1, <1>2, <1>4 DEF RebuildStates

LEMMA ReadTypesDoes ==
  ASSUME SourceInv, ReadTypes
  PROVE  /\ rebuild' \in RebuildStates /\ ReadsInv'
         /\ rebuild'.todo = TypesOf(rebuild'.read.stock) \cup {"metadata"}
         /\ UNCHANGED <<tables, past, queue, batch, handled, doc>>
<1> DEFINE rows == StockRows(types, stock)
<1>1. /\ rebuild.step = "aggregate"
      /\ rebuild' = [step |-> "write", todo |-> types \cup {"metadata"},
                     read |-> [event |-> rebuild.read.event, stock |-> rows]]
      /\ UNCHANGED <<tables, past, queue, batch, handled, doc>>
  BY DEF SourceInv, SourceTypes, RebuildStates, ReadTypes, search
<1>2. /\ types \in SUBSET Types /\ stock \in [Types -> Inventory]
      /\ rebuild.read.event \in Inventory
  BY DEF SourceInv, SourceTypes, RebuildStates
<1>3. rows \in Rows /\ TypesOf(rows) = types
  BY <1>2, StockRowsFacts
<1>4. EventRowOnRecord(rebuild.read.event)
  BY <1>1 DEF SourceInv, ReadsInv
<1>5. types # {} /\ Now \in past /\ Now.stock = rows /\ Now.event = event
  BY <1>4 DEF SourceInv, History, EventRowOnRecord, Now
<1>6. event.version >= rebuild.read.event.version
  BY <1>4, <1>2 DEF SourceInv, History, EventRowOnRecord, Inventory
<1> HIDE DEF rows
<1>7. /\ rebuild'.step = "write" /\ rebuild'.todo = types \cup {"metadata"}
      /\ rebuild'.read.event = rebuild.read.event /\ rebuild'.read.stock = rows
      /\ past' = past
  BY <1>1
<1>8. EventRowOnRecord(rebuild.read.event)' /\ ReadInv'
  <2>1. EventRowOnRecord(rebuild.read.event)'
    BY <1>4, <1>7 DEF EventRowOnRecord
  <2>2. ReadInv'
    BY <1>3, <1>5, <1>6, <1>7 DEF ReadInv
  <2> QED BY <2>1, <2>2
<1>9. ReadsInv'
  BY <1>3, <1>7, <1>8 DEF ReadsInv
<1> QED BY <1>1, <1>2, <1>3, <1>7, <1>9 DEF RebuildStates

LEMMA ItemDoes ==
  ASSUME SourceInv, past' = past, rebuild.step = "write",
         NEW x, rebuild' = [rebuild EXCEPT !.todo = @ \ {x}]
  PROVE  /\ rebuild' \in RebuildStates /\ ReadsInv'
         /\ rebuild'.step = "write" /\ rebuild'.read = rebuild.read
         /\ rebuild'.todo = rebuild.todo \ {x}
<1>1. rebuild \in RebuildStates
  BY DEF SourceInv, SourceTypes
<1>2. /\ rebuild'.step = "write" /\ rebuild'.read = rebuild.read
      /\ rebuild'.todo = rebuild.todo \ {x} /\ rebuild' \in RebuildStates
  BY <1>1 DEF RebuildStates
<1>3. EventRowOnRecord(rebuild.read.event)' /\ ReadInv'
  BY <1>2 DEF SourceInv, ReadsInv, EventRowOnRecord, ReadInv
<1> QED BY <1>2, <1>3 DEF SourceInv, ReadsInv

LEMMA FinishDoes ==
  ASSUME SourceInv, FinishRebuild
  PROVE  /\ rebuild' \in RebuildStates /\ ReadsInv'
         /\ rebuild'.read = rebuild.read /\ rebuild'.todo = rebuild.todo
         /\ rebuild.step = "write"
         /\ UNCHANGED <<tables, past, queue, batch, handled, doc>>
<1>1. /\ rebuild.step = "write" /\ rebuild.todo = {}
      /\ rebuild' = [rebuild EXCEPT !.step = "done"]
      /\ UNCHANGED <<tables, past, queue, batch, handled, doc>>
  BY DEF FinishRebuild, AllWritten, search
<1>2. /\ rebuild'.step = "done" /\ rebuild'.read = rebuild.read
      /\ rebuild'.todo = rebuild.todo /\ rebuild' \in RebuildStates
  BY <1>1 DEF SourceInv, SourceTypes, RebuildStates
<1>3. ReadsInv'
  BY <1>1, <1>2 DEF SourceInv, ReadsInv, EventRowOnRecord, ReadInv
<1> QED BY <1>1, <1>2, <1>3

LEMMA AbortDoes ==
  ASSUME AbortRebuild
  PROVE  /\ rebuild' \in RebuildStates /\ ReadsInv' /\ rebuild'.step = "idle"
         /\ UNCHANGED <<tables, past, queue, batch, handled, doc>>
<1>1. rebuild' = NoRebuild /\ UNCHANGED <<tables, past, queue, batch, handled, doc>>
  BY DEF AbortRebuild, search
<1>2. NoRead \in [event: Inventory, stock: Rows]
  BY CapacityAssumption DEF NoRead, EmptyInventory, Inventory, Rows, Row
<1> QED BY <1>1, <1>2 DEF NoRebuild, RebuildStates, ReadsInv

LEMMA RebuildStep == SourceInv /\ Rebuild => SourceInv'
<1> SUFFICES ASSUME SourceInv, Rebuild PROVE SourceInv'
  OBVIOUS
<1>1. CASE WriteMetadata \/ \E y \in Types : WriteType(y)
  <2>1. PICK x : /\ rebuild' = [rebuild EXCEPT !.todo = @ \ {x}]
                 /\ rebuild.todo # {}
                 /\ UNCHANGED <<tables, past, queue, batch, handled>>
    BY <1>1 DEF WriteMetadata, WriteType
  <2>2. rebuild.step = "write"
    BY <2>1 DEF SourceInv, ReadsInv
  <2> QED BY <2>1, <2>2, ItemDoes, RebuildFrame
<1>2. CASE ReadAggregate \/ ReadTypes \/ FinishRebuild \/ AbortRebuild
  BY <1>2, ReadAggregateDoes, ReadTypesDoes, FinishDoes, AbortDoes, RebuildFrame
<1> QED BY <1>1, <1>2 DEF Rebuild

LEMMA SourceStep == SourceInv /\ [Next]_vars => SourceInv'
<1> SUFFICES ASSUME SourceInv, [Next]_vars PROVE SourceInv'
  OBVIOUS
<1>1. ASSUME NEW y \in Types, ListType(y) PROVE SourceInv'
  BY <1>1, ListTypeStep
<1>2. ASSUME NEW q \in Quantities, OldReleasePurchase(q) PROVE SourceInv'
  BY <1>2, OldReleasePurchaseStep
<1>3. ASSUME NEW y \in Types, NEW q \in Quantities, Purchase(y, q) PROVE SourceInv'
  BY <1>3, PurchaseStep
<1>4. ASSUME NEW w \in Workers, Worker(w) PROVE SourceInv'
  BY <1>4, WorkerStep
<1>5. CASE UNCHANGED vars
  <2>1. UNCHANGED <<tables, past, queue, batch, handled, rebuild>>
    BY <1>5 DEF vars, search
  <2>2. ReadsInv'
    BY <2>1, ReadsKept DEF SourceInv
  <2> QED BY <2>1, <2>2, RebuildFrame DEF SourceInv, SourceTypes
<1> QED BY <1>1, <1>2, <1>3, <1>4, <1>5, ListEventStep, CutoverStep, RebuildStep DEF Next

\* No step takes a committed state off the record.
LEMMA PastGrows == [Next]_vars => past \subseteq past'
BY DEF Next, ListEvent, ListType, Purchase, OldReleasePurchase, Cutover, Worker, Receive,
   Handle, Delete, AbandonBatch, Rebuild, ReadAggregate, ReadTypes, WriteMetadata,
   WriteType, FinishRebuild, AbortRebuild, Remember, vars

-----------------------------------------------------------------------------
(* The document.                                                           *)

LEMMA InitIInv == Init => IInv
<1> SUFFICES ASSUME Init PROVE IInv
  OBVIOUS
<1>1. doc \in Document
  BY DEF Init, EmptyDocument, Document, Number, Rows, Row
<1>2. Recorded(doc)
  BY DEF Init, EmptyDocument, Recorded, ShowsEvent
<1>3. rebuild.step = "idle"
  BY DEF Init, NoRebuild
<1> QED BY <1>1, <1>2, <1>3, InitSource DEF IInv, DocumentInv

LEMMA ReachedStays ==
  ASSUME NEW r \in Row, NEW q \in Row, NEW v \in Nat, Reached(r, v), Later(q, r)
  PROVE  Reached(q, v)
BY AbsentAssumption DEF Reached, Later, Row, Inventory

\* What the rebuild has written stays written in a later document.
LEMMA WrittenStays ==
  ASSUME SourceTypes, doc \in Document, WrittenInv, NEW e \in Document, Forward(doc, e)
  PROVE  /\ "metadata" \notin rebuild.todo => e.listed
         /\ \A y \in TypesOf(rebuild.read.stock) \ rebuild.todo :
              /\ Reached(e.stock[y], rebuild.read.stock[y].version)
              /\ Reached(e.event, rebuild.read.event.version)
<1>1. "metadata" \notin rebuild.todo => e.listed
  BY DEF WrittenInv, Forward
<1>2. ASSUME NEW y \in TypesOf(rebuild.read.stock) \ rebuild.todo
      PROVE  /\ Reached(e.stock[y], rebuild.read.stock[y].version)
             /\ Reached(e.event, rebuild.read.event.version)
  <2>1. /\ y \in Types
        /\ doc.stock[y] \in Row /\ e.stock[y] \in Row
        /\ doc.event \in Row /\ e.event \in Row
        /\ rebuild.read.stock[y].version \in Nat /\ rebuild.read.event.version \in Nat
    BY RowTypes, DocumentRows DEF TypesOf
  <2>2. /\ Reached(doc.stock[y], rebuild.read.stock[y].version)
        /\ Reached(doc.event, rebuild.read.event.version)
    BY <1>2 DEF WrittenInv
  <2>3. Later(e.stock[y], doc.stock[y]) /\ Later(e.event, doc.event)
    BY <2>1 DEF Forward
  <2> QED BY <2>1, <2>2, <2>3, ReachedStays
<1> QED BY <1>1, <1>2

\* A message, or an item of the rebuild, is applied.
Applies(m) == m \in Message /\ RecordedIn(past, m) /\ doc' = Applied(doc, m)
AppliesMetadata == \E row \in Inventory : doc' = MetadataScript(doc, row.total, row.remaining)

\* A type that the rebuild has still to write, as a message.
LEMMA ItemRecorded ==
  ASSUME SourceInv, NEW y \in Types, y \in rebuild.todo,
         NEW m, m = Versioned(y, rebuild.read.stock[y], rebuild.read.event)
  PROVE  m \in Message /\ RecordedIn(past, m)
<1>1. y \in TypesOf(rebuild.read.stock) /\ rebuild.step = "write"
  BY TypesAssumption DEF SourceInv, ReadsInv
<1>2. /\ rebuild.read.stock[y] \in Inventory /\ rebuild.read.event \in Inventory
      /\ TypeRowOnRecord(y, rebuild.read.stock[y]) /\ EventRowOnRecord(rebuild.read.event)
  BY <1>1, RowTypes DEF SourceInv, ReadsInv, ReadInv, TypeRowOnRecord
<1> QED BY <1>2 DEF Versioned, Message, RecordedIn, TypeRowOnRecord, EventRowOnRecord

\* The steps that change the document.
LEMMA DocumentSteps ==
  ASSUME SourceInv, [Next]_vars
  PROVE  doc' = doc \/ (\E m : Applies(m)) \/ AppliesMetadata
<1>1. ASSUME NEW w \in Workers, Worker(w) PROVE doc' = doc \/ \E m : Applies(m)
  <2>1. ASSUME NEW m \in batch[w], Handle(w, m) PROVE Applies(m)
    BY <2>1 DEF SourceInv, SourceTypes, MessagesInv, Handle, Applies
  <2> QED BY <1>1, <2>1 DEF Worker, Receive, Delete, AbandonBatch
<1>2. CASE WriteMetadata
  BY <1>2, RowTypes DEF SourceInv, WriteMetadata, AppliesMetadata
<1>3. ASSUME NEW y \in Types, WriteType(y) PROVE \E m : Applies(m)
  <2>1. PICK m : m = Versioned(y, rebuild.read.stock[y], rebuild.read.event)
    OBVIOUS
  <2>2. doc' = Applied(doc, m) /\ y \in rebuild.todo
    BY <1>3, <2>1 DEF WriteType
  <2> QED BY <2>1, <2>2, ItemRecorded DEF Applies
<1>4. Next => \/ doc' = doc \/ WriteMetadata
              \/ \E w \in Workers : Worker(w)
              \/ \E y \in Types : WriteType(y)
  BY DEF Next, Rebuild, ListEvent, ListType, Purchase, OldReleasePurchase, Cutover,
     ReadAggregate, ReadTypes, FinishRebuild, AbortRebuild, search
<1>5. UNCHANGED vars => doc' = doc
  BY DEF vars, search
<1> QED BY <1>1, <1>2, <1>3, <1>4, <1>5

LEMMA ForwardSame == Forward(doc, doc)
BY DEF Forward, Later

\* A step of the projection moves the document forward or leaves it alone.
LEMMA EveryStepForward ==
  ASSUME IInv, [Next]_vars PROVE Sound(doc')
<1>1. doc \in Document /\ Recorded(doc)
  BY DEF IInv, DocumentInv
<1>2. CASE AppliesMetadata
  <2>1. PICK row \in Inventory : doc' = MetadataScript(doc, row.total, row.remaining)
    BY <1>2 DEF AppliesMetadata
  <2>2. row.total \in 0..MaxInteger /\ row.remaining \in 0..MaxInteger
    BY DEF Inventory
  <2> QED BY <1>1, <2>1, <2>2, MetadataApplied, SameRowsSound
<1>3. ASSUME NEW m, Applies(m) PROVE Sound(doc')
  BY <1>1, <1>3, AppliedSound DEF Applies
<1>4. CASE doc' = doc
  BY <1>1, <1>4, ForwardSame DEF Sound
<1> QED BY <1>2, <1>3, <1>4, DocumentSteps DEF IInv

LEMMA RebuildSame ==
  ASSUME [Next]_vars, ~Rebuild PROVE UNCHANGED rebuild
BY DEF Next, ListEvent, ListType, Purchase, OldReleasePurchase, Cutover, Worker, Receive,
   Handle, Delete, AbandonBatch, vars

\* What the rebuild reads it has still to write, and what it writes it has written.
LEMMA WrittenStep ==
  ASSUME IInv, [Next]_vars PROVE rebuild'.step \in {"write", "done"} => WrittenInv'
<1>1. SourceTypes /\ SourceInv /\ doc \in Document /\ Sound(doc')
  BY EveryStepForward DEF IInv, SourceInv, DocumentInv
<1>2. WrittenInv =>
        /\ "metadata" \notin rebuild.todo => doc'.listed
        /\ \A y \in TypesOf(rebuild.read.stock) \ rebuild.todo :
             /\ Reached(doc'.stock[y], rebuild.read.stock[y].version)
             /\ Reached(doc'.event, rebuild.read.event.version)
  BY <1>1, WrittenStays DEF Sound
<1>3. CASE UNCHANGED rebuild
  BY <1>2, <1>3 DEF WrittenInv, IInv, DocumentInv
<1>4. CASE WriteMetadata
  <2>1. /\ rebuild.todo = TypesOf(rebuild.read.stock) \cup {"metadata"}
        /\ rebuild' = [rebuild EXCEPT !.todo = @ \ {"metadata"}]
        /\ doc' = MetadataScript(doc, rebuild.read.event.total, rebuild.read.event.remaining)
        /\ past' = past
    BY <1>4 DEF WriteMetadata
  <2>2. rebuild'.read = rebuild.read /\ rebuild'.todo = rebuild.todo \ {"metadata"}
    BY <1>1, <2>1, ItemDoes DEF SourceInv, ReadsInv
  <2>3. \A y \in TypesOf(rebuild.read.stock) : y \in rebuild'.todo
    BY <2>1, <2>2, TypesAssumption DEF TypesOf
  <2>4. doc'.listed
    BY <2>1, <1>1 DEF MetadataScript, Document
  <2> QED BY <2>2, <2>3, <2>4 DEF WrittenInv
<1>5. ASSUME NEW y \in Types, WriteType(y) PROVE WrittenInv'
  <2>1. /\ y \in rebuild.todo /\ past' = past
        /\ rebuild' = [rebuild EXCEPT !.todo = @ \ {y}]
        /\ doc' = GuardScript(doc, Versioned(y, rebuild.read.stock[y], rebuild.read.event))
    BY <1>5 DEF WriteType, Applied, Versioned
  <2>2. rebuild.step = "write" /\ y \in TypesOf(rebuild.read.stock) /\ y # "metadata"
    BY <1>1, <2>1, TypesAssumption DEF SourceInv, ReadsInv
  <2>3. rebuild'.read = rebuild.read /\ rebuild'.todo = rebuild.todo \ {y}
    BY <1>1, <2>1, <2>2, ItemDoes
  <2>4. rebuild.read.stock[y] \in Inventory /\ rebuild.read.event \in Inventory
    BY <1>1, <2>2, RowTypes
  <2>5. /\ Reached(doc'.stock[y], rebuild.read.stock[y].version)
        /\ Reached(doc'.event, rebuild.read.event.version)
    BY <1>1, <2>1, <2>4, VersionedApplied
  <2>6. WrittenInv
    BY <2>2 DEF IInv, DocumentInv
  <2> QED BY <1>2, <2>2, <2>3, <2>5, <2>6 DEF WrittenInv
<1>6. CASE ReadAggregate \/ AbortRebuild
  BY <1>1, <1>6, ReadAggregateDoes, AbortDoes
<1>7. CASE ReadTypes
  BY <1>1, <1>7, ReadTypesDoes DEF WrittenInv
<1>8. CASE FinishRebuild
  BY <1>1, <1>8, FinishDoes DEF WrittenInv, IInv, DocumentInv
<1> QED BY <1>3, <1>4, <1>5, <1>6, <1>7, <1>8, RebuildSame DEF Rebuild

LEMMA InductiveStep == IInv /\ [Next]_vars => IInv'
<1> SUFFICES ASSUME IInv, [Next]_vars PROVE IInv'
  OBVIOUS
<1>1. SourceInv'
  BY SourceStep DEF IInv
<1>2. Sound(doc') /\ past \subseteq past'
  BY EveryStepForward, PastGrows
<1>3. Recorded(doc)'
  BY <1>2, RecordsKept DEF Sound, Recorded, ShowsEvent
<1> QED BY <1>1, <1>2, <1>3, WrittenStep DEF IInv, DocumentInv, Sound

-----------------------------------------------------------------------------
(* The theorems.                                                           *)

LEMMA Parts ==
  IInv => /\ SourceTypes /\ TablesInv /\ History /\ MessagesInv /\ ReadsInv
          /\ TypeOK /\ doc \in Document /\ Recorded(doc)
BY TypesSplit DEF IInv, SourceInv, DocumentInv

LEMMA ProjectionInvariant == Spec => []IInv
BY InitIInv, InductiveStep, PTL DEF Spec

\* Types of the document, of the messages and of what the rebuild has read.
THEOREM TypeCorrectness == Spec => []TypeOK
<1>1. IInv => TypeOK
  BY Parts
<1> QED BY <1>1, ProjectionInvariant, PTL

\* The document shows rows the database committed, and the Event's quantities.
THEOREM DocumentRecorded == Spec => []DocumentOnRecord
<1>1. IInv => DocumentOnRecord
  BY Parts DEF Recorded, ShowsEvent, TypeRowOnRecord, EventRowOnRecord, DocumentOnRecord
<1> QED BY <1>1, ProjectionInvariant, PTL

\* No detail and no read of this database contradicts the document.
THEOREM NoContradiction == Spec => []GuardNeverThrows
<1>1. IInv => GuardNeverThrows
  <2> SUFFICES ASSUME IInv, NEW m \in Pending, m.kind = "versioned"
               PROVE  ~GuardThrows(doc, m)
    BY DEF GuardNeverThrows, Throws
  <2>1. SourceTypes /\ History /\ Recorded(doc) /\ doc \in Document
    BY Parts
  <2>2. m \in Message /\ RecordedIn(past, m)
    <3>1. CASE m \in queue \/ \E w \in Workers : m \in batch[w]
      BY <3>1, Parts DEF SourceTypes, MessagesInv
    <3>2. CASE \E y \in rebuild.todo \ {"metadata"} :
                 m = Versioned(y, rebuild.read.stock[y], rebuild.read.event)
      <4>1. PICK y \in rebuild.todo \ {"metadata"} :
              m = Versioned(y, rebuild.read.stock[y], rebuild.read.event)
        BY <3>2
      <4>2. y \in Types
        BY Parts DEF SourceTypes, RebuildStates
      <4> QED BY <4>1, <4>2, ItemRecorded DEF IInv
    <3>3. \/ m \in UNION {batch[w] : w \in Workers} \/ m \in queue
          \/ m \in {Versioned(y, rebuild.read.stock[y], rebuild.read.event) :
                       y \in rebuild.todo \ {"metadata"}}
      BY DEF Pending
    <3> QED BY <3>1, <3>2, <3>3
  <2>3. /\ m.type \in Types /\ m.stock \in Inventory /\ m.event \in Inventory
        /\ TypeRowOnRecord(m.type, m.stock) /\ EventRowOnRecord(m.event)
    BY <2>2, MessageKinds DEF RecordedIn, TypeRowOnRecord, EventRowOnRecord
  <2>4. ~Contradicts(m.stock, doc.stock[m.type])
    BY <2>1, <2>3, RowTypes, DocumentRows, RecordsAgree DEF Contradicts, Recorded
  <2>5. ~Contradicts(m.event, doc.event)
    BY <2>1, <2>3, RowTypes, DocumentRows, RecordsAgree DEF Contradicts, Recorded
  <2> QED BY <2>4, <2>5 DEF GuardThrows
<1> QED BY <1>1, ProjectionInvariant, PTL

\* Every row of the document is only ever replaced by one with a higher version.
THEOREM NeverBack == Spec => DocumentNeverGoesBack
<1>1. IInv /\ [Next]_vars =>
        [/\ \A y \in Types :
              doc.stock[y] # Absent =>
                /\ doc'.stock[y] # Absent
                /\ doc'.stock[y] # doc.stock[y] =>
                     doc'.stock[y].version > doc.stock[y].version
         /\ doc.event # Absent =>
              /\ doc'.event # Absent
              /\ doc'.event # doc.event => doc'.event.version > doc.event.version]_doc
  BY EveryStepForward DEF Sound, Forward, Later
<1> QED BY <1>1, ProjectionInvariant, PTL DEF Spec, DocumentNeverGoesBack

\* The document of a finished rebuild.
LEMMA RebuiltDocument ==
  ASSUME IInv, rebuild.step = "done"
  PROVE  /\ doc.listed
         /\ Reached(doc.event, rebuild.read.event.version)
         /\ \A y \in TypesOf(rebuild.read.stock) :
              Reached(doc.stock[y], rebuild.read.stock[y].version)
         /\ EventRowOnRecord(rebuild.read.event) /\ ReadInv
<1>1. rebuild.todo = {} /\ ReadInv /\ WrittenInv /\ EventRowOnRecord(rebuild.read.event)
  BY DEF IInv, SourceInv, DocumentInv, ReadsInv
<1> QED BY <1>1 DEF ReadInv, WrittenInv

\* A rebuild that reports success has brought the document up to what it read.
THEOREM RebuildRepairs == Spec => []RebuildCatchesUp
<1>1. IInv => RebuildCatchesUp
  <2> SUFFICES ASSUME IInv, rebuild.step = "done", event = rebuild.read.event
               PROVE  /\ doc.event = event /\ doc.stock = StockRows(types, stock)
                      /\ doc.total = event.total /\ doc.remaining = event.remaining
    BY RebuiltDocument DEF RebuildCatchesUp
  <2>1. SourceTypes /\ History /\ Recorded(doc) /\ TablesInv /\ doc \in Document
    BY Parts
  <2>2. types # {} /\ Now \in past /\ Now.event = event /\ Now.stock = StockRows(types, stock)
    BY <2>1, RebuiltDocument DEF History, EventRowOnRecord, Now
  <2>3. event \in Inventory /\ event.version \in Nat
    BY <2>1 DEF SourceTypes, Inventory
  <2>4. doc.event = event
    <3>1. doc.event # Absent /\ doc.event.version >= event.version
      BY RebuiltDocument DEF Reached
    <3>2. EventRowOnRecord(doc.event) /\ EventRowOnRecord(event)
      BY <2>1, <2>2, <3>1 DEF Recorded, EventRowOnRecord
    <3>3. doc.event \in Inventory /\ doc.event.version \in Nat
      BY <2>1, <3>1, RowTypes, DocumentRows
    <3>4. doc.event.version <= event.version
      BY <2>1, <3>2 DEF History, EventRowOnRecord
    <3> QED BY <2>1, <2>3, <3>1, <3>2, <3>3, <3>4, RecordsAgree
  <2>5. rebuild.read.stock = StockRows(types, stock)
    <3>1. PICK p \in past : /\ p.stock = rebuild.read.stock
                            /\ p.event.version >= event.version
      BY RebuiltDocument DEF ReadInv
    <3>2. p.event.version <= event.version /\ p.event.version \in Nat
      BY <2>1, RowTypes DEF History
    <3>3. p = Now
      BY <2>1, <2>2, <2>3, <3>1, <3>2 DEF History
    <3> QED BY <2>2, <3>1, <3>3
  <2>6. ASSUME NEW y \in Types PROVE doc.stock[y] = StockRows(types, stock)[y]
    <3>1. CASE y \in types
      <4>1. StockRows(types, stock)[y] = stock[y] /\ stock[y] \in Inventory
        BY <3>1, <2>1 DEF StockRows, SourceTypes
      <4>2. y \in TypesOf(rebuild.read.stock)
        BY <4>1, <2>5, AbsentAssumption DEF TypesOf
      <4>3. doc.stock[y] # Absent /\ doc.stock[y].version >= stock[y].version
        BY <2>5, <4>1, <4>2, RebuiltDocument DEF Reached
      <4>4. TypeRowOnRecord(y, doc.stock[y]) /\ TypeRowOnRecord(y, stock[y])
        BY <2>1, <2>2, <4>1, <4>3 DEF Recorded, TypeRowOnRecord
      <4>5. doc.stock[y] \in Inventory
        BY <2>1, <4>3, RowTypes, DocumentRows
      <4>6. doc.stock[y].version \in Nat /\ stock[y].version \in Nat
        BY <4>1, <4>5 DEF Inventory
      <4>7. doc.stock[y].version <= stock[y].version
        BY <2>1, <4>3, <4>4 DEF History, TypeRowOnRecord
      <4>8. doc.stock[y].version = stock[y].version
        BY <4>3, <4>6, <4>7
      <4> QED BY <2>1, <4>1, <4>4, <4>5, <4>8, RecordsAgree
    <3>2. CASE y \notin types
      <4>1. doc.stock[y] = Absent
        BY <2>1, <3>2 DEF Recorded, TypeRowOnRecord, History
      <4> QED BY <3>2, <4>1 DEF StockRows
    <3> QED BY <3>1, <3>2
  <2>7. doc.stock = StockRows(types, stock)
    <3>1. doc.stock \in Rows
      BY <2>1 DEF SourceTypes, Document
    <3> QED BY <2>6, <3>1 DEF StockRows, Rows
  <2> QED BY <2>1, <2>3, <2>4, <2>7, AbsentAssumption DEF Recorded, ShowsEvent
<1> QED BY <1>1, ProjectionInvariant, PTL

\* What the reconciliation finds, category by category.
LEMMA FindingsAre ==
  ASSUME NEW s, NEW d, d # EmptyDocument,
         d.event # Absent, TypesOf(d.stock) # {}
  PROVE  LET common == TypesOf(s.stock) \cap TypesOf(d.stock) IN
         /\ "malformed_projection" \notin Findings(s, d)
         /\ "contract_corruption" \in Findings(s, d) =>
              \/ CorruptRow(s.event, d.event)
              \/ \E y \in common : CorruptRow(s.stock[y], d.stock[y])
         /\ Findings(s, d) = {} =>
              /\ s.event.version = d.event.version
              /\ d.listed
              /\ \A y \in common : s.stock[y].version = d.stock[y].version
              /\ TypesOf(s.stock) = TypesOf(d.stock)
<1> DEFINE common == TypesOf(s.stock) \cap TypesOf(d.stock)
           rec(category, condition) == IF condition THEN {category} ELSE {}
           corrupt == \/ CorruptRow(s.event, d.event)
                      \/ \E y \in common : CorruptRow(s.stock[y], d.stock[y])
           F1 == rec("contract_corruption", corrupt)
           F2 == rec("event_mismatch", s.event.version # d.event.version)
           F3 == rec("metadata_mismatch", ~d.listed)
           F4 == rec("ticket_type_mismatch",
                     \E y \in common : s.stock[y].version # d.stock[y].version)
           F5 == rec("missing_ticket_type", TypesOf(s.stock) \ common # {})
           F6 == rec("unexpected_ticket_type", TypesOf(d.stock) \ common # {})
<1>1. Findings(s, d) = UNION {F1, F2, F3, F4, F5, F6}
  BY DEF Findings
<1>2. /\ F1 \subseteq {"contract_corruption"} /\ F2 \subseteq {"event_mismatch"}
      /\ F3 \subseteq {"metadata_mismatch"} /\ F4 \subseteq {"ticket_type_mismatch"}
      /\ F5 \subseteq {"missing_ticket_type"} /\ F6 \subseteq {"unexpected_ticket_type"}
  OBVIOUS
<1>3. /\ F1 # {} => corrupt
      /\ F2 = {} => s.event.version = d.event.version
      /\ F3 = {} => d.listed
      /\ F4 = {} => \A y \in common : s.stock[y].version = d.stock[y].version
      /\ F5 = {} => TypesOf(s.stock) \subseteq common
      /\ F6 = {} => TypesOf(d.stock) \subseteq common
  OBVIOUS
<1> HIDE DEF F1, F2, F3, F4, F5, F6
<1>4. "malformed_projection" \notin Findings(s, d)
  BY <1>1, <1>2
<1>5. "contract_corruption" \in Findings(s, d) => F1 # {}
  BY <1>1, <1>2
<1>6. Findings(s, d) = {} => F2 = {} /\ F3 = {} /\ F4 = {} /\ F5 = {} /\ F6 = {}
  BY <1>1
<1> QED BY <1>3, <1>4, <1>5, <1>6

\* The reconciliation raises no false alarm, and a report without findings is
\* right about everything the document shows.
THEOREM ReportRight == Spec => []ReportIsRight
<1>1. IInv => ReportIsRight
  <2> SUFFICES ASSUME IInv, NEW s \in past
               PROVE  /\ "contract_corruption" \notin Findings(s, doc)
                      /\ "malformed_projection" \notin Findings(s, doc)
                      /\ Findings(s, doc) = {} =>
                           doc = [listed |-> TRUE, total |-> s.event.total,
                                  remaining |-> s.event.remaining,
                                  event |-> s.event, stock |-> s.stock]
    BY DEF ReportIsRight
  <2>1. SourceTypes /\ History /\ Recorded(doc) /\ doc \in Document
    BY Parts
  <2>2. CASE doc = EmptyDocument
    BY <2>2 DEF Findings
  <2>3. CASE doc # EmptyDocument /\ doc.event = Absent
    <3>1. TypesOf(doc.stock) = {}
      BY <2>1, <2>3 DEF Recorded, TypesOf
    <3>2. Findings(s, doc) = {"unversioned_projection"}
      BY <2>3, <3>1 DEF Findings
    <3> QED BY <3>2
  <2>4. CASE doc # EmptyDocument /\ doc.event # Absent
    <3> DEFINE common == TypesOf(s.stock) \cap TypesOf(doc.stock)
    <3>1. TypesOf(doc.stock) # {}
      BY <2>1, <2>4 DEF Recorded, TypesOf
    <3>2. /\ "malformed_projection" \notin Findings(s, doc)
          /\ "contract_corruption" \in Findings(s, doc) =>
               \/ CorruptRow(s.event, doc.event)
               \/ \E y \in common : CorruptRow(s.stock[y], doc.stock[y])
          /\ Findings(s, doc) = {} =>
               /\ s.event.version = doc.event.version
               /\ doc.listed
               /\ \A y \in common : s.stock[y].version = doc.stock[y].version
               /\ TypesOf(s.stock) = TypesOf(doc.stock)
      BY <2>4, <3>1, FindingsAre
    <3>3. s.event.version = doc.event.version => s.event = doc.event
      <4>1. /\ s.event \in Inventory /\ doc.event \in Inventory
            /\ EventRowOnRecord(s.event) /\ EventRowOnRecord(doc.event)
        BY <2>1, <2>4, RowTypes, DocumentRows DEF Recorded, EventRowOnRecord
      <4> QED BY <2>1, <4>1, RecordsAgree
    <3>4. ASSUME NEW y \in common, s.stock[y].version = doc.stock[y].version
          PROVE  s.stock[y] = doc.stock[y]
      <4>1. y \in Types /\ s.stock[y] # Absent /\ doc.stock[y] # Absent
        BY DEF TypesOf
      <4>2. /\ s.stock[y] \in Inventory /\ doc.stock[y] \in Inventory
            /\ TypeRowOnRecord(y, s.stock[y]) /\ TypeRowOnRecord(y, doc.stock[y])
        BY <2>1, <4>1, RowTypes, DocumentRows DEF Recorded, TypeRowOnRecord
      <4> QED BY <2>1, <3>4, <4>1, <4>2, RecordsAgree
    <3>5. "contract_corruption" \notin Findings(s, doc)
      BY <3>2, <3>3, <3>4 DEF CorruptRow
    <3>6. ASSUME Findings(s, doc) = {}
          PROVE  doc = [listed |-> TRUE, total |-> s.event.total,
                        remaining |-> s.event.remaining,
                        event |-> s.event, stock |-> s.stock]
      <4>1. doc.event = s.event /\ doc.listed
        BY <3>2, <3>3, <3>6
      <4>2. doc.total = s.event.total /\ doc.remaining = s.event.remaining
        BY <2>1, <2>4, <4>1 DEF Recorded, ShowsEvent
      <4>3. \A y \in Types : doc.stock[y] = s.stock[y]
        BY <3>2, <3>4, <3>6 DEF TypesOf
      <4>4. doc.stock = s.stock
        <5>1. doc.stock \in Rows /\ s.stock \in Rows
          BY <2>1 DEF SourceTypes, Document
        <5> QED BY <4>3, <5>1 DEF Rows
      <4> QED BY <2>1, <4>1, <4>2, <4>4 DEF Document
    <3> QED BY <3>2, <3>5, <3>6
  <2> QED BY <2>2, <2>3, <2>4
<1> QED BY <1>1, ProjectionInvariant, PTL

-----------------------------------------------------------------------------
(* The repair CLI (ProjectionRepair). The document may hold anything now   *)
(* that the damage leaves of it; what a run of the tool relies on is that  *)
(* everybody else writes rows on record (SourceInv), and what its checks   *)
(* have found stays true.                                                  *)

LooseRow == [total: Nat \cup {Absent}, remaining: Nat \cup {Absent}, version: Nat]
LooseDocument == [listed: BOOLEAN, total: Nat \cup {Absent}, remaining: Nat \cup {Absent},
                  event: LooseRow \cup {Absent}, stock: [Types -> LooseRow \cup {Absent}]]

\* An element of the document belongs to a type on sale or to another Event.
DamagedInv ==
  /\ doc \in LooseDocument
  /\ types \cap Foreign = {}
  /\ \A y \in Types : doc.stock[y] # Absent => y \in types \cup Foreign

\* Rows of the same version are the same rows.
Agrees(s, d) ==
  /\ \A y \in TypesOf(s.stock) : SameVersion(s.stock[y], d.stock[y]) => d.stock[y] = s.stock[y]
  /\ SameVersion(s.event, d.event) => d.event = s.event

Reasons == {"event_exists_in_authoritative", "event_missing_in_authoritative",
            "ticket_type_exists_in_authoritative", "document_not_found",
            "ticket_type_not_in_document", "malformed_projection_detected",
            "no_contract_corruption_detected"}
Runs == [step: Steps, mode: Operations, type: Types, apply: BOOLEAN,
         read: [event: Inventory, stock: Rows], refusals: SUBSET Reasons,
         applied: BOOLEAN, exit: 0..2, wrote: BOOLEAN, clean: BOOLEAN]

\* A run before its report; what the report says of it.
HonestInv ==
  /\ repair.step # "done" => ~repair.wrote /\ ~repair.applied
  /\ repair.step = "write" => repair.refusals = {} /\ repair.apply
  /\ repair.step = "done" /\ repair.exit = 0 => repair.refusals = {}
  /\ ReportIsHonest

\* The steps of each operation.
StepsInv ==
  /\ repair.step = "event" => repair.mode # "repair-corruption"
  /\ repair.step = "type" => repair.mode = "delete-ticket-type"
  /\ repair.step = "snapshot" => repair.mode = "repair-corruption"

Completed == repair.step = "done" /\ repair.exit = 0 /\ repair.apply

\* The document of no Event stays one until it is deleted, as no Event takes its id.
DeleteDocumentInv ==
  repair.mode = "delete-document" =>
    /\ repair.step \in {"event", "document", "write"} => doc # EmptyDocument
    /\ repair.step \in {"document", "write"} /\ repair.refusals = {} => types = {}
    /\ Completed /\ repair.clean /\ types = {} => doc = EmptyDocument

\* An element whose type is not on sale after it was in the document is foreign.
DeleteTypeInv ==
  repair.mode = "delete-ticket-type" =>
    /\ repair.type \in types \cup Foreign
    /\ repair.step \in {"document", "write"} /\ repair.refusals = {} => repair.type \in Foreign
    /\ Completed => /\ repair.type \in Foreign
                    /\ repair.clean => doc.stock[repair.type] = Absent

\* The snapshot is a committed state, and what was found or made equal to it stays.
Settled == Completed \/ /\ repair.step = "done"
                        /\ repair.refusals = {"no_contract_corruption_detected"}
RepairRowsInv ==
  repair.mode = "repair-corruption" =>
    /\ repair.step \in {"snapshot", "document"} => repair.refusals = {}
    /\ repair.step \in {"document", "write"} \/ Settled => repair.read \in past
    /\ Settled /\ repair.clean => Agrees(repair.read, doc)

RunInv == /\ repair \in Runs
          /\ HonestInv /\ StepsInv /\ DeleteDocumentInv /\ DeleteTypeInv /\ RepairRowsInv

RepairInv == SourceInv /\ DamagedInv /\ RunInv

\* A row that the database committed is a row a damaged document may hold.
LEMMA LooseRows ==
  /\ Inventory \subseteq LooseRow /\ Absent \notin LooseRow
  /\ \A n \in 0..MaxInteger : n \in Nat /\ n # Absent
BY CapacityAssumption, AbsentAssumption, RowsAssumption DEF LooseRow, Inventory

\* What a script of the projection makes of a damaged document: rows stay, or
\* become those of the message.
LEMMA LooseVersioned ==
  ASSUME NEW d \in LooseDocument, NEW y \in Types, NEW s \in Inventory, NEW a \in Inventory
  PROVE  LET e == GuardScript(d, Versioned(y, s, a)) IN
         /\ e \in LooseDocument
         /\ \A x \in Types \ {y} : e.stock[x] = d.stock[x]
         /\ e.stock[y] \in {d.stock[y], s}
         /\ e.event \in {d.event, a}
         /\ d # EmptyDocument => e # EmptyDocument
<1> DEFINE m == Versioned(y, s, a)
           typed == IF Newer(m.stock, d.stock[m.type])
                    THEN [d EXCEPT !.stock[m.type] = m.stock] ELSE d
           e == GuardScript(d, m)
<1>1. m.type = y /\ m.stock = s /\ m.event = a
  BY DEF Versioned
<1>2. /\ s \in LooseRow /\ s # Absent /\ a \in LooseRow /\ a # Absent
      /\ a.total \in Nat /\ a.remaining \in Nat
  BY LooseRows DEF Inventory
<1>3. /\ typed \in LooseDocument
      /\ typed.event = d.event
      /\ \A x \in Types \ {y} : typed.stock[x] = d.stock[x]
      /\ typed.stock[y] \in {d.stock[y], s}
      /\ typed = d \/ typed.stock[y] = s
  <2>1. CASE Newer(s, d.stock[y])
    <3>1. typed = [d EXCEPT !.stock[y] = s]
      BY <1>1, <2>1
    <3> QED BY <3>1, <1>2 DEF LooseDocument
  <2>2. CASE ~Newer(s, d.stock[y])
    BY <1>1, <2>2
  <2> QED BY <2>1, <2>2
<1> HIDE DEF typed
<1>4. CASE Newer(a, d.event)
  <2>1. e = [typed EXCEPT !.event = a, !.total = a.total, !.remaining = a.remaining]
    BY <1>1, <1>4 DEF GuardScript, typed
  <2>2. e \in LooseDocument /\ e.event = a /\ e.stock = typed.stock
    BY <2>1, <1>2, <1>3 DEF LooseDocument
  <2>3. e # EmptyDocument
    BY <2>2, <1>2 DEF EmptyDocument
  <2> QED BY <2>2, <2>3, <1>3
<1>5. CASE ~Newer(a, d.event)
  <2>1. e = typed
    BY <1>1, <1>5 DEF GuardScript, typed
  <2>2. typed.stock[y] = s => typed # EmptyDocument
    BY <1>2 DEF EmptyDocument
  <2> QED BY <2>1, <2>2, <1>3
<1> QED BY <1>4, <1>5

LEMMA LooseMetadata ==
  ASSUME NEW d \in LooseDocument, NEW t \in Nat, NEW r \in Nat
  PROVE  LET e == MetadataScript(d, t, r) IN
         e \in LooseDocument /\ e.stock = d.stock /\ e.event = d.event /\ e # EmptyDocument
BY DEF MetadataScript, LooseDocument, EmptyDocument

LEMMA LooseLegacy ==
  ASSUME NEW d \in LooseDocument, NEW r \in 0..MaxInteger
  PROVE  LET e == LegacyScript(d, r) IN
         /\ e \in LooseDocument /\ e.stock = d.stock /\ e.event = d.event
         /\ d # EmptyDocument => e # EmptyDocument
<1>1. r \in Nat /\ r # Absent
  BY LooseRows
<1> QED BY <1>1 DEF LegacyScript, LooseDocument, EmptyDocument

\* The rest of the system writes rows on record, and deletes no document.
Spreads(e) ==
  /\ e \in LooseDocument
  /\ \A y \in Types : \/ e.stock[y] = doc.stock[y]
                      \/ e.stock[y] \in Inventory /\ TypeRowOnRecord(y, e.stock[y])
  /\ \/ e.event = doc.event
     \/ e.event \in Inventory /\ EventRowOnRecord(e.event)
  /\ doc # EmptyDocument => e # EmptyDocument

LEMMA AppliesSpreads ==
  ASSUME doc \in LooseDocument, NEW m, Applies(m) PROVE Spreads(doc')
<1>1. m \in Message /\ RecordedIn(past, m) /\ doc' = Applied(doc, m)
  BY DEF Applies
<1>2. CASE m.kind = "listed"
  <2>1. doc' = MetadataScript(doc, m.total, m.total) /\ m.total \in Nat
    BY <1>1, <1>2, MessageKinds, LooseRows
  <2> QED BY <2>1, LooseMetadata DEF Spreads
<1>3. CASE m.kind = "versioned"
  <2>1. /\ m.type \in Types /\ m.stock \in Inventory /\ m.event \in Inventory
        /\ doc' = GuardScript(doc, Versioned(m.type, m.stock, m.event))
        /\ TypeRowOnRecord(m.type, m.stock) /\ EventRowOnRecord(m.event)
    BY <1>1, <1>3, MessageKinds DEF RecordedIn, TypeRowOnRecord, EventRowOnRecord
  <2>2. /\ doc' \in LooseDocument
        /\ \A x \in Types \ {m.type} : doc'.stock[x] = doc.stock[x]
        /\ doc'.stock[m.type] \in {doc.stock[m.type], m.stock}
        /\ doc'.event \in {doc.event, m.event}
        /\ doc # EmptyDocument => doc' # EmptyDocument
    BY <2>1, LooseVersioned
  <2> QED BY <2>1, <2>2 DEF Spreads
<1>4. CASE m.kind = "legacy"
  <2>1. doc' = LegacyScript(doc, m.remaining) /\ m.remaining \in 0..MaxInteger
    BY <1>1, <1>4, MessageKinds
  <2> QED BY <2>1, LooseLegacy DEF Spreads
<1> QED BY <1>1, <1>2, <1>3, <1>4, MessageKinds

LEMMA SystemSpreads ==
  ASSUME SourceInv, doc \in LooseDocument, [Next]_vars PROVE Spreads(doc')
<1>1. CASE AppliesMetadata
  <2>1. PICK row \in Inventory : doc' = MetadataScript(doc, row.total, row.remaining)
    BY <1>1 DEF AppliesMetadata
  <2>2. row.total \in Nat /\ row.remaining \in Nat
    BY CapacityAssumption DEF Inventory
  <2> QED BY <2>1, <2>2, LooseMetadata DEF Spreads
<1>2. CASE doc' = doc
  BY <1>2 DEF Spreads
<1> QED BY <1>1, <1>2, AppliesSpreads, DocumentSteps

\* The system's steps are steps of the projection.
LEMMA SystemIsNext == System => Next
BY ForeignAssumption DEF System, Next

\* Types come and stay; those of other Events do not come, and an Event does not
\* come to a document.
LEMMA SystemTypes ==
  ASSUME System
  PROVE  /\ types \subseteq types' /\ types' \cap Foreign = types \cap Foreign
         /\ doc # EmptyDocument /\ types = {} => types' = {}
<1>1. DefaultType \notin Foreign
  BY ForeignAssumption
<1>2. CASE ListEvent /\ doc = EmptyDocument
  BY <1>1, <1>2 DEF ListEvent, CreateEvent
<1>3. ASSUME NEW y \in Types \ Foreign, ListType(y)
      PROVE  types \subseteq types' /\ types' \cap Foreign = types \cap Foreign /\ types # {}
  BY <1>3 DEF ListType, AddTicketType
<1>4. ASSUME NEW q \in Quantities, NEW y \in Types, Purchase(y, q) PROVE types' = types
  BY <1>4 DEF Purchase, SellFromType, SellFromEvent
<1>5. ASSUME NEW w \in Workers, Worker(w) PROVE types' = types
  BY <1>5 DEF Worker, Receive, Handle, Delete, AbandonBatch, tables
<1>6. CASE Rebuild
  BY <1>6 DEF Rebuild, ReadAggregate, ReadTypes, WriteMetadata, WriteType, FinishRebuild,
     AbortRebuild, tables
<1> QED BY <1>2, <1>3, <1>4, <1>5, <1>6 DEF System

\* Before there is an Event, there is nothing to write to its document.
LEMMA QuietBeforeEvent ==
  ASSUME SourceInv, types = {}, [Next]_vars PROVE doc' = doc
<1>1. past = {} /\ \A w \in Workers : batch[w] = {}
  BY DEF SourceInv, History, MessagesInv
<1>2. rebuild.todo = {}
  BY <1>1 DEF SourceInv, ReadsInv, EventRowOnRecord
<1>3. \A w \in Workers : Worker(w) => doc' = doc
  BY <1>1 DEF Worker, Receive, Handle, Delete, AbandonBatch
<1>4. Rebuild => doc' = doc
  BY <1>2 DEF Rebuild, ReadAggregate, ReadTypes, WriteMetadata, WriteType, FinishRebuild,
     AbortRebuild, search
<1> QED BY <1>3, <1>4 DEF Next, ListEvent, ListType, Purchase, OldReleasePurchase, Cutover,
     search, vars

\* A type with a row on record is on sale.
LEMMA OnRecordOnSale ==
  ASSUME SourceInv, NEW y \in Types, NEW row, row # Absent, TypeRowOnRecord(y, row)
  PROVE  y \in types
BY DEF SourceInv, History, TypeRowOnRecord

-----------------------------------------------------------------------------
(* Steps of the rest of the system beside a run.                           *)

\* Agreement with a committed state survives rows on record.
LEMMA AgreesStays ==
  ASSUME SourceInv, NEW s \in past, Agrees(s, doc), NEW e, Spreads(e)
  PROVE  Agrees(s, e)
<1>1. SourceTypes /\ History
  BY DEF SourceInv
<1>2. /\ \A y \in TypesOf(s.stock) : s.stock[y] \in Inventory /\ TypeRowOnRecord(y, s.stock[y])
      /\ s.event \in Inventory /\ EventRowOnRecord(s.event)
  BY <1>1, RowTypes DEF TypesOf, TypeRowOnRecord, EventRowOnRecord
<1>3. ASSUME NEW y \in TypesOf(s.stock), SameVersion(s.stock[y], e.stock[y])
      PROVE  e.stock[y] = s.stock[y]
  <2>1. y \in Types
    BY DEF TypesOf
  <2> QED BY <1>1, <1>2, <1>3, <2>1, RecordsAgree DEF SameVersion, Spreads, Agrees
<1>4. SameVersion(s.event, e.event) => e.event = s.event
  BY <1>1, <1>2, RecordsAgree DEF SameVersion, Spreads, Agrees
<1> QED BY <1>3, <1>4 DEF Agrees

LEMMA SystemKeepsRepairInv ==
  ASSUME RepairInv, System, Undamaged PROVE RepairInv'
<1>1. /\ SourceInv /\ doc \in LooseDocument /\ [Next]_vars /\ UNCHANGED repair
      /\ types \cap Foreign = {}
  BY SystemIsNext DEF RepairInv, DamagedInv, Undamaged
<1>2. SourceInv'
  BY <1>1, SourceStep
<1>3. Spreads(doc') /\ past \subseteq past'
  BY <1>1, SystemSpreads, PastGrows
<1>4. /\ types \subseteq types' /\ types' \cap Foreign = {}
      /\ doc # EmptyDocument /\ types = {} => types' = {}
  BY <1>1, SystemTypes
<1>5. ASSUME NEW y \in Types
      PROVE  doc'.stock[y] = doc.stock[y] \/ (y \in types /\ doc'.stock[y] # Absent)
  <2>1. ASSUME doc'.stock[y] \in Inventory, TypeRowOnRecord(y, doc'.stock[y])
        PROVE  y \in types /\ doc'.stock[y] # Absent
    BY <1>1, <2>1, AbsentAssumption, OnRecordOnSale
  <2> QED BY <1>3, <2>1 DEF Spreads
<1>6. DamagedInv'
  BY <1>3, <1>4, <1>5 DEF RepairInv, DamagedInv, Spreads
<1>7. DeleteDocumentInv'
  <2>1. doc # EmptyDocument => doc' # EmptyDocument
    BY <1>3 DEF Spreads
  <2>2. types' = {} => doc' = doc /\ types = {}
    BY <1>1, <1>4, QuietBeforeEvent
  <2> QED BY <1>1, <1>4, <2>1, <2>2 DEF RepairInv, RunInv, DeleteDocumentInv, Completed
<1>8. DeleteTypeInv'
  <2>1. repair.type \in Types
    BY DEF RepairInv, RunInv, Runs
  <2> QED BY <1>1, <1>4, <1>5, <2>1 DEF RepairInv, RunInv, DeleteTypeInv, Completed
<1>9. RepairRowsInv'
  <2>1. repair.read \in past /\ Agrees(repair.read, doc) => Agrees(repair.read, doc')
    BY <1>1, <1>3, AgreesStays
  <2> QED BY <1>1, <1>3, <2>1 DEF RepairInv, RunInv, RepairRowsInv, Settled, Completed
<1>10. (repair \in Runs /\ HonestInv /\ StepsInv)'
  BY <1>1 DEF RepairInv, RunInv, HonestInv, ReportIsHonest, StepsInv
<1> QED BY <1>2, <1>6, <1>7, <1>8, <1>9, <1>10 DEF RepairInv, RunInv

-----------------------------------------------------------------------------
(* Damage.                                                                 *)

LEMMA SourceKept ==
  ASSUME SourceInv, UNCHANGED <<tables, past, queue, batch, handled, rebuild>>
  PROVE  SourceInv'
BY ReadsKept, RebuildFrame DEF SourceInv, SourceTypes

\* A row whose quantity is overwritten is a row still.
LEMMA DamagedRow ==
  ASSUME NEW row \in LooseRow, NEW n \in Damages
  PROVE  [row EXCEPT !.remaining = n] \in LooseRow
BY DamagesAssumption, CapacityAssumption DEF LooseRow

\* What damage may do to the document.
LEMMA DamageDoes ==
  ASSUME DamagedInv, Damage
  PROVE  /\ doc' \in LooseDocument /\ doc' # EmptyDocument
         /\ \A y \in Types : doc'.stock[y] # Absent => doc.stock[y] # Absent \/ y \in Foreign
<1>1. doc \in LooseDocument /\ Absent \notin LooseRow
  BY LooseRows DEF DamagedInv
<1>2. ASSUME NEW y \in TypesOf(doc.stock), NEW n \in Damages,
             doc' = [doc EXCEPT !.stock[y].remaining = n]
      PROVE  /\ doc' \in LooseDocument /\ doc' # EmptyDocument
             /\ \A x \in Types : doc'.stock[x] # Absent => doc.stock[x] # Absent
  <2> DEFINE row == [doc.stock[y] EXCEPT !.remaining = n]
  <2>1. y \in Types /\ doc.stock[y] # Absent /\ row \in LooseRow
    BY <1>1, DamagedRow DEF TypesOf, LooseDocument
  <2>2. doc' = [doc EXCEPT !.stock = [doc.stock EXCEPT ![y] = row]]
    BY <1>2
  <2> HIDE DEF row
  <2>3. doc' \in LooseDocument /\ doc'.stock = [doc.stock EXCEPT ![y] = row]
    BY <1>1, <2>1, <2>2 DEF LooseDocument
  <2>4. doc'.stock[y] = row /\ \A x \in Types \ {y} : doc'.stock[x] = doc.stock[x]
    BY <1>1, <2>1, <2>3 DEF LooseDocument
  <2>5. doc' # EmptyDocument
    BY <1>1, <2>1, <2>4 DEF EmptyDocument
  <2> QED BY <2>1, <2>3, <2>4, <2>5
<1>3. ASSUME NEW n \in Damages, doc.event # Absent,
             doc' = [doc EXCEPT !.event.remaining = n]
      PROVE  doc' \in LooseDocument /\ doc' # EmptyDocument /\ doc'.stock = doc.stock
  <2> DEFINE row == [doc.event EXCEPT !.remaining = n]
  <2>1. row \in LooseRow
    BY <1>1, <1>3, DamagedRow DEF LooseDocument
  <2>2. doc' = [doc EXCEPT !.event = row]
    BY <1>3
  <2> HIDE DEF row
  <2> QED BY <1>1, <2>1, <2>2 DEF LooseDocument, EmptyDocument
<1>4. Fresh(1) \in LooseRow
  BY DEF Fresh, LooseRow
<1>5. ASSUME NEW y \in Foreign, doc' = [doc EXCEPT !.stock[y] = Fresh(1)]
      PROVE  /\ doc' \in LooseDocument /\ doc' # EmptyDocument
             /\ \A x \in Types \ {y} : doc'.stock[x] = doc.stock[x]
  <2>1. y \in Types
    BY ForeignAssumption
  <2>2. /\ doc' \in LooseDocument /\ doc'.stock[y] = Fresh(1)
        /\ \A x \in Types \ {y} : doc'.stock[x] = doc.stock[x]
    BY <1>1, <1>4, <1>5, <2>1 DEF LooseDocument
  <2> QED BY <1>1, <1>4, <2>1, <2>2 DEF EmptyDocument
<1>6. ASSUME doc' = [MetadataScript(doc, 1, 1) EXCEPT !.event = Fresh(1)]
      PROVE  doc' \in LooseDocument /\ doc' # EmptyDocument /\ doc'.stock = doc.stock
  <2>1. MetadataScript(doc, 1, 1) \in LooseDocument /\ MetadataScript(doc, 1, 1).stock = doc.stock
    BY <1>1, LooseMetadata
  <2> HIDE DEF MetadataScript
  <2> QED BY <1>1, <1>4, <1>6, <2>1 DEF LooseDocument, EmptyDocument
<1> QED BY <1>2, <1>3, <1>5, <1>6 DEF Damage

LEMMA DamageKeepsRepairInv ==
  ASSUME RepairInv, Damage PROVE RepairInv'
<1>1. /\ UNCHANGED <<tables, past, queue, batch, handled, rebuild>>
      /\ repair' = [repair EXCEPT !.clean = FALSE] /\ types' = types /\ past' = past
  BY DEF Damage, tables
<1>2. SourceInv'
  BY <1>1, SourceKept DEF RepairInv
<1>3. doc' # EmptyDocument /\ DamagedInv'
  BY <1>1, DamageDoes DEF RepairInv, DamagedInv
<1>4. /\ repair' \in Runs /\ ~repair'.clean
      /\ repair'.step = repair.step /\ repair'.mode = repair.mode /\ repair'.type = repair.type
      /\ repair'.apply = repair.apply /\ repair'.read = repair.read
      /\ repair'.refusals = repair.refusals /\ repair'.applied = repair.applied
      /\ repair'.exit = repair.exit /\ repair'.wrote = repair.wrote
  BY <1>1 DEF RepairInv, RunInv, Runs
<1>5. HonestInv' /\ StepsInv'
  BY <1>4 DEF RepairInv, RunInv, HonestInv, ReportIsHonest, StepsInv
<1>6. DeleteDocumentInv' /\ DeleteTypeInv' /\ RepairRowsInv'
  BY <1>1, <1>3, <1>4 DEF RepairInv, RunInv, DeleteDocumentInv, DeleteTypeInv, RepairRowsInv,
     Settled, Completed
<1> QED BY <1>2, <1>3, <1>4, <1>5, <1>6 DEF RepairInv, RunInv

-----------------------------------------------------------------------------
(* A run of the tool.                                                      *)

\* A committed state agrees with the document unless a row of its version is
\* malformed or differs.
LEMMA AgreesMeans ==
  ASSUME SourceTypes, NEW s \in past, NEW d
  PROVE  Agrees(s, d) <=> ~Differs(s, d) /\ ~Malformed(s, d)
<1>1. /\ \A y \in TypesOf(s.stock) : s.stock[y] \in Inventory /\ Readable(s.stock[y])
      /\ s.event \in Inventory /\ Readable(s.event)
  <2>1. \A r \in Inventory : Readable(r)
    BY AbsentAssumption, CapacityAssumption DEF Inventory, Readable
  <2>2. /\ \A y \in TypesOf(s.stock) : s.stock[y] \in Inventory
        /\ s.event \in Inventory
    BY RowTypes DEF TypesOf
  <2> QED BY <2>1, <2>2
<1> QED BY <1>1 DEF Agrees, Differs, Malformed, Comparable

\* REPAIR_CONTRACT_CORRUPTION_SCRIPT replaces rows of the snapshot's version only.
LEMMA RepairScriptDoes ==
  ASSUME SourceTypes, NEW s \in past, NEW d \in LooseDocument
  PROVE  LET e == RepairScript(s, d) IN
         /\ e \in LooseDocument /\ Agrees(s, e)
         /\ \A y \in Types : \/ e.stock[y] = d.stock[y]
                             \/ /\ y \in Comparable(s, d) /\ e.stock[y] = s.stock[y]
         /\ \/ e.event = d.event
            \/ SameVersion(s.event, d.event) /\ e.event = s.event
<1> DEFINE rows == [y \in Types |-> IF y \in Comparable(s, d) THEN s.stock[y] ELSE d.stock[y]]
           typed == [d EXCEPT !.stock = rows]
           e == RepairScript(s, d)
<1>1. /\ \A y \in TypesOf(s.stock) : s.stock[y] \in LooseRow
      /\ s.event \in LooseRow /\ s.event.total \in Nat /\ s.event.remaining \in Nat
  <2>1. /\ \A y \in TypesOf(s.stock) : s.stock[y] \in Inventory
        /\ s.event \in Inventory
    BY RowTypes DEF TypesOf
  <2> QED BY <2>1, LooseRows, CapacityAssumption DEF Inventory
<1>2. Comparable(s, d) \subseteq TypesOf(s.stock) /\ TypesOf(s.stock) \subseteq Types
  BY DEF Comparable, TypesOf
<1>3. rows \in [Types -> LooseRow \cup {Absent}]
  BY <1>1, <1>2 DEF LooseDocument
<1>4. typed \in LooseDocument /\ typed.stock = rows /\ typed.event = d.event
  BY <1>3 DEF LooseDocument
<1>5. e = IF SameVersion(s.event, d.event) /\ s.event # d.event
          THEN [typed EXCEPT !.event = s.event, !.total = s.event.total,
                             !.remaining = s.event.remaining]
          ELSE typed
  <2>1. typed = [d EXCEPT !.stock = [y \in Types |-> IF y \in Comparable(s, d)
                                                     THEN s.stock[y] ELSE @[y]]]
    OBVIOUS
  <2> HIDE DEF typed
  <2> QED BY <2>1 DEF RepairScript
<1>6. /\ \A y \in Types : y \in Comparable(s, d) => rows[y] = s.stock[y]
      /\ \A y \in Types : y \notin Comparable(s, d) => rows[y] = d.stock[y]
  OBVIOUS
<1> HIDE DEF rows, typed, e
<1>7. /\ e \in LooseDocument /\ e.stock = rows
      /\ e.event = IF SameVersion(s.event, d.event) THEN s.event ELSE d.event
  BY <1>1, <1>4, <1>5 DEF LooseDocument
<1>8. Agrees(s, e)
  <2>1. ASSUME NEW y \in TypesOf(s.stock), SameVersion(s.stock[y], e.stock[y])
        PROVE  e.stock[y] = s.stock[y]
    <3>1. y \in Types
      BY <1>2
    <3>2. y \notin Comparable(s, d) => ~SameVersion(s.stock[y], e.stock[y])
      BY <1>6, <1>7, <3>1 DEF Comparable
    <3> QED BY <1>6, <1>7, <2>1, <3>1, <3>2
  <2>2. SameVersion(s.event, e.event) => e.event = s.event
    BY <1>7
  <2> QED BY <2>1, <2>2 DEF Agrees
<1>9. /\ \A y \in Types : \/ e.stock[y] = d.stock[y]
                          \/ y \in Comparable(s, d) /\ e.stock[y] = s.stock[y]
      /\ e.event = d.event \/ (SameVersion(s.event, d.event) /\ e.event = s.event)
  BY <1>6, <1>7
<1> QED BY <1>7, <1>8, <1>9 DEF e

LEMMA InitRepairInv == RepairInit => RepairInv
<1> SUFFICES ASSUME RepairInit PROVE RepairInv
  OBVIOUS
<1>1. SourceInv
  BY InitSource DEF RepairInit
<1>2. doc = EmptyDocument /\ types = {} /\ repair = NoRepair
  BY DEF RepairInit, Init, TablesInit
<1>3. DamagedInv
  BY <1>2 DEF DamagedInv, EmptyDocument, LooseDocument
<1>4. repair \in Runs
  <2>1. NoRead \in [event: Inventory, stock: Rows]
    BY CapacityAssumption DEF NoRead, EmptyInventory, Inventory, Rows, Row
  <2> QED BY <1>2, <2>1, TypesAssumption DEF NoRepair, Runs, Steps, Operations
<1>5. RunInv
  BY <1>2, <1>4 DEF RunInv, NoRepair, HonestInv, ReportIsHonest, StepsInv, DeleteDocumentInv,
     DeleteTypeInv, RepairRowsInv, Settled, Completed
<1> QED BY <1>1, <1>3, <1>5 DEF RepairInv

\* A run whose report is printed, or that ends without one.
LEMMA DoneIsStep == "done" \in Steps
BY DEF Steps

LEMMA ReportedIs ==
  ASSUME NEW r \in Runs, NEW e, e = Reported(r)
  PROVE  /\ e \in Runs /\ e.step = "done" /\ e.exit = IF r.refusals # {} THEN 2 ELSE 0
         /\ e.mode = r.mode /\ e.type = r.type /\ e.apply = r.apply /\ e.read = r.read
         /\ e.refusals = r.refusals /\ e.applied = r.applied /\ e.wrote = r.wrote
         /\ e.clean = r.clean
<1> DEFINE code == IF r.refusals # {} THEN 2 ELSE 0
<1>1. e = [r EXCEPT !.step = "done", !.exit = code]
  BY DEF Reported
<1>2. code \in 0..2
  OBVIOUS
<1> HIDE DEF code
<1>3. /\ e \in Runs /\ e.step = "done" /\ e.exit = code
      /\ e.mode = r.mode /\ e.type = r.type /\ e.apply = r.apply /\ e.read = r.read
      /\ e.refusals = r.refusals /\ e.applied = r.applied /\ e.wrote = r.wrote
      /\ e.clean = r.clean
  BY <1>1, <1>2, DoneIsStep DEF Runs
<1> QED BY <1>3 DEF code

\* The steps that only look.
LEMMA LookKeeps ==
  ASSUME RepairInv, UNCHANGED vars, RunInv' PROVE RepairInv'
<1>1. UNCHANGED <<tables, past, queue, batch, handled, rebuild, doc, types>>
  BY DEF vars, search, tables
<1>2. SourceInv'
  BY <1>1, SourceKept DEF RepairInv
<1>3. DamagedInv'
  BY <1>1 DEF RepairInv, DamagedInv
<1> QED BY <1>2, <1>3 DEF RepairInv

LEMMA BeginStep ==
  ASSUME RepairInv, NEW operation \in Operations, NEW y \in Types, NEW apply \in BOOLEAN,
         Begin(operation, y, apply)
  PROVE  RepairInv'
<1>1. UNCHANGED vars /\ doc # EmptyDocument /\ doc' = doc /\ types' = types /\ past' = past
  BY DEF Begin, vars, search, tables
<1>2. NoRead \in [event: Inventory, stock: Rows]
  BY CapacityAssumption DEF NoRead, EmptyInventory, Inventory, Rows, Row
<1>3. /\ repair'.step = IF operation = "repair-corruption" THEN "snapshot" ELSE "event"
      /\ repair'.mode = operation /\ repair'.type = y
      /\ repair'.refusals = {} /\ ~repair'.applied /\ ~repair'.wrote
      /\ repair' \in Runs
  <2> DEFINE first == IF operation = "repair-corruption" THEN "snapshot" ELSE "event"
  <2>1. repair' = [step |-> first, mode |-> operation, type |-> y, apply |-> apply,
                   read |-> NoRead, refusals |-> {}, applied |-> FALSE, exit |-> 0,
                   wrote |-> FALSE, clean |-> TRUE]
    BY DEF Begin, NoRepair
  <2>2. first \in Steps
    BY DEF Steps
  <2> HIDE DEF first
  <2>3. repair' \in Runs
    BY <1>2, <2>1, <2>2 DEF Runs
  <2> QED BY <2>1, <2>3 DEF first
<1>4. operation = "delete-ticket-type" => y \in types \cup Foreign
  BY DEF Begin, RepairInv, DamagedInv, TypesOf
<1>5. RunInv'
  BY <1>1, <1>3, <1>4 DEF RunInv, HonestInv, ReportIsHonest, StepsInv, DeleteDocumentInv,
     DeleteTypeInv, RepairRowsInv, Settled, Completed, Operations
<1> QED BY <1>1, <1>5, LookKeeps

LEMMA CheckEventStep ==
  ASSUME RepairInv, CheckEvent PROVE RepairInv'
<1>1. UNCHANGED vars /\ doc' = doc /\ types' = types /\ past' = past /\ repair.step = "event"
  BY DEF CheckEvent, vars, search, tables
<1>2. repair \in Runs /\ repair.mode # "repair-corruption" /\ ~repair.wrote /\ ~repair.applied
  BY <1>1 DEF RepairInv, RunInv, StepsInv, HonestInv
<1>3. /\ repair'.mode = repair.mode /\ repair'.type = repair.type
      /\ repair'.wrote = repair.wrote /\ repair'.applied = repair.applied
      /\ repair' \in Runs
      /\ \/ /\ repair.mode = "delete-document" /\ repair'.step = "document"
            /\ repair'.refusals = {} => types = {}
         \/ repair.mode = "delete-ticket-type" /\ repair'.step = "type"
  BY <1>2 DEF CheckEvent, Runs, Steps, Operations, Reasons, Refused, EventExists
<1>4. RunInv'
  BY <1>1, <1>2, <1>3 DEF RepairInv, RunInv, HonestInv, ReportIsHonest, StepsInv,
     DeleteDocumentInv, DeleteTypeInv, RepairRowsInv, Settled, Completed
<1> QED BY <1>1, <1>4, LookKeeps

LEMMA CheckTypeStep ==
  ASSUME RepairInv, CheckType PROVE RepairInv'
<1>1. UNCHANGED vars /\ doc' = doc /\ types' = types /\ past' = past /\ repair.step = "type"
  BY DEF CheckType, vars, search, tables
<1>2. /\ repair \in Runs /\ repair.mode = "delete-ticket-type"
      /\ ~repair.wrote /\ ~repair.applied
  BY <1>1 DEF RepairInv, RunInv, StepsInv, HonestInv
<1>3. /\ repair'.mode = repair.mode /\ repair'.type = repair.type
      /\ repair'.wrote = repair.wrote /\ repair'.applied = repair.applied
      /\ repair'.step = "document" /\ repair' \in Runs
      /\ repair'.refusals = {} => repair.type \notin types
  BY <1>2 DEF CheckType, Runs, Steps, Reasons, Refused, BelongsToEvent
<1>4. RunInv'
  BY <1>1, <1>2, <1>3 DEF RepairInv, RunInv, HonestInv, ReportIsHonest, StepsInv,
     DeleteDocumentInv, DeleteTypeInv, RepairRowsInv, Settled, Completed
<1> QED BY <1>1, <1>4, LookKeeps

LEMMA TakeSnapshotStep ==
  ASSUME RepairInv, TakeSnapshot PROVE RepairInv'
<1>1. UNCHANGED vars /\ doc' = doc /\ types' = types /\ past' = past /\ repair.step = "snapshot"
  BY DEF TakeSnapshot, vars, search, tables
<1>2. /\ repair \in Runs /\ repair.mode = "repair-corruption" /\ repair.refusals = {}
      /\ ~repair.wrote /\ ~repair.applied
  BY <1>1 DEF RepairInv, RunInv, StepsInv, HonestInv, RepairRowsInv
<1>3. types # {} => Now \in past
  BY DEF RepairInv, SourceInv, History
<1>4. Now \in past => Now \in [event: Inventory, stock: Rows]
  BY DEF RepairInv, SourceInv, SourceTypes
<1>5. /\ repair'.mode = repair.mode /\ repair'.wrote = repair.wrote
      /\ repair'.applied = repair.applied /\ repair' \in Runs
      /\ \/ repair'.step = "document" /\ repair'.refusals = {} /\ repair'.read \in past
         \/ /\ repair'.step = "done" /\ repair'.exit = 2
            /\ repair'.refusals = {"event_missing_in_authoritative"}
  <2>1. CASE EventExists
    <3>1. repair' = [repair EXCEPT !.step = "document", !.read = Now]
      BY <2>1 DEF TakeSnapshot, Now
    <3>2. Now \in past
      BY <1>3, <2>1 DEF EventExists
    <3> QED BY <1>2, <1>4, <3>1, <3>2 DEF Runs, Steps
  <2>2. CASE ~EventExists
    <3> DEFINE r == [repair EXCEPT !.refusals = {"event_missing_in_authoritative"}]
    <3>1. /\ r \in Runs /\ r.refusals = {"event_missing_in_authoritative"}
          /\ r.mode = repair.mode /\ r.wrote = repair.wrote /\ r.applied = repair.applied
      BY <1>2 DEF Runs, Reasons
    <3>2. repair' = Reported(r)
      BY <2>2 DEF TakeSnapshot
    <3> HIDE DEF r
    <3> QED BY <3>1, <3>2, ReportedIs
  <2> QED BY <2>1, <2>2
<1>6. RunInv'
  BY <1>1, <1>2, <1>5 DEF RepairInv, RunInv, HonestInv, ReportIsHonest, StepsInv,
     DeleteDocumentInv, DeleteTypeInv, RepairRowsInv, Settled, Completed
<1> QED BY <1>1, <1>6, LookKeeps

\* Reasons to refuse, of the document as it is read.
LEMMA RefusalsOfDocument ==
  ASSUME repair \in Runs
  PROVE  /\ DocumentRefusals \subseteq Reasons
         /\ "no_contract_corruption_detected" \in DocumentRefusals
              /\ "malformed_projection_detected" \notin DocumentRefusals
              => ~Differs(repair.read, doc) /\ ~Malformed(repair.read, doc)
BY DEF DocumentRefusals, Refused, Reasons, Runs, Operations

LEMMA LookAtDocumentStep ==
  ASSUME RepairInv, LookAtDocument PROVE RepairInv'
<1> DEFINE looked == [repair EXCEPT !.refusals = @ \cup DocumentRefusals]
<1>1. UNCHANGED vars /\ doc' = doc /\ types' = types /\ past' = past /\ repair.step = "document"
  BY DEF LookAtDocument, vars, search, tables
<1>2. repair \in Runs /\ ~repair.wrote /\ ~repair.applied /\ SourceTypes
  BY <1>1 DEF RepairInv, RunInv, HonestInv, SourceInv
<1>3. /\ looked \in Runs /\ looked.refusals = repair.refusals \cup DocumentRefusals
      /\ looked.mode = repair.mode /\ looked.type = repair.type /\ looked.read = repair.read
      /\ looked.apply = repair.apply /\ looked.clean = repair.clean
      /\ ~looked.wrote /\ ~looked.applied /\ looked.exit = repair.exit
  BY <1>2, RefusalsOfDocument DEF Runs
<1>4. repair' = IF looked.refusals # {} \/ ~repair.apply THEN Reported(looked)
                ELSE [looked EXCEPT !.step = "write"]
  BY DEF LookAtDocument
<1> HIDE DEF looked
<1>5. /\ repair' \in Runs /\ repair'.refusals = repair.refusals \cup DocumentRefusals
      /\ repair'.mode = repair.mode /\ repair'.type = repair.type /\ repair'.read = repair.read
      /\ repair'.apply = repair.apply /\ repair'.clean = repair.clean
      /\ ~repair'.wrote /\ ~repair'.applied
      /\ \/ /\ repair'.step = "done" /\ (repair'.refusals # {} \/ ~repair'.apply)
            /\ repair'.exit = IF repair'.refusals # {} THEN 2 ELSE 0
         \/ repair'.step = "write" /\ repair'.refusals = {} /\ repair'.apply
  <2>1. CASE looked.refusals # {} \/ ~repair.apply
    <3>1. repair' = Reported(looked)
      BY <1>4, <2>1
    <3> QED BY <1>3, <2>1, <3>1, ReportedIs
  <2>2. CASE looked.refusals = {} /\ repair.apply
    BY <1>3, <1>4, <2>2 DEF Runs, Steps
  <2> QED BY <2>1, <2>2
<1>6. ~(repair'.step = "done" /\ repair'.exit = 0 /\ repair'.apply)
  BY <1>5
<1>7. HonestInv' /\ StepsInv'
  <2>1. repair'.step = "done" \/ repair'.step = "write"
    BY <1>5
  <2>2. repair'.step = "write" => repair'.refusals = {} /\ repair'.apply
    BY <1>5
  <2>3. repair'.step = "done" /\ repair'.exit = 0 => repair'.refusals = {}
    BY <1>5
  <2>4. repair'.applied = repair'.wrote
    BY <1>5 DEF Runs
  <2> QED BY <1>5, <2>1, <2>2, <2>3, <2>4 DEF HonestInv, ReportIsHonest, StepsInv
<1>8. DeleteDocumentInv' /\ DeleteTypeInv'
  BY <1>1, <1>5, <1>6 DEF RepairInv, RunInv, DeleteDocumentInv, DeleteTypeInv, Completed
<1>9. RepairRowsInv'
  <2> SUFFICES ASSUME repair.mode = "repair-corruption" PROVE RepairRowsInv'
    BY <1>5 DEF RepairRowsInv
  <2>1. repair.refusals = {} /\ repair.read \in past
    BY <1>1 DEF RepairInv, RunInv, RepairRowsInv
  <2>2. repair'.refusals = {"no_contract_corruption_detected"} => Agrees(repair.read, doc)
    BY <1>2, <1>5, <2>1, RefusalsOfDocument, AgreesMeans
  <2> QED BY <1>1, <1>5, <1>6, <2>1, <2>2 DEF RepairRowsInv, Settled, Completed
<1>10. RunInv'
  BY <1>5, <1>7, <1>8, <1>9 DEF RunInv
<1> QED BY <1>1, <1>10, LookKeeps

LEMMA FailRepairStep ==
  ASSUME RepairInv, FailRepair PROVE RepairInv'
<1>1. UNCHANGED vars /\ doc' = doc /\ types' = types /\ past' = past
      /\ repair.step \notin {"idle", "done"}
  BY DEF FailRepair, vars, search, tables
<1>2. repair \in Runs /\ ~repair.wrote /\ ~repair.applied
  BY <1>1 DEF RepairInv, RunInv, HonestInv
<1>3. /\ repair'.mode = repair.mode /\ repair'.type = repair.type
      /\ repair'.refusals = repair.refusals /\ repair'.step = "done" /\ repair'.exit = 1
      /\ ~repair'.wrote /\ ~repair'.applied /\ repair' \in Runs
  <2>1. repair' = [repair EXCEPT !.step = "done", !.exit = 1] /\ 1 \in 0..2
    BY DEF FailRepair
  <2> QED BY <1>2, <2>1, DoneIsStep DEF Runs
<1>4. repair.mode = "repair-corruption" => repair.refusals = {}
  <2>1. repair.step \in {"event", "type", "snapshot", "document", "write"}
    BY <1>1, <1>2 DEF Runs, Steps
  <2> QED BY <2>1 DEF RepairInv, RunInv, HonestInv, StepsInv, RepairRowsInv
<1>5. RunInv'
  BY <1>1, <1>3, <1>4 DEF RepairInv, RunInv, HonestInv, ReportIsHonest, StepsInv,
     DeleteDocumentInv, DeleteTypeInv, RepairRowsInv, Settled, Completed
<1> QED BY <1>1, <1>5, LookKeeps

\* What the write does to the document, in each operation.
LEMMA WriteDoes ==
  ASSUME RepairInv, Write
  PROVE  /\ doc' \in LooseDocument
         /\ \A y \in Types : doc'.stock[y] # Absent => doc.stock[y] # Absent
         /\ repair.mode = "delete-document" => types = {} /\ doc' = EmptyDocument
         /\ repair.mode = "delete-ticket-type" =>
              /\ repair.type \in Foreign /\ doc'.stock[repair.type] = Absent
              /\ doc' = RemoveTypeScript(doc, repair.type)
         /\ repair.mode = "repair-corruption" =>
              /\ repair.read \in past /\ Agrees(repair.read, doc')
              /\ doc' = RepairScript(repair.read, doc)
<1>1. /\ repair.step = "write" /\ doc' = Written /\ doc \in LooseDocument /\ SourceTypes
      /\ repair.mode \in Operations /\ repair.type \in Types /\ repair.refusals = {}
  BY DEF Write, RepairInv, RunInv, Runs, HonestInv, DamagedInv, SourceInv
<1>2. CASE repair.mode = "delete-document"
  <2>1. doc' = EmptyDocument /\ types = {}
    BY <1>1, <1>2 DEF Written, RepairInv, RunInv, DeleteDocumentInv
  <2> QED BY <1>2, <2>1 DEF EmptyDocument, LooseDocument
<1>3. CASE repair.mode = "delete-ticket-type"
  <2>1. doc' = RemoveTypeScript(doc, repair.type) /\ repair.type \in Foreign
    BY <1>1, <1>3 DEF Written, RepairInv, RunInv, DeleteTypeInv
  <2>2. /\ doc' \in LooseDocument /\ doc'.stock[repair.type] = Absent
        /\ \A y \in Types \ {repair.type} : doc'.stock[y] = doc.stock[y]
    BY <1>1, <2>1 DEF RemoveTypeScript, LooseDocument
  <2> QED BY <1>3, <2>1, <2>2
<1>4. CASE repair.mode = "repair-corruption"
  <2>1. doc' = RepairScript(repair.read, doc) /\ repair.read \in past
    BY <1>1, <1>4 DEF Written, RepairInv, RunInv, RepairRowsInv
  <2>2. /\ doc' \in LooseDocument /\ Agrees(repair.read, doc')
        /\ \A y \in Types : \/ doc'.stock[y] = doc.stock[y]
                            \/ y \in Comparable(repair.read, doc)
    BY <1>1, <2>1, RepairScriptDoes
  <2> QED BY <1>4, <2>1, <2>2 DEF Comparable, SameVersion
<1> QED BY <1>1, <1>2, <1>3, <1>4 DEF Operations

LEMMA WriteStepOfRun ==
  ASSUME RepairInv, Write PROVE RepairInv'
<1>1. /\ UNCHANGED <<tables, past, queue, batch, handled, rebuild>>
      /\ types' = types /\ past' = past /\ repair.step = "write" /\ doc # EmptyDocument
  BY DEF Write, tables
<1>2. repair \in Runs /\ repair.refusals = {} /\ repair.apply /\ ~repair.applied /\ ~repair.wrote
  BY <1>1 DEF RepairInv, RunInv, HonestInv
<1>3. SourceInv'
  BY <1>1, SourceKept DEF RepairInv
<1>4. DamagedInv'
  BY <1>1, WriteDoes DEF RepairInv, DamagedInv
<1>5. /\ repair' \in Runs
      /\ repair'.mode = repair.mode /\ repair'.type = repair.type /\ repair'.read = repair.read
      /\ repair'.refusals = {} /\ repair'.apply /\ repair'.step = "done"
      /\ repair'.wrote = (doc' # doc)
      /\ \/ repair'.exit = 0 /\ repair'.applied = repair'.wrote
         \/ repair'.exit = 1 /\ ~repair'.applied
  <2> DEFINE wrote == [repair EXCEPT !.wrote = doc' # doc]
             applied == repair.mode = "delete-document" \/ WasApplied(doc, doc')
  <2>1. repair' \in {Reported([wrote EXCEPT !.applied = applied]),
                     [wrote EXCEPT !.step = "done", !.exit = 1]}
    BY DEF Write
  <2>2. applied = (doc' # doc)
    BY <1>1, WriteDoes DEF WasApplied
  <2>3. wrote \in Runs /\ wrote.wrote = (doc' # doc) /\ wrote.refusals = {} /\ wrote.apply
        /\ wrote.mode = repair.mode /\ wrote.type = repair.type /\ wrote.read = repair.read
        /\ ~wrote.applied /\ applied \in BOOLEAN
    BY <1>2 DEF Runs, WasApplied
  <2> HIDE DEF wrote, applied
  <2>4. CASE repair' = Reported([wrote EXCEPT !.applied = applied])
    <3> DEFINE r == [wrote EXCEPT !.applied = applied]
    <3>1. /\ r \in Runs /\ r.applied = applied /\ r.refusals = {} /\ r.apply
          /\ r.mode = repair.mode /\ r.type = repair.type /\ r.read = repair.read
          /\ r.wrote = wrote.wrote
      BY <2>3 DEF Runs
    <3>2. repair' = Reported(r)
      BY <2>4
    <3> HIDE DEF r
    <3> QED BY <2>2, <2>3, <3>1, <3>2, ReportedIs
  <2>5. CASE repair' = [wrote EXCEPT !.step = "done", !.exit = 1]
    <3>1. 1 \in 0..2
      OBVIOUS
    <3>2. repair' \in Runs /\ repair'.step = "done" /\ repair'.exit = 1
      BY <2>3, <2>5, <3>1, DoneIsStep DEF Runs
    <3>3. /\ repair'.mode = wrote.mode /\ repair'.type = wrote.type /\ repair'.read = wrote.read
          /\ repair'.refusals = wrote.refusals /\ repair'.apply = wrote.apply
          /\ repair'.wrote = wrote.wrote /\ repair'.applied = wrote.applied
      BY <2>3, <2>5 DEF Runs
    <3> QED BY <2>3, <3>2, <3>3
  <2> QED BY <2>1, <2>4, <2>5
<1>6. HonestInv' /\ StepsInv'
  BY <1>5 DEF HonestInv, ReportIsHonest, StepsInv
<1>7. DeleteDocumentInv' /\ DeleteTypeInv' /\ RepairRowsInv'
  BY <1>1, <1>5, WriteDoes DEF DeleteDocumentInv, DeleteTypeInv, RepairRowsInv
<1> QED BY <1>3, <1>4, <1>5, <1>6, <1>7 DEF RepairInv, RunInv

LEMMA RepairInvStep == RepairInv /\ [RepairNext]_repairVars => RepairInv'
<1> SUFFICES ASSUME RepairInv, [RepairNext]_repairVars PROVE RepairInv'
  OBVIOUS
<1>1. CASE System /\ Undamaged
  BY <1>1, SystemKeepsRepairInv
<1>2. CASE Damage
  BY <1>2, DamageKeepsRepairInv
<1>3. CASE Run
  BY <1>3, BeginStep, CheckEventStep, CheckTypeStep, TakeSnapshotStep, LookAtDocumentStep,
     WriteStepOfRun, FailRepairStep DEF Run
<1>4. CASE UNCHANGED repairVars
  <2>1. UNCHANGED vars /\ UNCHANGED <<repair, doc, types, past>>
    BY <1>4 DEF repairVars, vars, search, tables
  <2>2. RunInv'
    BY <2>1 DEF RepairInv, RunInv, HonestInv, ReportIsHonest, StepsInv, DeleteDocumentInv,
       DeleteTypeInv, RepairRowsInv, Settled, Completed, Agrees
  <2> QED BY <2>1, <2>2, LookKeeps
<1> QED BY <1>1, <1>2, <1>3, <1>4 DEF RepairNext

LEMMA RepairInvariant == RepairSpec => []RepairInv
BY InitRepairInv, RepairInvStep, PTL DEF RepairSpec

-----------------------------------------------------------------------------
(* Theorems about the repair CLI.                                          *)

\* The report claims a change exactly if there was one, and refusals and dry runs
\* made none.
THEOREM ReportsStayHonest == RepairSpec => []ReportIsHonest
<1>1. RepairInv => ReportIsHonest
  BY DEF RepairInv, RunInv, HonestInv
<1> QED BY <1>1, RepairInvariant, PTL

\* What an applied repair has put right stays right until something damages the
\* document again, for any number of purchases, workers and rebuilds.
THEOREM RepairsHold == RepairSpec => []RepairHolds
<1>1. RepairInv => RepairHolds
  <2> SUFFICES ASSUME RepairInv, repair.step = "done", repair.clean
               PROVE  RepairHolds
    BY DEF RepairHolds
  <2>1. repair.mode \in Operations /\ SourceTypes
    BY DEF RepairInv, RunInv, Runs, SourceInv
  <2>2. CASE repair.mode = "delete-document"
    BY <2>2 DEF RepairInv, RunInv, DeleteDocumentInv, Completed, RepairHolds
  <2>3. CASE repair.mode = "delete-ticket-type"
    BY <2>3 DEF RepairInv, RunInv, DeleteTypeInv, Completed, RepairHolds
  <2>4. CASE repair.mode = "repair-corruption"
    <3>1. Settled => ~Differs(repair.read, doc) /\ ~Malformed(repair.read, doc)
      BY <2>1, <2>4, AgreesMeans DEF RepairInv, RunInv, RepairRowsInv
    <3> QED BY <2>4, <3>1 DEF Settled, Completed, RepairHolds
  <2> QED BY <2>1, <2>2, <2>3, <2>4 DEF Operations
<1> QED BY <1>1, RepairInvariant, PTL

\* A repair replaces or removes only what the database never committed, and writes
\* only what it did, whatever has happened since the tool read the two stores.
THEOREM OnlyDamageIsTouched == RepairSpec => RepairTouchesOnlyDamage
<1> DEFINE Touch ==
      \/ types = {} /\ doc' = EmptyDocument
      \/ /\ \A y \in Types : doc'.stock[y] # doc.stock[y] =>
              /\ ~TypeOnRecord(y, doc.stock[y])
              /\ doc'.stock[y] = Absent \/ TypeOnRecord(y, doc'.stock[y])
         /\ doc'.event # doc.event => ~EventOnRecord(doc.event) /\ EventOnRecord(doc'.event)
<1>1. ASSUME RepairInv, [RepairNext]_repairVars, repair'.step # repair.step, doc' # doc
      PROVE  Write
  BY <1>1 DEF RepairNext, Undamaged, Damage, Run, Begin, CheckEvent, CheckType, TakeSnapshot,
     LookAtDocument, FailRepair, RepairInv, RunInv, Runs, repairVars, vars, search
<1>2. ASSUME RepairInv, Write PROVE Touch
  <2>1. /\ SourceInv /\ SourceTypes /\ History /\ doc \in LooseDocument
        /\ types \cap Foreign = {}
        /\ repair.mode \in Operations /\ repair.type \in Types
    BY <1>2 DEF RepairInv, SourceInv, DamagedInv, RunInv, Runs
  <2>2. CASE repair.mode = "delete-document"
    BY <1>2, <2>2, WriteDoes
  <2>3. CASE repair.mode = "delete-ticket-type"
    <3>1. /\ doc'.stock[repair.type] = Absent /\ doc'.event = doc.event
          /\ \A y \in Types \ {repair.type} : doc'.stock[y] = doc.stock[y]
          /\ repair.type \in Foreign
      BY <1>2, <2>1, <2>3, WriteDoes DEF RemoveTypeScript, LooseDocument
    <3>2. doc.stock[repair.type] # Absent => ~TypeRowOnRecord(repair.type, doc.stock[repair.type])
      BY <2>1, <3>1, OnRecordOnSale
    <3> QED BY <3>1, <3>2 DEF TypeRowOnRecord, TypeOnRecord
  <2>4. CASE repair.mode = "repair-corruption"
    <3> DEFINE s == repair.read
    <3>1. s \in past /\ doc' = RepairScript(s, doc)
      BY <1>2, <2>4, WriteDoes
    <3>2. /\ \A y \in Types : \/ doc'.stock[y] = doc.stock[y]
                              \/ y \in Comparable(s, doc) /\ doc'.stock[y] = s.stock[y]
          /\ doc'.event = doc.event
             \/ (SameVersion(s.event, doc.event) /\ doc'.event = s.event)
      BY <2>1, <3>1, RepairScriptDoes
    <3> HIDE DEF s
    <3>3. ASSUME NEW y \in Types, doc'.stock[y] # doc.stock[y]
          PROVE  ~TypeOnRecord(y, doc.stock[y]) /\ TypeOnRecord(y, doc'.stock[y])
      <4>1. /\ doc'.stock[y] = s.stock[y] /\ s.stock[y] # Absent
            /\ doc.stock[y] # Absent /\ doc.stock[y].version = s.stock[y].version
        BY <3>2, <3>3 DEF Comparable, SameVersion, TypesOf
      <4>2. ~TypeOnRecord(y, doc.stock[y])
        BY <2>1, <3>1, <3>3, <4>1 DEF History, TypeOnRecord
      <4> QED BY <3>1, <4>1, <4>2 DEF TypeOnRecord
    <3>4. ASSUME doc'.event # doc.event
          PROVE  ~EventOnRecord(doc.event) /\ EventOnRecord(doc'.event)
      <4>1. doc'.event = s.event /\ doc.event.version = s.event.version
        BY <3>2, <3>4 DEF SameVersion
      <4>2. ~EventOnRecord(doc.event)
        BY <2>1, <3>1, <3>4, <4>1 DEF History, EventOnRecord
      <4> QED BY <3>1, <4>1, <4>2 DEF EventOnRecord
    <3> QED BY <3>3, <3>4
  <2> QED BY <2>1, <2>2, <2>3, <2>4 DEF Operations
<1>3. RepairInv /\ [RepairNext]_repairVars =>
        [repair'.step # repair.step /\ doc' # doc => Touch]_repairVars
  BY <1>1, <1>2
<1> QED BY <1>3, RepairInvariant, PTL DEF RepairSpec, RepairTouchesOnlyDamage, Touch

=============================================================================
