--------------------------- MODULE ProjectionRepair ---------------------------
(***************************************************************************)
(* The repair CLI (src/search/projection-repair.cli.ts) at work on the     *)
(* document of InventoryProjection, while purchases, workers and rebuilds  *)
(* go on.  Something outside of this code has damaged the document; the    *)
(* operator's tool reads the database and the document in separate calls   *)
(* and then writes, and must change nothing but the damage.                *)
(*                                                                         *)
(* Purchases of the previous release stay with InventoryProjection: a      *)
(* detail without version does not touch the fields that are repaired.     *)
(***************************************************************************)
EXTENDS InventoryProjection

CONSTANTS Foreign,    \* ids of other Events' types: never on sale in this one
          Damages,    \* what a damaged remaining_quantity holds; Absent: no number
          MaxDamages  \* bound on damages

ASSUME ForeignAssumption == Foreign \subseteq Types \ {DefaultType}
ASSUME DamagesAssumption == Damages \subseteq 0..MaxInteger \cup {Absent}
\* null is no row, damaged or not.
ASSUME RowsAssumption ==
  Absent \notin [total: Nat \cup {Absent}, remaining: Nat \cup {Absent}, version: Nat]

VARIABLES repair, \* the run of the CLI and the report it prints
          damages \* history: how often the document was damaged

repairVars == <<vars, repair, damages>>
-----------------------------------------------------------------------------
Operations == {"delete-document", "delete-ticket-type", "repair-corruption"}
Steps == {"idle", "event", "type", "snapshot", "document", "write", "done"}

\* `wrote' is no field of the report: whether this run has changed the document.
\* `clean': whether the document has been damaged since the run began.
NoRepair == [step |-> "idle", mode |-> "repair-corruption", type |-> DefaultType,
             apply |-> FALSE, read |-> NoRead, refusals |-> {}, applied |-> FALSE,
             exit |-> 0, wrote |-> FALSE, clean |-> TRUE]

\* asQuantityOrNull, for both quantities of a row.
Readable(row) == row.total # Absent /\ row.remaining # Absent

SameVersion(mine, theirs) == theirs # Absent /\ theirs.version = mine.version

\* The rows of the document of the version the snapshot has: of a type, of all
\* types, and of all types and the Event.
Comparable(s, d) == {y \in TypesOf(s.stock) : SameVersion(s.stock[y], d.stock[y])}
Malformed(s, d) == \/ SameVersion(s.event, d.event) /\ ~Readable(d.event)
                   \/ \E y \in Comparable(s, d) : ~Readable(d.stock[y])
Differs(s, d) == \/ SameVersion(s.event, d.event) /\ Readable(d.event) /\ s.event # d.event
                 \/ \E y \in Comparable(s, d) : Readable(d.stock[y]) /\ s.stock[y] # d.stock[y]
-----------------------------------------------------------------------------
(* The two scripts, atomic in OpenSearch.                                  *)

\* REMOVE_TICKET_TYPE_SCRIPT.
RemoveTypeScript(d, y) == [d EXCEPT !.stock[y] = Absent]

\* Mutant: the versions are not compared again when the write is executed.
RepairUnguarded(s, d) ==
  [d EXCEPT !.stock = [y \in Types |-> IF y \in TypesOf(s.stock) /\ @[y] # Absent
                                       THEN s.stock[y] ELSE @[y]],
            !.event = s.event, !.total = s.event.total, !.remaining = s.event.remaining]

\* Mutant: only the Event's fields are repaired.
RepairEventOnly(s, d) ==
  IF SameVersion(s.event, d.event) /\ s.event # d.event
  THEN [d EXCEPT !.event = s.event, !.total = s.event.total,
                 !.remaining = s.event.remaining]
  ELSE d

\* REPAIR_CONTRACT_CORRUPTION_SCRIPT: the types first, then the Event.
RepairScript(s, d) ==
  LET typed == [d EXCEPT !.stock = [y \in Types |-> IF y \in Comparable(s, d)
                                                    THEN s.stock[y] ELSE @[y]]]
  IN IF SameVersion(s.event, d.event) /\ s.event # d.event
     THEN [typed EXCEPT !.event = s.event, !.total = s.event.total,
                        !.remaining = s.event.remaining]
     ELSE typed

\* Mutant: a noop counts as applied.
AnyResult(old, new) == TRUE

\* updateWasApplied: the result is "updated", not "noop".
WasApplied(old, new) == new # old
-----------------------------------------------------------------------------
RepairInit == Init /\ repair = NoRepair /\ damages = 0

\* What the rest of the system does while a run is going on.
Undamaged == UNCHANGED <<repair, damages>>

\* Something writes around the guard: the quantity of a row, an element that
\* belongs to another Event, a document of an Event that does not exist.
Damage ==
  /\ damages < MaxDamages
  /\ \/ \E y \in TypesOf(doc.stock), n \in Damages :
          doc' = [doc EXCEPT !.stock[y].remaining = n]
     \/ \E n \in Damages : doc.event # Absent /\ doc' = [doc EXCEPT !.event.remaining = n]
     \/ \E y \in Foreign : doc # EmptyDocument /\ doc' = [doc EXCEPT !.stock[y] = Fresh(1)]
     \/ /\ types = {} /\ doc = EmptyDocument
        /\ doc' = [MetadataScript(doc, 1, 1) EXCEPT !.event = Fresh(1)]
  /\ doc' # doc
  /\ damages' = damages + 1
  /\ repair' = [repair EXCEPT !.clean = FALSE]
  /\ UNCHANGED <<tables, past, queue, batch, handled, rebuild>>

\* parseRepairArgs and main.  The ids are read off a reconciliation report, so
\* the document has held them; whether the database has them by now is for the
\* checks to find out.
Begin(operation, y, apply) ==
  /\ repair.step \in {"idle", "done"}
  /\ doc # EmptyDocument
  /\ IF operation = "delete-ticket-type" THEN y \in TypesOf(doc.stock) ELSE y = DefaultType
  /\ repair' = [NoRepair EXCEPT
       !.step = IF operation = "repair-corruption" THEN "snapshot" ELSE "event",
       !.mode = operation, !.type = y, !.apply = apply]
  /\ UNCHANGED <<vars, damages>>

Refused(condition, reason) == IF condition THEN {reason} ELSE {}

\* The report is printed; main returns the exit code.
Reported(r) == [r EXCEPT !.step = "done", !.exit = IF r.refusals # {} THEN 2 ELSE 0]

\* existsInAuthoritative.
EventExists == types # {}

CheckEvent ==
  /\ repair.step = "event"
  /\ repair' = IF repair.mode = "delete-document"
               THEN [repair EXCEPT !.step = "document", !.refusals =
                       Refused(EventExists, "event_exists_in_authoritative")]
               ELSE [repair EXCEPT !.step = "type", !.refusals =
                       Refused(~EventExists, "event_missing_in_authoritative")]
  /\ UNCHANGED <<vars, damages>>

\* Mutant: the id is looked up in all Events.
ExistsAnywhere(y) == y \in types \cup Foreign

\* ticketTypeBelongsToEventInAuthoritative.
BelongsToEvent(y) == y \in types

CheckType ==
  /\ repair.step = "type"
  /\ repair' = [repair EXCEPT !.step = "document", !.refusals = @ \cup
                  Refused(BelongsToEvent(repair.type), "ticket_type_exists_in_authoritative")]
  /\ UNCHANGED <<vars, damages>>

\* readAuthoritativeEventInventory in a REPEATABLE READ READ ONLY transaction.
TakeSnapshot ==
  /\ repair.step = "snapshot"
  /\ repair' = IF EventExists
               THEN [repair EXCEPT !.step = "document",
                       !.read = [event |-> event, stock |-> StockRows(types, stock)]]
               ELSE Reported([repair EXCEPT !.refusals = {"event_missing_in_authoritative"}])
  /\ UNCHANGED <<vars, damages>>

\* What the document gives reason to refuse.
DocumentRefusals ==
  IF doc = EmptyDocument THEN {"document_not_found"}
  ELSE CASE repair.mode = "delete-document" -> {}
         [] repair.mode = "delete-ticket-type" ->
              Refused(doc.stock[repair.type] = Absent, "ticket_type_not_in_document")
         [] repair.mode = "repair-corruption" ->
              Refused(Malformed(repair.read, doc), "malformed_projection_detected")
              \cup Refused(~Differs(repair.read, doc), "no_contract_corruption_detected")

\* The document is read and the report decided: refused, dry run, or to be written.
LookAtDocument ==
  LET looked == [repair EXCEPT !.refusals = @ \cup DocumentRefusals] IN
  /\ repair.step = "document"
  /\ repair' = IF looked.refusals # {} \/ ~repair.apply THEN Reported(looked)
               ELSE [looked EXCEPT !.step = "write"]
  /\ UNCHANGED <<vars, damages>>

\* The script throws on a row of its version that holds no numbers.
WriteThrows == repair.mode = "repair-corruption" /\ Malformed(repair.read, doc)

Written == CASE repair.mode = "delete-document" -> EmptyDocument
             [] repair.mode = "delete-ticket-type" -> RemoveTypeScript(doc, repair.type)
             [] repair.mode = "repair-corruption" -> RepairScript(repair.read, doc)

\* The DELETE or the scripted update is executed.  Its answer reaches the CLI or
\* is lost, which ends it with exit 1.
Write ==
  /\ repair.step = "write"
  /\ doc # EmptyDocument /\ ~WriteThrows
  /\ doc' = Written
  /\ LET wrote == [repair EXCEPT !.wrote = doc' # doc]
         applied == repair.mode = "delete-document" \/ WasApplied(doc, doc')
     IN repair' \in {Reported([wrote EXCEPT !.applied = applied]),
                     [wrote EXCEPT !.step = "done", !.exit = 1]}
  /\ UNCHANGED <<tables, past, queue, batch, handled, rebuild, damages>>

\* A call fails, the document is gone, the script throws, the task is stopped.
FailRepair ==
  /\ repair.step \notin {"idle", "done"}
  /\ repair' = [repair EXCEPT !.step = "done", !.exit = 1]
  /\ UNCHANGED <<vars, damages>>
-----------------------------------------------------------------------------
\* An Event's id is drawn when it is created: no document has it.
System == \/ ListEvent /\ doc = EmptyDocument
          \/ \E y \in Types \ Foreign : ListType(y)
          \/ \E q \in Quantities, y \in Types : Purchase(y, q)
          \/ \E w \in Workers : Worker(w)
          \/ Rebuild

Run == \/ \E operation \in Operations, y \in Types, apply \in BOOLEAN :
            Begin(operation, y, apply)
       \/ CheckEvent \/ CheckType \/ TakeSnapshot \/ LookAtDocument \/ Write \/ FailRepair

RepairNext == (System /\ Undamaged) \/ Damage \/ Run

RepairSpec == RepairInit /\ [][RepairNext]_repairVars

\* The operator starts each operation again as long as a report may name it, a
\* run goes on or ends with the script's exception, and calls do not fail for ever.
Diligence ==
  /\ SF_repairVars(Begin("delete-document", DefaultType, TRUE))
  /\ \A y \in Foreign : SF_repairVars(Begin("delete-ticket-type", y, TRUE))
  /\ SF_repairVars(Begin("repair-corruption", DefaultType, TRUE))
  /\ WF_repairVars(CheckEvent \/ CheckType \/ TakeSnapshot \/ LookAtDocument)
  /\ WF_repairVars(Write)
  /\ WF_repairVars(repair.step = "write" /\ WriteThrows /\ FailRepair)
  /\ <>[][repair'.exit # 1]_repairVars

DiligentSpec == RepairSpec /\ Diligence
-----------------------------------------------------------------------------
(* Properties.                                                             *)

TypeOnRecord(y, row) == \E p \in past : p.stock[y] = row
EventOnRecord(row) == \E p \in past : p.event = row

\* A repair replaces what the database never committed by what it did, and
\* touches nothing else: whatever purchases, workers and rebuilds have done since
\* the CLI read the two stores, a row it overwrites or removes was damaged, a row
\* it writes is on record, and a document it deletes belongs to no Event.
RepairTouchesOnlyDamage ==
  [][repair'.step # repair.step /\ doc' # doc =>
       \/ types = {} /\ doc' = EmptyDocument
       \/ /\ \A y \in Types : doc'.stock[y] # doc.stock[y] =>
               /\ ~TypeOnRecord(y, doc.stock[y])
               /\ doc'.stock[y] = Absent \/ TypeOnRecord(y, doc'.stock[y])
          /\ doc'.event # doc.event =>
               ~EventOnRecord(doc.event) /\ EventOnRecord(doc'.event)]_repairVars

\* The report tells the operator what this run did: "applied" is claimed only if
\* the document changed, a refusal and a dry run changed nothing, and a run that
\* ended with exit 0 without "applied" found nothing left to change.
ReportIsHonest ==
  repair.step = "done" =>
    /\ repair.applied => repair.wrote /\ repair.exit = 0
    /\ repair.exit = 0 => repair.applied = repair.wrote
    /\ repair.refusals # {} \/ ~repair.apply => ~repair.wrote

\* What an applied repair has put right, and what a run that saw no corruption
\* has declared sound, stays so as long as nothing damages the document again:
\* no late message and no rebuild brings the damage back.
RepairHolds ==
  (repair.step = "done" /\ repair.clean) =>
    LET completed == repair.exit = 0 /\ repair.apply IN
    CASE repair.mode = "delete-document" ->
           (completed /\ types = {}) => doc = EmptyDocument
      [] repair.mode = "delete-ticket-type" ->
           completed => doc.stock[repair.type] = Absent
      [] repair.mode = "repair-corruption" ->
           (completed \/ repair.refusals = {"no_contract_corruption_detected"}) =>
             ~Differs(repair.read, doc) /\ ~Malformed(repair.read, doc)

\* A tool in diligent hands converges: orphan documents and elements and rows
\* that contradict the database under its own version, for which a rebuild does
\* nothing or fails each time, are gone in the end, unless a row without numbers
\* has joined them, for which the tool refuses to write.
DamageIsRepaired ==
  /\ (types = {} /\ doc # EmptyDocument) ~> (types # {} \/ doc = EmptyDocument)
  /\ \A y \in Foreign : doc.stock[y] # Absent ~> doc.stock[y] = Absent
  /\ LET now == [event |-> event, stock |-> StockRows(types, stock)]
     IN (types # {} /\ Differs(now, doc)) ~> (~Differs(now, doc) \/ Malformed(now, doc))
=============================================================================
