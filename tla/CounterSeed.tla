----------------------------- MODULE CounterSeed -----------------------------
(***************************************************************************)
(* The operators' tool that seeds and reconciles the Valkey counters       *)
(* around a writer-mode switch, src/cutover/reconcile-inventory-counters.ts,*)
(* beside the purchases of InventoryCounters and the switch.               *)
(*                                                                         *)
(* Seed overwrites whatever it finds, so it may touch only the namespace   *)
(* the writer mode does not use, and holds the shared writer barrier while *)
(* it writes.  Reconcile runs against live counters and compares and sets. *)
(*                                                                         *)
(* The tool's transaction is REPEATABLE READ: its first query, the one     *)
(* that asks for the barrier, fixes the snapshot that every later query    *)
(* reads, the writer mode included, however long it waits for the barrier. *)
(***************************************************************************)
EXTENDS InventoryCounters

CONSTANTS Rank,     \* the order of the inventory rows' keys
          PageSize, \* rows per page of the listing
          MaxJobs   \* bound on the times the tool is run

ASSUME RankAssumption ==
  Rank \in [Scopes -> Nat \ {0}] /\ \A s, u \in Scopes : Rank[s] = Rank[u] => s = u
ASSUME PageSizeAssumption == PageSize \in Nat \ {0}
ASSUME MaxJobsAssumption == MaxJobs \in Nat

VARIABLES exclusive, \* a writer-mode switch holds the barrier
          step,      \* what the tool does next
          namespace, job, \* its two options
          snapshot,  \* the rows of its snapshot: counter |-> remaining_quantity
          snapMode,  \* the writer mode of its snapshot
          cursor,    \* the key of the last row it has listed
          page,      \* rows of the page it is at
          targets,   \* counters left to reconcile
          target,    \* the counter being reconciled
          known,     \* expectedRevision
          fresh,     \* the remaining quantity read after it
          handled,   \* rows counted as initialized, synced or skipped
          jobs,      \* times the tool was started
          waited,    \* history: a switch held the barrier after the snapshot was taken
          lost,      \* history: counters that vanished since they were seeded or read
          since      \* history: attempts that reserved from target since fresh was read

listing == <<namespace, job, snapshot, snapMode, cursor, page>>
comparing == <<targets, target, known, fresh, handled>>
history == <<waited, lost, since>>
tool == <<step, listing, comparing, jobs>>
allVars == <<vars, exclusive, tool, history>>

Namespaces == {"ticket-type", "legacy"}
NoRows == [s \in {} |-> 0]

SeedInit ==
  /\ Init
  /\ exclusive = FALSE
  /\ step = "idle" /\ jobs = 0
  /\ namespace \in Namespaces /\ job = "seed"
  /\ snapshot = NoRows /\ snapMode = mode
  /\ cursor = 0 /\ page = {}
  /\ targets = {} /\ target = NoScope /\ known = 0 /\ fresh = 0
  /\ handled = {}
  /\ waited = FALSE /\ lost = {} /\ since = {}

-----------------------------------------------------------------------------
(* The inventory rows a namespace counts.                                  *)

Rows(ns) == IF ns = "ticket-type" THEN [y \in onSale |-> left[y]]
            ELSE [s \in {EventScope : y \in onSale} |-> EventLeft]

RequiredMode(ns) == IF ns = "ticket-type" THEN "legacy" ELSE "ticket_type"

\* One page: the rows after the cursor, in the order of their keys.
NextPage == LET ahead == {s \in DOMAIN snapshot : Rank[s] > cursor} IN
            {s \in ahead : Cardinality({u \in ahead : Rank[u] < Rank[s]}) < PageSize}

First(S) == CHOOSE s \in S : \A u \in S : Rank[s] <= Rank[u]
Last(S) == CHOOSE s \in S : \A u \in S : Rank[s] >= Rank[u]

\* Mutant: a page that is just full is taken for the last one.
LastPageTooSoon(rows) == Cardinality(rows) <= PageSize

\* A short page is the last one.
LastPage(rows) == Cardinality(rows) < PageSize

-----------------------------------------------------------------------------
(* The listing transaction.                                                *)

\* BEGIN, and the snapshot of the statement that asks for the barrier.
Begin(ns, j) ==
  /\ step = "idle" /\ jobs < MaxJobs
  /\ jobs' = jobs + 1
  /\ step' = "waiting"
  /\ namespace' = ns /\ job' = j
  /\ snapshot' = Rows(ns) /\ snapMode' = mode
  /\ cursor' = 0 /\ page' = {}
  /\ targets' = {} /\ target' = NoScope /\ handled' = {}
  /\ waited' = exclusive /\ lost' = {} /\ since' = {}
  /\ UNCHANGED <<vars, exclusive, known, fresh>>

\* The shared barrier is granted, and a seed checks the mode its snapshot shows.
GetBarrier ==
  /\ step = "waiting"
  /\ ~exclusive
  /\ step' = IF job = "seed" /\ snapMode # RequiredMode(namespace)
             THEN "refused" ELSE "paging"
  /\ UNCHANGED <<vars, exclusive, listing, comparing, jobs, history>>

\* The listing is over: COMMIT gives the barrier back.
AfterCommit == IF job = "seed" THEN "done" ELSE "targets"

ReadPage ==
  /\ step = "paging"
  /\ page' = NextPage
  /\ step' = IF NextPage = {} THEN AfterCommit
             ELSE IF job = "seed" THEN "seeding" ELSE "listed"
  /\ UNCHANGED <<vars, exclusive, namespace, job, snapshot, snapMode, cursor,
                 comparing, jobs, history>>

\* The rows of a page are behind the cursor.
TurnPage(rows) ==
  /\ cursor' = Rank[Last(rows)]
  /\ step' = IF LastPage(rows) THEN AfterCommit ELSE "paging"

\* Reconcile only notes the rows of the page.
ListPage ==
  /\ step = "listed"
  /\ targets' = targets \cup page
  /\ TurnPage(page)
  /\ UNCHANGED <<vars, exclusive, namespace, job, snapshot, snapMode, page,
                 target, known, fresh, handled, jobs, history>>

\* Seed runs the INIT script for the next row of the page.
Seeds(s) ==
  /\ step = "seeding"
  /\ s \in page /\ s = First(page \ {u \in page : Rank[u] <= cursor})
  /\ Sets(s, snapshot[s])
  /\ UNCHANGED <<database, control, pc, local, exclusive>>

SeedRow(s) ==
  /\ Seeds(s)
  /\ IF s = Last(page) THEN TurnPage(page)
     ELSE cursor' = Rank[s] /\ step' = step
  /\ handled' = handled \cup {s}
  /\ lost' = lost \ {s}
  /\ UNCHANGED <<namespace, job, snapshot, snapMode, page, targets, target, known,
                 fresh, jobs, waited, since>>

\* The script ran, its reply did not come: ROLLBACK, and exit 1.
SeedUnanswered(s) ==
  /\ Seeds(s)
  /\ step' = "failed"
  /\ UNCHANGED <<listing, comparing, jobs, history>>

-----------------------------------------------------------------------------
(* Reconcile, a row at a time, outside the transaction.                    *)

\* GET of the revision: '0' when there is none.
ReadRevision(s) ==
  /\ step = "targets" /\ s \in targets
  /\ target' = s
  /\ known' = revision[s]
  /\ lost' = {}
  /\ step' = "read"
  /\ UNCHANGED <<vars, exclusive, listing, targets, fresh, handled, jobs, waited, since>>

\* The row as it is now; a row that is gone would be skipped.
FreshRead ==
  /\ step = "read"
  /\ fresh' = Rows(namespace)[target]
  /\ since' = {}
  /\ step' = "compare"
  /\ UNCHANGED <<vars, exclusive, listing, targets, target, known, handled, jobs, waited, lost>>

\* Mutant: the script ignores the revision.
MayOverwrite(s, r) == s \in present

\* TICKET_TYPE_SYNC_SCRIPT and CLI_LEGACY_GUARDED_SYNC_SCRIPT: neither makes up
\* an absent counter.
MaySet(s, r) == s \in present /\ revision[s] = r

Reconciles ==
  /\ step = "compare"
  /\ MaySet(target, known)
  /\ Sets(target, fresh)
  /\ UNCHANGED <<database, control, pc, local, exclusive>>

CompareAndSet ==
  /\ step = "compare"
  /\ \/ Reconciles
     \/ ~MaySet(target, known) /\ UNCHANGED <<vars, exclusive>>
  /\ targets' = targets \ {target}
  /\ handled' = handled \cup {target}
  /\ step' = IF targets = {target} THEN "done" ELSE "targets"
  /\ UNCHANGED <<listing, target, known, fresh, jobs, history>>

CompareUnanswered ==
  /\ Reconciles
  /\ step' = "failed"
  /\ UNCHANGED <<listing, comparing, jobs, history>>

\* There was nothing to reconcile.
NoTargets ==
  /\ step = "targets" /\ targets = {}
  /\ step' = "done"
  /\ UNCHANGED <<vars, exclusive, listing, comparing, jobs, history>>

\* lock_timeout, a lost connection, a command timeout, a killed task.
Fail ==
  /\ step \notin {"idle", "refused", "failed", "done"}
  /\ step' = "failed"
  /\ UNCHANGED <<vars, exclusive, listing, comparing, jobs, history>>

\* The operator reads the exit code, and may run the tool again.
Exit ==
  /\ step \in {"refused", "failed", "done"}
  /\ step' = "idle"
  /\ UNCHANGED <<vars, exclusive, listing, comparing, jobs, history>>

Tool == \/ \E ns \in Namespaces, j \in {"seed", "reconcile"} : Begin(ns, j)
        \/ GetBarrier \/ ReadPage \/ ListPage
        \/ \E s \in Scopes : SeedRow(s) \/ SeedUnanswered(s) \/ ReadRevision(s)
        \/ FreshRead \/ CompareAndSet \/ CompareUnanswered \/ NoTargets
        \/ Fail \/ Exit

-----------------------------------------------------------------------------
(* The tool's surroundings.                                                *)

\* Mutant: the barrier is given back before the rows are written.
HoldsNothing == step = "paging"

\* The tool holds the shared barrier until its transaction ends.
HoldsBarrier == step \in {"paging", "seeding", "listed"}

\* The switch waits for the barrier to be free, and holds it to its end.
SwitchBegins ==
  /\ ~exclusive /\ ~HoldsBarrier
  /\ exclusive' = TRUE
  /\ waited' = (waited \/ step = "waiting")
  /\ UNCHANGED <<vars, tool, lost, since>>

SwitchCommits ==
  /\ exclusive
  /\ SwitchMode
  /\ exclusive' = FALSE
  /\ UNCHANGED <<tool, history>>

SwitchFails ==
  /\ exclusive
  /\ exclusive' = FALSE
  /\ UNCHANGED <<vars, tool, history>>

\* Purchases and the rest, kept out of the database while the switch is at work.
Elsewhere ==
  /\ \/ \E t \in Attempts : Purchase(t) \/ Fault(t)
     \/ CreateEvent \/ InitCounter \/ InitFails
     \/ \E y \in Types : AddTicketType(y)
     \/ PlansExpire
     \/ \E s \in Scopes : Forget(s)
  /\ exclusive => database' = database
  /\ lost' = lost \cup (present \ present')
  /\ since' = since \cup {t \in Attempts : /\ scope[t] = target
                                           /\ reserved'[t] /\ ~reserved[t]}
  /\ UNCHANGED <<exclusive, tool, waited>>

SeedNext == Tool \/ SwitchBegins \/ SwitchCommits \/ SwitchFails \/ Elsewhere

SeedSpec == SeedInit /\ [][SeedNext]_allVars
-----------------------------------------------------------------------------
(* Properties.                                                             *)

Active == IF mode = "legacy" THEN "legacy" ELSE "ticket-type"
Seeding == \E s \in Scopes : Seeds(s) /\ revision' # revision

\* A seed whose barrier no switch took before it never writes a counter the
\* active writer uses, whenever the switch comes: it holds the barrier from its
\* snapshot to its last write.
SeedsInactive == [][Seeding /\ ~waited => namespace # Active]_allVars

\* A job that reports success has dealt with every row of its snapshot, over all
\* the pages; and a seed left none without a counter, unless Valkey dropped it.
JobIsWhole ==
  step = "done" =>
    /\ handled = DOMAIN snapshot
    /\ job = "seed" => handled \subseteq present \cup lost

\* Reconcile never overwrites a reservation made after it read the database,
\* unless Valkey dropped the counter meanwhile.
ReconcileKeepsLater ==
  [][Reconciles /\ target \notin lost => since = {}]_allVars
=============================================================================
