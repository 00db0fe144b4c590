--------------------- MODULE PurchaseTransaction_proofs ---------------------
(***************************************************************************)
(* Theorems about the purchase transaction.  First its rows: types, the    *)
(* writer mode under which a transaction works, the row locks, and the     *)
(* agreement of the Event row with the rows of the types; RowInv, their    *)
(* conjunction, is inductive.  Then what the transactions leave behind:    *)
(* versions that only advance, one row per request key, answers that are   *)
(* on record, InventoryChanged details that agree with the tables, and the *)
(* implementation of the abstract sale, from which no oversell follows.    *)
(* Last, the transactions implement the inventory tables, one step per     *)
(* commit.                                                                 *)
(***************************************************************************)
EXTENDS PurchaseTransaction, SumTheorems

\* What type correctness rests on: a begun attempt has a parsed request, and an
\* inserted purchase is a row built from it.
RequestsParsed == \A t \in Attempts : pc[t] # "new" => request[t] \in Input
InsertedRows ==
  \A t \in Attempts : pc[t] = "inserted" =>
    \E status \in {"confirmed", "rejected"} : result[t] = NewRow(t, status)

TypeInv == TypeOK /\ RequestsParsed /\ InsertedRows

\* The row no Event has yet is an acceptable row.
LEMMA EmptyIsInventory == EmptyInventory \in Inventory
BY CapacityAssumption DEF EmptyInventory, Inventory

\* A guarded decrement keeps the row acceptable, and what it changes.
LEMMA TakenRow ==
  ASSUME NEW row \in Inventory, NEW q \in Nat, row.remaining >= q
  PROVE  /\ Taken(row, q) \in Inventory
         /\ Taken(row, q).total = row.total
         /\ Taken(row, q).remaining = row.remaining - q
         /\ Taken(row, q).version = row.version + 1
<1>1. row.remaining - q \in 0..MaxInteger /\ row.version + 1 \in Nat
  BY CapacityAssumption DEF Inventory
<1>2. row \in [total: 0..MaxInteger, remaining: 0..MaxInteger, version: Nat]
  BY DEF Inventory
<1> QED BY <1>1, <1>2 DEF Taken, Inventory

\* The aggregate over a single type repeats that type's row.
LEMMA AggregateOfOne ==
  ASSUME NEW y, NEW rows, rows[y] \in Inventory
  PROVE  /\ TotalOf({y}, rows) = rows[y].total
         /\ RemainingOf({y}, rows) = rows[y].remaining
<1>1. rows[y].total \in Nat /\ rows[y].remaining \in Nat
  BY CapacityAssumption DEF Inventory
<1>2. /\ [x \in {y} |-> rows[x].total] = [x \in {y} |-> rows[y].total]
      /\ [x \in {y} |-> rows[x].remaining] = [x \in {y} |-> rows[y].remaining]
  OBVIOUS
<1> QED BY <1>1, <1>2, SumSingleton DEF TotalOf, RemainingOf

\* A begun attempt asks for a positive quantity.
LEMMA QuantityIsNat ==
  ASSUME TypeOK, NEW t \in Attempts
  PROVE  request[t].quantity \in Nat
<1>1. request[t] \in Input \/ request[t] = NoInput
  BY DEF TypeOK
<1>2. CASE request[t] \in Input
  BY <1>2, QuantitiesAssumption DEF Input
<1>3. CASE request[t] = NoInput
  BY <1>3 DEF NoInput
<1> QED BY <1>1, <1>2, <1>3

\* The initial tables and locals have their types.
LEMMA TypeInvInit == Init => TypeInv
BY TypesAssumption, EmptyIsInventory
DEF Init, TypeInv, TypeOK, RequestsParsed, InsertedRows, Modes,
    Steps, Ended, InTransaction, Admitted, ModeRead

\* However an attempt ends, its locals are reset to typed values.
LEMMA EndKeepsTypes ==
  ASSUME TypeInv, NEW t \in Attempts, pc[t] # "new",
         NEW how \in Ended \cup {"violated"},
         NEW row \in PurchaseRow \cup {NoRow}, End(t, how, row)
  PROVE  /\ pc' \in [Attempts -> Steps]
         /\ request' \in [Attempts -> Input \cup {NoInput}]
         /\ usedMode' \in [Attempts -> Modes]
         /\ chosen' \in [Attempts -> Types]
         /\ draftEvent' \in [Attempts -> Inventory]
         /\ draftStock' \in [Attempts -> Inventory]
         /\ result' \in [Attempts -> PurchaseRow \cup {NoRow}]
         /\ RequestsParsed'
         /\ InsertedRows'
<1> USE DEF TypeInv, TypeOK, End
<1>1. pc' \in [Attempts -> Steps]
  BY DEF Steps
<1>2. usedMode' \in [Attempts -> Modes] /\ chosen' \in [Attempts -> Types]
  BY TypesAssumption DEF Modes
<1>3. /\ draftEvent' \in [Attempts -> Inventory]
      /\ draftStock' \in [Attempts -> Inventory]
  BY EmptyIsInventory
<1>4. result' \in [Attempts -> PurchaseRow \cup {NoRow}]
  OBVIOUS
<1>5. RequestsParsed'
  BY DEF RequestsParsed
<1>6. InsertedRows'
  BY DEF InsertedRows, NewRow, Ended
<1> QED BY <1>1, <1>2, <1>3, <1>4, <1>5, <1>6

\* One step of an attempt, other than the end of the attempt.
LEMMA AttemptKeepsTypes ==
  ASSUME TypeInv, NEW t \in Attempts, Proceed(t) \/ Fault(t)
  PROVE  TypeInv'
<1> USE DEF TypeInv
<1>1. CASE AcquireSharedBarrier(t) \/ AcquireRequestLock(t)
  BY <1>1 DEF AcquireSharedBarrier, AcquireRequestLock, TypeOK, RequestsParsed,
              InsertedRows, NewRow, tables, local, Steps, InTransaction, Admitted,
              ModeRead
<1>2. CASE Replay(t) \/ RecoverReplay(t)
  <2>1. PICK p \in Existing(t) : \/ End(t, "replayed", p)
                                 \/ End(t, "conflict", NoRow)
    BY <1>2 DEF Replay, RecoverReplay
  <2>2. p \in PurchaseRow
    BY <2>1 DEF Existing, TypeOK
  <2>3. UNCHANGED <<tables, switchTo, changes>> /\ pc[t] # "new"
    BY <1>2 DEF Replay, RecoverReplay
  <2> QED BY <2>1, <2>2, <2>3, EndKeepsTypes DEF TypeOK, tables, Ended
<1>3. CASE Resolve(t)
  <2>1. CASE End(t, "failed", NoRow)
    BY <1>3, <2>1, EndKeepsTypes DEF Resolve, TypeOK, tables, Ended
  <2>2. CASE ~End(t, "failed", NoRow)
    <3>1. PICK y \in Resolvable(mode, request[t]) :
            /\ usedMode' = [usedMode EXCEPT ![t] = mode]
            /\ chosen' = [chosen EXCEPT ![t] = y]
            /\ pc' = [pc EXCEPT ![t] = "resolved"]
            /\ UNCHANGED <<request, draftEvent, draftStock, result>>
      BY <1>3, <2>2 DEF Resolve
    <3>2. y \in Types
      BY DEF Resolvable, TypeOK
    <3>3. UNCHANGED <<tables, switchTo, changes>> /\ pc[t] = "serialized"
      BY <1>3 DEF Resolve
    <3> QED BY <3>1, <3>2, <3>3 DEF TypeOK, RequestsParsed, InsertedRows, NewRow,
                 tables, Steps, InTransaction, Admitted, ModeRead
  <2> QED BY <2>1, <2>2
<1>4. CASE UpdateActiveInventory(t)
  <2> DEFINE q == request[t].quantity
  <2>1. q \in Nat
    BY QuantityIsNat
  <2>2. /\ event.remaining >= q => Taken(event, q) \in Inventory
        /\ stock[chosen[t]].remaining >= q => Taken(stock[chosen[t]], q) \in Inventory
    BY <2>1, TakenRow DEF TypeOK
  <2>3. /\ draftEvent' \in [Attempts -> Inventory]
        /\ draftStock' \in [Attempts -> Inventory]
    BY <1>4, <2>2 DEF UpdateActiveInventory, TypeOK
  <2> QED BY <1>4, <2>3 DEF UpdateActiveInventory, TypeOK, RequestsParsed,
               InsertedRows, NewRow, tables, Steps, InTransaction, Admitted, ModeRead
<1>5. CASE FindSoldOut(t)
  BY <1>5 DEF FindSoldOut, TypeOK, RequestsParsed, InsertedRows, NewRow, tables,
              local, Steps, InTransaction, Admitted, ModeRead
<1>6. CASE MirrorInventory(t)
  <2>1. /\ draftEvent' \in [Attempts -> Inventory]
        /\ draftStock' \in [Attempts -> Inventory]
    BY <1>6 DEF MirrorInventory, TypeOK
  <2> QED BY <1>6, <2>1 DEF MirrorInventory, TypeOK, RequestsParsed,
               InsertedRows, NewRow, tables, Steps, InTransaction, Admitted, ModeRead
<1>7. CASE InsertPurchase(t)
  <2>1. PICK status \in {"confirmed", "rejected"} :
               result' = [result EXCEPT ![t] = NewRow(t, status)]
    BY <1>7 DEF InsertPurchase
  <2>2. NewRow(t, status) \in PurchaseRow
    BY <1>7 DEF InsertPurchase, NewRow, PurchaseRow, TypeOK, RequestsParsed, Input
  <2> QED BY <1>7, <2>1, <2>2 DEF InsertPurchase, TypeOK, RequestsParsed,
               InsertedRows, NewRow, tables, Steps, InTransaction, Admitted, ModeRead
<1>8. CASE LoseInsertRace(t) \/ Rollback(t) \/ RecoveryFails(t)
  BY <1>8, EndKeepsTypes DEF LoseInsertRace, Rollback, RecoveryFails, TypeOK,
     tables, Ended, InTransaction, Admitted, ModeRead
<1>9. CASE Commit(t) \/ CommitReplyLost(t)
  <2>1. pc[t] = "inserted" /\ MakeDurable(t) /\ switchTo' = switchTo
    BY <1>9 DEF Commit, CommitReplyLost
  <2>2. result[t] \in PurchaseRow
    BY <2>1 DEF InsertedRows, NewRow, PurchaseRow, TypeOK, RequestsParsed, Input
  <2>3. VisibleStock(t) \in [Types -> Inventory]
    BY DEF VisibleStock, TypeOK
  <2>4. ChangeOf(t) \in Change
    BY <2>3 DEF ChangeOf, Change, TypeOK
  <2>5. changes' \subseteq Change
    BY <1>9, <2>4 DEF Commit, CommitReplyLost, TypeOK
  <2>6. End(t, "created", result[t]) \/ End(t, "failed", NoRow)
    BY <1>9 DEF Commit, CommitReplyLost
  <2> QED BY <2>1, <2>2, <2>3, <2>5, <2>6, EndKeepsTypes
          DEF MakeDurable, TypeOK, Ended
<1> QED BY <1>1, <1>2, <1>3, <1>4, <1>5, <1>6, <1>7, <1>8, <1>9 DEF Proceed, Fault

\* Every step keeps the types.
LEMMA TypeInvNext == TypeInv /\ [Next]_vars => TypeInv'
<1> SUFFICES ASSUME TypeInv, [Next]_vars PROVE TypeInv'
  OBVIOUS
<1> USE DEF TypeInv
<1>1. ASSUME NEW t \in Attempts, NEW in \in Input, Begin(t, in) PROVE TypeInv'
  BY <1>1 DEF Begin, TypeOK, RequestsParsed, InsertedRows, NewRow, tables, Steps,
              InTransaction
<1>2. ASSUME NEW t \in Attempts, Proceed(t) \/ Fault(t) PROVE TypeInv'
  BY <1>2, AttemptKeepsTypes
<1>3. CASE CreateEvent
  <2> DEFINE first == [stock EXCEPT ![DefaultType] = Fresh(Capacity[DefaultType])]
  <2>1. Fresh(Capacity[DefaultType]) \in Inventory /\ first \in [Types -> Inventory]
    BY TypesAssumption, CapacityAssumption DEF Fresh, Inventory, TypeOK
  <2>2. Aggregate(EmptyInventory, {DefaultType}, first) \in Inventory
    <3>1. first[DefaultType] = Fresh(Capacity[DefaultType])
      BY TypesAssumption DEF TypeOK
    <3>2. /\ first[DefaultType].total \in 0..MaxInteger
          /\ first[DefaultType].remaining \in 0..MaxInteger
      BY <2>1, <3>1 DEF Inventory
    <3>3. /\ TotalOf({DefaultType}, first) = first[DefaultType].total
          /\ RemainingOf({DefaultType}, first) = first[DefaultType].remaining
      <4> HIDE DEF first
      <4> QED BY <2>1, <3>1, AggregateOfOne
    <3> QED BY <3>2, <3>3 DEF Aggregate, EmptyInventory, Inventory
  <2> QED BY <1>3, <2>1, <2>2, TypesAssumption
          DEF CreateEvent, TypeOK, RequestsParsed, InsertedRows, NewRow, local
<1>4. ASSUME NEW y \in Types, AddTicketType(y) PROVE TypeInv'
  <2>1. Fresh(Capacity[y]) \in Inventory
    BY CapacityAssumption DEF Fresh, Inventory
  <2> QED BY <1>4, <2>1
          DEF AddTicketType, TypeOK, RequestsParsed, InsertedRows, NewRow, local
<1>5. ASSUME NEW o \in OldAttempts, NEW in \in Input, OldReleasePurchase(o, in)
      PROVE  TypeInv'
  <2>1. event.remaining >= in.quantity => Taken(event, in.quantity) \in Inventory
    <3>1. in.quantity \in Nat
      BY QuantitiesAssumption DEF Input
    <3> QED BY <3>1, TakenRow DEF TypeOK
  <2>2. purchases' \subseteq PurchaseRow
    BY <1>5, TypesAssumption DEF OldReleasePurchase, TypeOK, PurchaseRow, Input
  <2>3. event' \in Inventory /\ stock' \in [Types -> Inventory]
    BY <1>5, <2>1 DEF OldReleasePurchase, TypeOK
  <2> QED BY <1>5, <2>2, <2>3
          DEF OldReleasePurchase, TypeOK, RequestsParsed, InsertedRows, NewRow, local
<1>6. CASE Switch
  BY <1>6 DEF Switch, AcquireExclusiveBarrier, CommitSwitch, AbortSwitch, TypeOK,
              ExclusiveBarrierHeld, RequestsParsed, InsertedRows, NewRow, tables,
              local
<1>7. CASE UNCHANGED vars
  BY <1>7 DEF vars, tables, local, TypeOK, RequestsParsed, InsertedRows, NewRow
<1> QED BY <1>1, <1>2, <1>3, <1>4, <1>5, <1>6, <1>7 DEF Next

\* Every table row and local variable keeps its type: no remaining quantity is
\* ever negative, for any number of attempts, types and keys.
THEOREM TypeCorrectness == Spec => []TypeOK
<1>1. Init => TypeInv
  BY TypeInvInit
<1>2. TypeInv /\ [Next]_vars => TypeInv'
  BY TypeInvNext
<1>3. TypeInv => TypeOK
  BY DEF TypeInv
<1> QED BY <1>1, <1>2, <1>3, PTL DEF Spec

-----------------------------------------------------------------------------
(* The writer mode and the types on sale.                                  *)

\* The exclusive barrier is held only while no writer is past the shared one.
BarrierExcludes ==
  ExclusiveBarrierHeld => \A t \in Attempts : pc[t] \notin Admitted

\* The legacy side is only ever active with the default type alone on sale, and
\* a resolved attempt buys a type on sale, the one it asked for if it did.
OnSale ==
  /\ types # {} => DefaultType \in types
  /\ mode = "legacy" => types \subseteq {DefaultType}
ChosenOnSale ==
  \A t \in Attempts : pc[t] \in ModeRead =>
    /\ chosen[t] \in types
    /\ request[t].type # NoType => chosen[t] = request[t].type

ModeInv == BarrierExcludes /\ WriterModeHeld /\ OnSale /\ ChosenOnSale

\* At first nobody has read a mode and nobody switches.
LEMMA ModeInvInit == Init => ModeInv
BY DEF Init, ModeInv, BarrierExcludes, WriterModeHeld, OnSale, ChosenOnSale,
       ExclusiveBarrierHeld, ModeRead

\* An attempt that ends, or goes on with the mode and the type it has read.
LEMMA LocalStepKeepsMode ==
  ASSUME TypeInv, ModeInv, NEW t \in Attempts, NEW step \in Steps,
         pc' = [pc EXCEPT ![t] = step],
         step \in Admitted => pc[t] \in Admitted,
         step \in ModeRead => /\ pc[t] \in ModeRead
                              /\ UNCHANGED <<request, usedMode, chosen>>,
         \A u \in Attempts \ {t} : /\ request'[u] = request[u]
                                   /\ usedMode'[u] = usedMode[u]
                                   /\ chosen'[u] = chosen[u],
         UNCHANGED <<mode, types, switchTo>>
  PROVE  ModeInv'
<1>1. \A u \in Attempts : pc'[u] = IF u = t THEN step ELSE pc[u]
  BY DEF TypeInv, TypeOK
<1>2. BarrierExcludes'
  BY <1>1 DEF ModeInv, BarrierExcludes, ExclusiveBarrierHeld
<1>3. WriterModeHeld'
  BY <1>1 DEF ModeInv, WriterModeHeld
<1>4. OnSale' /\ ChosenOnSale'
  BY <1>1 DEF ModeInv, OnSale, ChosenOnSale
<1> QED BY <1>2, <1>3, <1>4 DEF ModeInv

\* An attempt reads the mode under the shared barrier and keeps what it read.
LEMMA AttemptKeepsMode ==
  ASSUME TypeInv, ModeInv, NEW t \in Attempts, Proceed(t) \/ Fault(t)
  PROVE  ModeInv'
<1>1. CASE AcquireSharedBarrier(t)
  <2>1. \A u \in Attempts : pc'[u] = IF u = t THEN "admitted" ELSE pc[u]
    BY <1>1 DEF AcquireSharedBarrier, TypeInv, TypeOK
  <2> QED BY <1>1, <2>1
          DEF AcquireSharedBarrier, ModeInv, BarrierExcludes, WriterModeHeld, OnSale,
              ChosenOnSale, ExclusiveBarrierHeld, ModeRead, tables, local
<1>2. CASE Resolve(t) /\ ~End(t, "failed", NoRow)
  <2>1. PICK y \in Resolvable(mode, request[t]) :
          /\ usedMode' = [usedMode EXCEPT ![t] = mode]
          /\ chosen' = [chosen EXCEPT ![t] = y]
          /\ pc' = [pc EXCEPT ![t] = "resolved"]
          /\ request' = request
    BY <1>2 DEF Resolve
  <2>2. /\ pc[t] = "serialized"
        /\ UNCHANGED <<mode, types, switchTo>>
    BY <1>2 DEF Resolve, tables
  <2>3. y \in types /\ (request[t].type # NoType => y = request[t].type)
    BY DEF Resolvable
  <2>4. \A u \in Attempts :
          /\ pc'[u] = IF u = t THEN "resolved" ELSE pc[u]
          /\ usedMode'[u] = IF u = t THEN mode ELSE usedMode[u]
          /\ chosen'[u] = IF u = t THEN y ELSE chosen[u]
    BY <2>1 DEF TypeInv, TypeOK
  <2>5. BarrierExcludes' /\ OnSale'
    BY <2>2, <2>4 DEF ModeInv, BarrierExcludes, OnSale, ExclusiveBarrierHeld,
                      Admitted
  <2>6. WriterModeHeld'
    BY <2>2, <2>4 DEF ModeInv, WriterModeHeld
  <2>7. ChosenOnSale'
    BY <2>1, <2>2, <2>3, <2>4 DEF ModeInv, ChosenOnSale
  <2> QED BY <2>5, <2>6, <2>7 DEF ModeInv
<1>3. ASSUME NEW how \in Ended \cup {"violated"}, NEW row, End(t, how, row),
             UNCHANGED <<mode, types, switchTo>>
      PROVE  ModeInv'
  BY <1>3, LocalStepKeepsMode DEF End, Ended, Steps, Admitted, ModeRead, TypeInv,
     TypeOK
<1>4. CASE AcquireRequestLock(t)
  BY <1>4, LocalStepKeepsMode DEF AcquireRequestLock, tables, local, Steps,
     InTransaction, Admitted, ModeRead
<1>5. CASE UpdateActiveInventory(t) \/ FindSoldOut(t)
  BY <1>5, LocalStepKeepsMode DEF UpdateActiveInventory, FindSoldOut, tables, local,
     Steps, InTransaction, Admitted, ModeRead
<1>6. CASE MirrorInventory(t) \/ InsertPurchase(t)
  BY <1>6, LocalStepKeepsMode DEF MirrorInventory, InsertPurchase, tables, local,
     Steps, InTransaction, Admitted, ModeRead
<1>7. CASE Replay(t) \/ RecoverReplay(t) \/ Commit(t) \/ CommitReplyLost(t)
  BY <1>3, <1>7 DEF Replay, RecoverReplay, Commit, CommitReplyLost, MakeDurable,
     tables, Ended
<1>8. CASE LoseInsertRace(t) \/ Rollback(t) \/ RecoveryFails(t)
  BY <1>3, <1>8 DEF LoseInsertRace, Rollback, RecoveryFails, tables, Ended
<1>9. CASE Resolve(t) /\ End(t, "failed", NoRow)
  BY <1>3, <1>9 DEF Resolve, tables, Ended
<1> QED BY <1>1, <1>2, <1>4, <1>5, <1>6, <1>7, <1>8, <1>9 DEF Proceed, Fault

\* A switch changes the mode only when no attempt holds the shared barrier.
LEMMA ModeInvNext == TypeInv /\ ModeInv /\ [Next]_vars => ModeInv'
<1> SUFFICES ASSUME TypeInv, ModeInv, [Next]_vars PROVE ModeInv'
  OBVIOUS
<1> USE DEF ModeInv
<1>1. ASSUME NEW t \in Attempts, NEW in \in Input, Begin(t, in) PROVE ModeInv'
  <2>1. \A u \in Attempts : /\ pc'[u] = IF u = t THEN "begun" ELSE pc[u]
                            /\ u # t => request'[u] = request[u]
    BY <1>1 DEF Begin, TypeInv, TypeOK
  <2> QED BY <1>1, <2>1 DEF Begin, BarrierExcludes, WriterModeHeld, OnSale,
             ChosenOnSale, ExclusiveBarrierHeld, Admitted, ModeRead, tables
<1>2. ASSUME NEW t \in Attempts, Proceed(t) \/ Fault(t) PROVE ModeInv'
  BY <1>2, AttemptKeepsMode
<1>3. CASE CreateEvent
  BY <1>3 DEF CreateEvent, BarrierExcludes, WriterModeHeld, OnSale, ChosenOnSale,
     ExclusiveBarrierHeld, local
<1>4. ASSUME NEW y \in Types, AddTicketType(y) PROVE ModeInv'
  BY <1>4 DEF AddTicketType, BarrierExcludes, WriterModeHeld, OnSale, ChosenOnSale,
     ExclusiveBarrierHeld, local
<1>5. ASSUME NEW o \in OldAttempts, NEW in \in Input, OldReleasePurchase(o, in)
      PROVE  ModeInv'
  BY <1>5 DEF OldReleasePurchase, BarrierExcludes, WriterModeHeld, OnSale,
     ChosenOnSale, ExclusiveBarrierHeld, local
<1>6. CASE Switch
  <2>1. ASSUME NEW m \in Modes, AcquireExclusiveBarrier(m) PROVE ModeInv'
    BY <2>1 DEF AcquireExclusiveBarrier, SharedBarrierHolders, BarrierExcludes,
       WriterModeHeld, OnSale, ChosenOnSale, tables, local
  <2>2. CASE CommitSwitch
    BY <2>2 DEF CommitSwitch, CutoverReady, ExclusiveBarrierHeld, BarrierExcludes,
       WriterModeHeld, OnSale, ChosenOnSale, Admitted, local
  <2>3. CASE AbortSwitch
    BY <2>3 DEF AbortSwitch, ExclusiveBarrierHeld, BarrierExcludes,
       WriterModeHeld, OnSale, ChosenOnSale, tables, local
  <2> QED BY <1>6, <2>1, <2>2, <2>3 DEF Switch
<1>7. CASE UNCHANGED vars
  BY <1>7 DEF vars, tables, local, BarrierExcludes, WriterModeHeld, OnSale,
     ChosenOnSale, ExclusiveBarrierHeld
<1> QED BY <1>1, <1>2, <1>3, <1>4, <1>5, <1>6, <1>7 DEF Next

\* The writer mode an attempt read is the current one until it ends, so that no
\* attempt ever updates the side a switch has made inactive.
THEOREM WriterModeStaysHeld == Spec => []WriterModeHeld
<1>1. Init => TypeInv /\ ModeInv
  BY TypeInvInit, ModeInvInit
<1>2. TypeInv /\ ModeInv /\ [Next]_vars => TypeInv' /\ ModeInv'
  BY TypeInvNext, ModeInvNext
<1>3. ModeInv => WriterModeHeld
  BY DEF ModeInv
<1> QED BY <1>1, <1>2, <1>3, PTL DEF Spec

-----------------------------------------------------------------------------
(* Row locks.                                                              *)

\* A row is locked by one attempt at a time.
RowLocksExclusive ==
  \A t, u \in Attempts : t # u =>
    /\ ~(HoldsEventRow(t) /\ HoldsEventRow(u))
    /\ \A y \in Types : ~(HoldsTypeRow(t, y) /\ HoldsTypeRow(u, y))

\* At first no row is locked.
LEMMA LocksInit == Init => RowLocksExclusive
BY DEF Init, RowLocksExclusive, HoldsEventRow, HoldsTypeRow, HoldsBothRows

\* An attempt takes a row only when it holds it already or nobody does.
LEMMA StepKeepsLocks ==
  ASSUME RowLocksExclusive, NEW t \in Attempts,
         \A u \in Attempts \ {t} : /\ pc'[u] = pc[u]
                                   /\ usedMode'[u] = usedMode[u]
                                   /\ chosen'[u] = chosen[u]
                                   /\ result'[u] = result[u],
         HoldsEventRow(t)' => HoldsEventRow(t) \/ EventRowFree,
         \A y \in Types : HoldsTypeRow(t, y)' => HoldsTypeRow(t, y) \/ TypeRowFree(y)
  PROVE  RowLocksExclusive'
<1>1. \A u \in Attempts \ {t} :
        /\ HoldsEventRow(u)' => HoldsEventRow(u)
        /\ \A y \in Types : HoldsTypeRow(u, y)' => HoldsTypeRow(u, y)
  BY DEF HoldsEventRow, HoldsTypeRow, HoldsBothRows, WrittenType
<1> QED BY <1>1 DEF RowLocksExclusive, EventRowFree, TypeRowFree

\* A resolved attempt writes the row of the type it resolved, in both modes.
LEMMA WritesChosen ==
  ASSUME TypeInv, ModeInv, NEW t \in Attempts, pc[t] \in ModeRead
  PROVE  /\ WrittenType(t) = chosen[t]
         /\ chosen[t] \in types
         /\ usedMode[t] = mode
         /\ mode = "legacy" => types = {DefaultType}
BY DEF TypeInv, TypeOK, ModeInv, WriterModeHeld, OnSale, ChosenOnSale, WrittenType

\* Each step of an attempt leaves every row with at most one holder.
LEMMA AttemptKeepsLocks ==
  ASSUME TypeInv, ModeInv, RowLocksExclusive,
         NEW t \in Attempts, Proceed(t) \/ Fault(t)
  PROVE  RowLocksExclusive'
<1> USE DEF HoldsEventRow, HoldsTypeRow, HoldsBothRows
<1>1. ASSUME NEW how \in Ended \cup {"violated"}, NEW row, End(t, how, row)
      PROVE  RowLocksExclusive'
  <2>1. pc'[t] = how /\ how \notin {"updated", "mirrored", "inserted"}
    BY <1>1 DEF End, Ended, TypeInv, TypeOK
  <2>2. \A u \in Attempts \ {t} : /\ pc'[u] = pc[u]
                                  /\ usedMode'[u] = usedMode[u]
                                  /\ chosen'[u] = chosen[u]
                                  /\ result'[u] = result[u]
    BY <1>1 DEF End, TypeInv, TypeOK
  <2> QED BY <2>1, <2>2, StepKeepsLocks
<1>2. CASE AcquireSharedBarrier(t) \/ AcquireRequestLock(t) \/ FindSoldOut(t)
  BY <1>2, StepKeepsLocks DEF AcquireSharedBarrier, AcquireRequestLock, FindSoldOut,
     local, TypeInv, TypeOK
<1>3. CASE Resolve(t) /\ ~End(t, "failed", NoRow)
  BY <1>3, StepKeepsLocks DEF Resolve, TypeInv, TypeOK
<1>4. CASE UpdateActiveInventory(t)
  <2>1. /\ pc'[t] = "updated"
        /\ usedMode'[t] = usedMode[t] /\ WrittenType(t)' = WrittenType(t)
        /\ WrittenType(t) = chosen[t]
    BY <1>4, WritesChosen DEF UpdateActiveInventory, WrittenType, TypeInv, TypeOK,
       ModeRead
  <2>2. /\ HoldsEventRow(t)' => EventRowFree
        /\ \A y \in Types : HoldsTypeRow(t, y)' => TypeRowFree(y)
    BY <1>4, <2>1 DEF UpdateActiveInventory
  <2> QED BY <1>4, <2>2, StepKeepsLocks DEF UpdateActiveInventory, TypeInv, TypeOK
<1>5. CASE MirrorInventory(t)
  <2>1. /\ pc'[t] = "mirrored" /\ pc[t] = "updated"
        /\ usedMode'[t] = usedMode[t] /\ WrittenType(t)' = WrittenType(t)
        /\ usedMode[t] = "legacy" => WrittenType(t) = DefaultType
    BY <1>5 DEF MirrorInventory, WrittenType, TypeInv, TypeOK
  <2>2. /\ HoldsEventRow(t)' => HoldsEventRow(t) \/ EventRowFree
        /\ \A y \in Types : HoldsTypeRow(t, y)' => HoldsTypeRow(t, y) \/ TypeRowFree(y)
    BY <1>5, <2>1 DEF MirrorInventory
  <2> QED BY <1>5, <2>2, StepKeepsLocks DEF MirrorInventory, TypeInv, TypeOK
<1>6. CASE InsertPurchase(t)
  <2>1. /\ pc'[t] = "inserted" /\ pc[t] \in {"mirrored", "soldout"}
        /\ result'[t].status = "confirmed" => pc[t] = "mirrored"
        /\ usedMode'[t] = usedMode[t] /\ WrittenType(t)' = WrittenType(t)
    BY <1>6 DEF InsertPurchase, NewRow, WrittenType, TypeInv, TypeOK
  <2>2. /\ HoldsEventRow(t)' => HoldsEventRow(t)
        /\ \A y \in Types : HoldsTypeRow(t, y)' => HoldsTypeRow(t, y)
    BY <2>1
  <2> QED BY <1>6, <2>2, StepKeepsLocks DEF InsertPurchase, TypeInv, TypeOK
<1>7. CASE Replay(t) \/ RecoverReplay(t) \/ Commit(t) \/ CommitReplyLost(t)
  BY <1>1, <1>7 DEF Replay, RecoverReplay, Commit, CommitReplyLost, Ended
<1>8. CASE LoseInsertRace(t) \/ Rollback(t) \/ RecoveryFails(t)
  BY <1>1, <1>8 DEF LoseInsertRace, Rollback, RecoveryFails, Ended
<1>9. CASE Resolve(t) /\ End(t, "failed", NoRow)
  BY <1>1, <1>9 DEF Ended
<1> QED BY <1>2, <1>3, <1>4, <1>5, <1>6, <1>7, <1>8, <1>9 DEF Proceed, Fault

\* So does every step of the system.
LEMMA LocksNext ==
  TypeInv /\ ModeInv /\ RowLocksExclusive /\ [Next]_vars => RowLocksExclusive'
<1> SUFFICES ASSUME TypeInv, ModeInv, RowLocksExclusive, [Next]_vars
             PROVE  RowLocksExclusive'
  OBVIOUS
<1>1. ASSUME NEW t \in Attempts, NEW in \in Input, Begin(t, in)
      PROVE  RowLocksExclusive'
  BY <1>1, StepKeepsLocks DEF Begin, HoldsEventRow, HoldsTypeRow, HoldsBothRows,
     TypeInv, TypeOK
<1>2. ASSUME NEW t \in Attempts, Proceed(t) \/ Fault(t) PROVE RowLocksExclusive'
  BY <1>2, AttemptKeepsLocks
<1>3. CASE UNCHANGED <<pc, local>>
  BY <1>3 DEF RowLocksExclusive, HoldsEventRow, HoldsTypeRow, HoldsBothRows,
     WrittenType, local
<1>4. CreateEvent \/ Switch \/ UNCHANGED vars => UNCHANGED <<pc, local>>
  BY DEF CreateEvent, Switch, AcquireExclusiveBarrier, CommitSwitch, AbortSwitch, vars
<1>5. ASSUME NEW y \in Types, AddTicketType(y) PROVE UNCHANGED <<pc, local>>
  BY <1>5 DEF AddTicketType
<1>6. ASSUME NEW o \in OldAttempts, NEW in \in Input, OldReleasePurchase(o, in)
      PROVE  UNCHANGED <<pc, local>>
  BY <1>6 DEF OldReleasePurchase
<1> QED BY <1>1, <1>2, <1>3, <1>4, <1>5, <1>6 DEF Next

-----------------------------------------------------------------------------
(* Drafts and mirrors.                                                     *)

\* What an attempt has written to the active row, while it is locked.
UpdatedRow(t) ==
  LET q == request[t].quantity IN
  pc[t] = "updated" =>
    IF usedMode[t] = "legacy"
    THEN event.remaining >= q /\ draftEvent[t] = Taken(event, q)
    ELSE /\ stock[chosen[t]].remaining >= q
         /\ draftStock[t] = Taken(stock[chosen[t]], q)

\* Once mirrored, the drafts agree with each other and with the other types.
MirroredRows(t) ==
  LET q == request[t].quantity
      row == stock[chosen[t]] IN
  HoldsBothRows(t) =>
    /\ draftEvent[t].total = TotalOf(types, VisibleStock(t))
    /\ draftEvent[t].remaining = RemainingOf(types, VisibleStock(t))
    /\ draftEvent[t].version = event.version + 1
    /\ row.remaining >= q
    /\ draftStock[t].total = row.total
    /\ draftStock[t].remaining = row.remaining - q
    /\ draftStock[t].version > row.version
    /\ draftStock[t].version <= draftEvent[t].version

\* A refusal stays justified until it commits.
Refusal(t) ==
  pc[t] = "soldout" \/ (pc[t] = "inserted" /\ result[t].status = "rejected")
    => stock[chosen[t]].remaining < request[t].quantity

Drafts(t) == UpdatedRow(t) /\ MirroredRows(t) /\ Refusal(t)

\* A type's version never overtakes that of the Event row, which every change
\* of either side moves; the forward bridge relies on it after a switch back.
VersionOrder == \A y \in types : stock[y].version <= event.version

StockInv == MirrorParity /\ VersionOrder /\ \A t \in Attempts : Drafts(t)
RowInv == TypeInv /\ ModeInv /\ RowLocksExclusive /\ StockInv

\* Without an Event all rows are empty and no attempt has a draft.
LEMMA StockInit == Init => StockInv
<1> SUFFICES ASSUME Init PROVE StockInv
  OBVIOUS
<1>1. /\ [y \in {} |-> stock[y].total] \in [{} -> Nat]
      /\ [y \in {} |-> stock[y].remaining] \in [{} -> Nat]
  OBVIOUS
<1>2. MirrorParity
  BY <1>1, SumOfNone DEF Init, MirrorParity, TotalOf, RemainingOf, EmptyInventory
<1> QED BY <1>2 DEF Init, StockInv, VersionOrder, Drafts, UpdatedRow, MirroredRows,
            Refusal, HoldsBothRows

\* The drafts of an attempt survive a step of somebody else that leaves alone
\* the rows the attempt has locked and raises no remaining quantity.
LEMMA DraftsFrame ==
  ASSUME TypeInv, ModeInv, NEW u \in Attempts, Drafts(u),
         pc'[u] = pc[u], request'[u] = request[u], usedMode'[u] = usedMode[u],
         chosen'[u] = chosen[u], draftEvent'[u] = draftEvent[u],
         draftStock'[u] = draftStock[u], result'[u] = result[u],
         HoldsEventRow(u) => UNCHANGED <<types, event, stock>>,
         HoldsTypeRow(u, chosen[u]) => stock'[chosen[u]] = stock[chosen[u]],
         pc[u] \in ModeRead =>
           /\ stock'[chosen[u]].remaining \in Nat
           /\ stock'[chosen[u]].remaining <= stock[chosen[u]].remaining
  PROVE  Drafts(u)'
<1>1. UpdatedRow(u)'
  <2>1. CASE pc[u] = "updated" /\ usedMode[u] = "legacy"
    BY <2>1 DEF Drafts, UpdatedRow, HoldsEventRow
  <2>2. CASE pc[u] = "updated" /\ usedMode[u] # "legacy"
    <3>1. HoldsTypeRow(u, chosen[u])
      BY <2>2 DEF HoldsTypeRow, WrittenType, TypeInv, TypeOK, Modes
    <3> QED BY <2>2, <3>1 DEF Drafts, UpdatedRow
  <2> QED BY <2>1, <2>2 DEF UpdatedRow
<1>2. MirroredRows(u)'
  <2>1. SUFFICES ASSUME HoldsBothRows(u) PROVE MirroredRows(u)'
    BY DEF MirroredRows, HoldsBothRows
  <2>2. UNCHANGED <<types, event, stock>>
    BY <2>1 DEF HoldsEventRow
  <2>3. VisibleStock(u)' = VisibleStock(u)
    BY <2>2 DEF VisibleStock, WrittenType
  <2>4. /\ TotalOf(types, VisibleStock(u))' = TotalOf(types, VisibleStock(u))
        /\ RemainingOf(types, VisibleStock(u))' = RemainingOf(types, VisibleStock(u))
    BY <2>2, <2>3 DEF TotalOf, RemainingOf
  <2> QED BY <2>1, <2>2, <2>4 DEF Drafts, MirroredRows
<1>3. Refusal(u)'
  <2>1. SUFFICES ASSUME pc[u] \in ModeRead,
                        stock[chosen[u]].remaining < request[u].quantity
                 PROVE  stock'[chosen[u]].remaining < request[u].quantity
    BY DEF Drafts, Refusal, ModeRead
  <2>2. request[u].quantity \in Nat /\ stock[chosen[u]].remaining \in Nat
    BY QuantityIsNat, CapacityAssumption DEF TypeInv, TypeOK, Inventory
  <2> QED BY <2>1, <2>2
<1> QED BY <1>1, <1>2, <1>3 DEF Drafts

\* A step of one attempt that changes no committed row.
LEMMA LocalStepKeepsStock ==
  ASSUME RowInv, NEW t \in Attempts, Drafts(t)', UNCHANGED <<types, event, stock>>,
         \A u \in Attempts \ {t} :
           /\ pc'[u] = pc[u] /\ request'[u] = request[u]
           /\ usedMode'[u] = usedMode[u] /\ chosen'[u] = chosen[u]
           /\ draftEvent'[u] = draftEvent[u] /\ draftStock'[u] = draftStock[u]
           /\ result'[u] = result[u]
  PROVE  StockInv'
<1>1. MirrorParity' /\ VersionOrder'
  BY DEF RowInv, StockInv, MirrorParity, VersionOrder, TotalOf, RemainingOf
<1>2. ASSUME NEW u \in Attempts \ {t} PROVE Drafts(u)'
  <2>1. stock[chosen[u]].remaining \in Nat
    BY CapacityAssumption DEF RowInv, TypeInv, TypeOK, Inventory
  <2>2. stock[chosen[u]].remaining <= stock[chosen[u]].remaining
    BY <2>1
  <2>3. Drafts(u)
    BY DEF RowInv, StockInv
  <2> QED BY <2>1, <2>2, <2>3, DraftsFrame DEF RowInv
<1> QED BY <1>1, <1>2 DEF StockInv

\* In legacy mode the Event row and the only type's row hold the same numbers.
LEMMA LegacyParity ==
  ASSUME RowInv, mode = "legacy", types = {DefaultType}
  PROVE  /\ event.total = stock[DefaultType].total
         /\ event.remaining = stock[DefaultType].remaining
         /\ stock[DefaultType].version <= event.version
<1>1. stock[DefaultType] \in Inventory
  BY TypesAssumption DEF RowInv, TypeInv, TypeOK
<1> QED BY <1>1, AggregateOfOne DEF RowInv, StockInv, MirrorParity, VersionOrder

\* Nothing is owed by an attempt that has not written or was never refused.
LEMMA NoDrafts ==
  ASSUME NEW t, pc[t] \notin {"updated", "soldout", "mirrored", "inserted"}
  PROVE  Drafts(t)
BY DEF Drafts, UpdatedRow, MirroredRows, Refusal, HoldsBothRows

\* An attempt that ends without a COMMIT leaves the rows alone.
LEMMA EndKeepsStock ==
  ASSUME RowInv, NEW t \in Attempts, NEW how \in Ended \cup {"violated"}, NEW row,
         End(t, how, row), UNCHANGED <<types, event, stock>>
  PROVE  StockInv'
<1>1. pc'[t] = how /\ how \notin {"updated", "soldout", "mirrored", "inserted"}
  BY DEF End, Ended, RowInv, TypeInv, TypeOK
<1>2. Drafts(t)'
  BY <1>1 DEF Drafts, UpdatedRow, MirroredRows, Refusal, HoldsBothRows
<1> QED BY <1>2, LocalStepKeepsStock DEF End, RowInv, TypeInv, TypeOK

\* The guarded UPDATE drafts the active row from the committed one.
LEMMA UpdateKeepsStock ==
  ASSUME RowInv, NEW t \in Attempts, UpdateActiveInventory(t)
  PROVE  StockInv'
<1> USE DEF RowInv, TypeInv, TypeOK
<1>1. /\ pc'[t] = "updated" /\ request' = request /\ usedMode' = usedMode
      /\ chosen' = chosen /\ UNCHANGED <<types, event, stock>>
  BY DEF UpdateActiveInventory, tables
<1>2. UpdatedRow(t)'
  <2>1. CASE usedMode[t] = "legacy"
    BY <1>1, <2>1 DEF UpdateActiveInventory, UpdatedRow
  <2>2. CASE usedMode[t] # "legacy"
    BY <1>1, <2>2 DEF UpdateActiveInventory, UpdatedRow
  <2> QED BY <2>1, <2>2
<1>3. Drafts(t)'
  BY <1>1, <1>2 DEF Drafts, MirroredRows, Refusal, HoldsBothRows
<1> QED BY <1>1, <1>3, LocalStepKeepsStock DEF UpdateActiveInventory

\* A refusal is justified by the row the UPDATE did not match.
LEMMA SoldOutKeepsStock ==
  ASSUME RowInv, NEW t \in Attempts, FindSoldOut(t)
  PROVE  StockInv'
<1> USE DEF RowInv, TypeInv, TypeOK
<1>1. /\ pc[t] = "resolved" /\ pc'[t] = "soldout" /\ usedMode[t] = mode
      /\ UNCHANGED <<types, event, stock, local>>
  BY DEF FindSoldOut, tables
<1>2. stock[chosen[t]].remaining < request[t].quantity
  <2>1. CASE mode = "legacy"
    <3>1. types = {DefaultType} /\ chosen[t] = DefaultType
      BY <1>1, <2>1, WritesChosen DEF ModeRead
    <3> QED BY <1>1, <2>1, <3>1, LegacyParity DEF FindSoldOut
  <2>2. CASE mode # "legacy"
    BY <1>1, <2>2 DEF FindSoldOut
  <2> QED BY <2>1, <2>2
<1>3. Drafts(t)'
  BY <1>1, <1>2 DEF Drafts, UpdatedRow, MirroredRows, Refusal, HoldsBothRows, local
<1> QED BY <1>1, <1>3, LocalStepKeepsStock DEF FindSoldOut, local

\* The triggers draft the other side so that the two sides agree.
LEMMA MirrorKeepsStock ==
  ASSUME RowInv, NEW t \in Attempts, MirrorInventory(t)
  PROVE  StockInv'
<1> DEFINE q == request[t].quantity
           y == chosen[t]
<1> USE DEF RowInv, TypeInv, TypeOK
<1>1. /\ pc[t] = "updated" /\ pc'[t] = "mirrored"
      /\ UNCHANGED <<types, event, stock, request, usedMode, chosen, result>>
  BY DEF MirrorInventory, tables
<1>2. /\ WrittenType(t) = y /\ y \in types /\ usedMode[t] = mode
      /\ WrittenType(t)' = y
      /\ q \in Nat /\ stock[y] \in Inventory /\ event \in Inventory
  BY <1>1, WritesChosen, QuantityIsNat DEF ModeRead, WrittenType
<1>3. UpdatedRow(t)
  BY DEF StockInv, Drafts
<1>4. MirroredRows(t)'
  <2>1. CASE usedMode[t] = "legacy"
    <3>1. types = {DefaultType} /\ y = DefaultType
      BY <1>1, <1>2, <2>1, WritesChosen DEF ModeRead
    <3>2. event.remaining >= q /\ draftEvent[t] = Taken(event, q)
      BY <1>1, <1>3, <2>1 DEF UpdatedRow
    <3>3. /\ draftEvent[t] \in Inventory
          /\ draftEvent[t].total = event.total
          /\ draftEvent[t].remaining = event.remaining - q
          /\ draftEvent[t].version = event.version + 1
      BY <1>2, <3>2, TakenRow
    <3>4. draftEvent' = draftEvent /\ draftStock'[t] = draftEvent[t]
      BY <2>1 DEF MirrorInventory
    <3>5. VisibleStock(t)'[DefaultType] = draftEvent[t]
      BY <1>1, <1>2, <3>1, <3>4 DEF VisibleStock
    <3>6. /\ TotalOf(types, VisibleStock(t))' = draftEvent[t].total
          /\ RemainingOf(types, VisibleStock(t))' = draftEvent[t].remaining
      <4> DEFINE rows == VisibleStock(t)'
      <4>1. /\ TotalOf(types, VisibleStock(t))' = TotalOf({DefaultType}, rows)
            /\ RemainingOf(types, VisibleStock(t))' = RemainingOf({DefaultType}, rows)
        BY <1>1, <3>1 DEF TotalOf, RemainingOf
      <4>2. rows[DefaultType] \in Inventory /\ rows[DefaultType] = draftEvent[t]
        BY <3>3, <3>5
      <4> HIDE DEF rows
      <4>3. /\ TotalOf({DefaultType}, rows) = rows[DefaultType].total
            /\ RemainingOf({DefaultType}, rows) = rows[DefaultType].remaining
        BY <4>2, AggregateOfOne
      <4> QED BY <4>1, <4>2, <4>3
    <3>7. /\ event.total = stock[y].total /\ event.remaining = stock[y].remaining
          /\ stock[y].version <= event.version
      BY <1>2, <2>1, <3>1, LegacyParity
    <3>8. event.version \in Nat /\ stock[y].version \in Nat
      BY <1>2 DEF Inventory
    <3>9. /\ draftStock'[t].version > stock[y].version
          /\ draftStock'[t].version <= draftEvent'[t].version
      BY <3>3, <3>4, <3>7, <3>8
    <3> QED BY <1>1, <3>2, <3>3, <3>4, <3>6, <3>7, <3>9 DEF MirroredRows
  <2>2. CASE usedMode[t] # "legacy"
    <3>1. stock[y].remaining >= q /\ draftStock[t] = Taken(stock[y], q)
      BY <1>1, <1>3, <2>2 DEF UpdatedRow
    <3>2. /\ draftStock[t].total = stock[y].total
          /\ draftStock[t].remaining = stock[y].remaining - q
          /\ draftStock[t].version = stock[y].version + 1
      BY <1>2, <3>1, TakenRow
    <3>3. /\ draftStock' = draftStock
          /\ draftEvent'[t] = Aggregate(event, types, VisibleStock(t))
      BY <2>2 DEF MirrorInventory
    <3>4. VisibleStock(t)' = VisibleStock(t)
      BY <1>1, <1>2, <3>3 DEF VisibleStock
    <3>5. /\ draftEvent'[t].total = TotalOf(types, VisibleStock(t))'
          /\ draftEvent'[t].remaining = RemainingOf(types, VisibleStock(t))'
          /\ draftEvent'[t].version = event.version + 1
      BY <1>1, <3>3, <3>4 DEF Aggregate, TotalOf, RemainingOf
    <3>6. /\ stock[y].version <= event.version
          /\ event.version \in Nat /\ stock[y].version \in Nat
      BY <1>2 DEF StockInv, VersionOrder, Inventory
    <3>7. /\ draftStock'[t].version > stock[y].version
          /\ draftStock'[t].version <= draftEvent'[t].version
      BY <3>2, <3>3, <3>5, <3>6
    <3> QED BY <1>1, <3>1, <3>2, <3>3, <3>5, <3>7 DEF MirroredRows
  <2> QED BY <2>1, <2>2
<1>5. Drafts(t)'
  BY <1>1, <1>4 DEF Drafts, UpdatedRow, Refusal
<1> QED BY <1>1, <1>5, LocalStepKeepsStock DEF MirrorInventory

\* The INSERT of the purchases row changes no inventory row.
LEMMA InsertKeepsStock ==
  ASSUME RowInv, NEW t \in Attempts, InsertPurchase(t)
  PROVE  StockInv'
<1> USE DEF RowInv, TypeInv, TypeOK
<1>1. /\ pc[t] \in {"mirrored", "soldout"} /\ pc'[t] = "inserted"
      /\ UNCHANGED <<types, event, stock, request, usedMode, chosen, draftEvent,
                     draftStock>>
      /\ result'[t].status = IF pc[t] = "mirrored" THEN "confirmed" ELSE "rejected"
  BY DEF InsertPurchase, NewRow, tables
<1>2. Drafts(t)
  BY DEF StockInv
<1>3. Drafts(t)'
  <2>1. CASE pc[t] = "mirrored"
    <3>1. VisibleStock(t)' = VisibleStock(t)
      BY <1>1 DEF VisibleStock, WrittenType
    <3>2. MirroredRows(t)'
      BY <1>1, <1>2, <2>1, <3>1
         DEF Drafts, MirroredRows, HoldsBothRows, TotalOf, RemainingOf
    <3> QED BY <1>1, <2>1, <3>2 DEF Drafts, UpdatedRow, Refusal
  <2>2. CASE pc[t] = "soldout"
    BY <1>1, <1>2, <2>2
       DEF Drafts, UpdatedRow, MirroredRows, HoldsBothRows, Refusal
  <2> QED BY <1>1, <2>1, <2>2
<1> QED BY <1>1, <1>3, LocalStepKeepsStock DEF InsertPurchase

\* What the commit of a confirmed purchase does to the committed rows.
LEMMA CommittedSale ==
  ASSUME RowInv, NEW t \in Attempts, pc[t] = "inserted", MakeDurable(t),
         result[t].status = "confirmed"
  PROVE  /\ types' = types /\ chosen[t] \in types
         /\ event' = draftEvent[t] /\ event'.version = event.version + 1
         /\ stock' = [stock EXCEPT ![chosen[t]] = draftStock[t]]
         /\ stock[chosen[t]].remaining >= request[t].quantity
         /\ draftStock[t].total = stock[chosen[t]].total
         /\ draftStock[t].remaining = stock[chosen[t]].remaining - request[t].quantity
         /\ draftStock[t].version > stock[chosen[t]].version
         /\ draftStock[t].version <= event'.version
         /\ MirrorParity'
<1>1. HoldsBothRows(t) /\ MirroredRows(t)
  BY DEF HoldsBothRows, RowInv, StockInv, Drafts
<1>2. WrittenType(t) = chosen[t] /\ chosen[t] \in types
  BY WritesChosen DEF RowInv, ModeRead
<1>3. types' = types /\ event' = draftEvent[t] /\ stock' = VisibleStock(t)
  BY DEF MakeDurable
<1>4. /\ TotalOf(types, stock)' = TotalOf(types, VisibleStock(t))
      /\ RemainingOf(types, stock)' = RemainingOf(types, VisibleStock(t))
  BY <1>3 DEF TotalOf, RemainingOf
<1> QED BY <1>1, <1>2, <1>3, <1>4 DEF MirroredRows, MirrorParity, VisibleStock

\* A COMMIT publishes the drafts; those of the other attempts stay right.
LEMMA CommitKeepsStock ==
  ASSUME RowInv, NEW t \in Attempts, Commit(t) \/ CommitReplyLost(t)
  PROVE  StockInv'
<1> USE DEF RowInv, TypeInv, TypeOK
<1>1. pc[t] = "inserted" /\ MakeDurable(t)
  BY DEF Commit, CommitReplyLost
<1>2. PICK how \in {"created", "failed"} : \E row : End(t, how, row)
  BY DEF Commit, CommitReplyLost
<1>3. CASE result[t].status # "confirmed"
  BY <1>1, <1>2, <1>3, EndKeepsStock DEF MakeDurable, Ended
<1>4. CASE result[t].status = "confirmed"
  <2> DEFINE c == chosen[t]
  <2>1. /\ types' = types /\ c \in types
        /\ event' = draftEvent[t] /\ event'.version = event.version + 1
        /\ stock' = [stock EXCEPT ![c] = draftStock[t]]
        /\ stock[c].remaining >= request[t].quantity
        /\ draftStock[t].remaining = stock[c].remaining - request[t].quantity
        /\ draftStock[t].version <= event'.version
        /\ MirrorParity'
    BY <1>1, <1>4, CommittedSale
  <2>2. VersionOrder'
    <3>1. \A y \in types : stock[y].version \in Nat /\ stock[y].version <= event.version
      BY DEF StockInv, VersionOrder, Inventory
    <3>2. event.version \in Nat
      BY DEF Inventory
    <3> QED BY <2>1, <3>1, <3>2 DEF VersionOrder
  <2>3. Drafts(t)'
    BY <1>2 DEF End, Drafts, UpdatedRow, MirroredRows, Refusal, HoldsBothRows
  <2>4. ASSUME NEW u \in Attempts \ {t} PROVE Drafts(u)'
    <3>1. HoldsEventRow(t) /\ HoldsTypeRow(t, c)
      BY <1>1, <1>4, WritesChosen DEF HoldsEventRow, HoldsTypeRow, HoldsBothRows,
         ModeRead
    <3>2. ~HoldsEventRow(u) /\ ~HoldsTypeRow(u, c)
      BY <3>1 DEF RowLocksExclusive
    <3>3. HoldsTypeRow(u, chosen[u]) => stock'[chosen[u]] = stock[chosen[u]]
      BY <2>1, <3>2
    <3>4. /\ stock'[chosen[u]].remaining \in Nat
          /\ stock'[chosen[u]].remaining <= stock[chosen[u]].remaining
      <4>1. /\ request[t].quantity \in Nat
            /\ stock[c].remaining \in Nat /\ stock[chosen[u]].remaining \in Nat
        BY QuantityIsNat, CapacityAssumption DEF Inventory
      <4> QED BY <2>1, <4>1
    <3>5. /\ pc'[u] = pc[u] /\ request'[u] = request[u]
          /\ usedMode'[u] = usedMode[u] /\ chosen'[u] = chosen[u]
          /\ draftEvent'[u] = draftEvent[u] /\ draftStock'[u] = draftStock[u]
          /\ result'[u] = result[u]
      BY <1>2 DEF End
    <3> QED BY <3>2, <3>3, <3>4, <3>5, DraftsFrame DEF StockInv
  <2> QED BY <2>1, <2>2, <2>3, <2>4 DEF StockInv
<1> QED BY <1>3, <1>4

\* Each step of an attempt keeps the stock invariant.
LEMMA AttemptKeepsStock ==
  ASSUME RowInv, NEW t \in Attempts, Proceed(t) \/ Fault(t)
  PROVE  StockInv'
<1>1. CASE AcquireSharedBarrier(t) \/ AcquireRequestLock(t)
           \/ (Resolve(t) /\ ~End(t, "failed", NoRow))
  <2>1. /\ UNCHANGED <<types, event, stock>>
        /\ pc'[t] \in {"admitted", "serialized", "resolved"}
        /\ \A u \in Attempts \ {t} :
             /\ pc'[u] = pc[u] /\ request'[u] = request[u]
             /\ usedMode'[u] = usedMode[u] /\ chosen'[u] = chosen[u]
             /\ draftEvent'[u] = draftEvent[u] /\ draftStock'[u] = draftStock[u]
             /\ result'[u] = result[u]
    BY <1>1 DEF AcquireSharedBarrier, AcquireRequestLock, Resolve, tables, local,
       RowInv, TypeInv, TypeOK
  <2>2. Drafts(t)'
    BY <2>1 DEF Drafts, UpdatedRow, MirroredRows, Refusal, HoldsBothRows
  <2> QED BY <2>1, <2>2, LocalStepKeepsStock
<1>2. CASE UpdateActiveInventory(t) \/ FindSoldOut(t) \/ MirrorInventory(t)
           \/ InsertPurchase(t)
  BY <1>2, UpdateKeepsStock, SoldOutKeepsStock, MirrorKeepsStock, InsertKeepsStock
<1>3. CASE Commit(t) \/ CommitReplyLost(t)
  BY <1>3, CommitKeepsStock
<1>4. CASE Replay(t) \/ RecoverReplay(t) \/ LoseInsertRace(t) \/ Rollback(t)
           \/ RecoveryFails(t) \/ (Resolve(t) /\ End(t, "failed", NoRow))
  <2>1. PICK how \in Ended \cup {"violated"} : \E row : End(t, how, row)
    BY <1>4 DEF Replay, RecoverReplay, LoseInsertRace, Rollback, RecoveryFails, Ended
  <2>2. UNCHANGED <<types, event, stock>>
    BY <1>4 DEF Replay, RecoverReplay, LoseInsertRace, Rollback, RecoveryFails,
       Resolve, tables
  <2> QED BY <2>1, <2>2, EndKeepsStock
<1> QED BY <1>1, <1>2, <1>3, <1>4 DEF Proceed, Fault

\* A sale by the previous release updates both rows of the only type at once.
LEMMA OldReleaseSale ==
  ASSUME RowInv, NEW o \in OldAttempts, NEW in \in Input, OldReleasePurchase(o, in),
         event.remaining >= in.quantity
  PROVE  /\ types = {DefaultType} /\ types' = types
         /\ event' = Taken(event, in.quantity) /\ event' \in Inventory
         /\ stock' = [stock EXCEPT ![DefaultType] = event']
         /\ event'.total = stock[DefaultType].total
         /\ event.remaining = stock[DefaultType].remaining
         /\ event'.remaining = event.remaining - in.quantity
         /\ event'.version = event.version + 1
         /\ stock[DefaultType].version <= event.version
         /\ EventRowFree /\ TypeRowFree(DefaultType)
<1>1. mode = "legacy" /\ types = {DefaultType}
  BY DEF OldReleasePurchase, RowInv, ModeInv, OnSale
<1>2. in.quantity \in Nat /\ event \in Inventory
  BY QuantitiesAssumption DEF Input, RowInv, TypeInv, TypeOK
<1>3. /\ event' = Taken(event, in.quantity)
      /\ stock' = [stock EXCEPT ![DefaultType] = event']
      /\ EventRowFree /\ TypeRowFree(DefaultType) /\ types' = types
  BY DEF OldReleasePurchase
<1> QED BY <1>1, <1>2, <1>3, TakenRow, LegacyParity

\* The stock invariant depends on these variables only.
LEMMA RowsFrame ==
  ASSUME RowInv, UNCHANGED <<types, event, stock, pc, local>>
  PROVE  StockInv'
<1>1. MirrorParity' /\ VersionOrder'
  BY DEF RowInv, StockInv, MirrorParity, VersionOrder, TotalOf, RemainingOf
<1>2. ASSUME NEW u \in Attempts PROVE Drafts(u)'
  <2>1. stock[chosen[u]].remaining \in Nat
    BY CapacityAssumption DEF RowInv, TypeInv, TypeOK, Inventory
  <2>2. stock[chosen[u]].remaining <= stock[chosen[u]].remaining
    BY <2>1
  <2>3. Drafts(u)
    BY DEF RowInv, StockInv
  <2> QED BY <2>1, <2>2, <2>3, DraftsFrame DEF RowInv, local
<1> QED BY <1>1, <1>2 DEF StockInv

\* Every step of the system keeps the stock invariant.
LEMMA StockNext == RowInv /\ [Next]_vars => StockInv'
<1> SUFFICES ASSUME RowInv, [Next]_vars PROVE StockInv'
  OBVIOUS
<1> USE DEF RowInv, TypeInv, TypeOK
<1>1. ASSUME NEW t \in Attempts, NEW in \in Input, Begin(t, in) PROVE StockInv'
  <2>1. Drafts(t)'
    BY <1>1 DEF Begin, Drafts, UpdatedRow, MirroredRows, Refusal, HoldsBothRows
  <2> QED BY <1>1, <2>1, LocalStepKeepsStock DEF Begin, tables
<1>2. ASSUME NEW t \in Attempts, Proceed(t) \/ Fault(t) PROVE StockInv'
  BY <1>2, AttemptKeepsStock
<1>3. CASE CreateEvent
  <2> DEFINE n == Capacity[DefaultType]
             first == [stock EXCEPT ![DefaultType] = Fresh(n)]
  <2>1. /\ types = {} /\ types' = {DefaultType} /\ stock' = first
        /\ UNCHANGED <<pc, local>>
    BY <1>3 DEF CreateEvent
  <2>2. /\ first[DefaultType] = Fresh(n) /\ Fresh(n) \in Inventory
        /\ Fresh(n).total = n /\ Fresh(n).remaining = n /\ Fresh(n).version = 0
    BY TypesAssumption, CapacityAssumption DEF Fresh, Inventory
  <2>3. /\ TotalOf({DefaultType}, first) = n
        /\ RemainingOf({DefaultType}, first) = n
    <3> HIDE DEF first
    <3> QED BY <2>2, AggregateOfOne
  <2>4. /\ TotalOf(types, stock)' = TotalOf({DefaultType}, first)
        /\ RemainingOf(types, stock)' = RemainingOf({DefaultType}, first)
    BY <2>1 DEF TotalOf, RemainingOf
  <2>5. event'.total = n /\ event'.remaining = n /\ event'.version \in {0, 1}
    <3>1. CASE mode = "legacy"
      BY <1>3, <2>2, <3>1 DEF CreateEvent
    <3>2. CASE mode # "legacy"
      <4>1. event' = Aggregate(EmptyInventory, {DefaultType}, first)
        BY <1>3, <3>2 DEF CreateEvent
      <4> HIDE DEF first
      <4> QED BY <4>1, <2>3 DEF Aggregate, EmptyInventory
    <3> QED BY <3>1, <3>2
  <2>6. MirrorParity' /\ VersionOrder'
    BY <2>1, <2>2, <2>3, <2>4, <2>5 DEF MirrorParity, VersionOrder
  <2>7. ASSUME NEW u \in Attempts PROVE Drafts(u)'
    <3>1. pc'[u] \notin ModeRead
      BY <2>1, WritesChosen
    <3> QED BY <3>1 DEF Drafts, UpdatedRow, MirroredRows, Refusal, HoldsBothRows,
               ModeRead
  <2> QED BY <2>6, <2>7 DEF StockInv
<1>4. ASSUME NEW y \in Types, AddTicketType(y) PROVE StockInv'
  <2> DEFINE more == [stock EXCEPT ![y] = Fresh(Capacity[y])]
  <2>1. /\ y \notin types /\ types' = types \cup {y} /\ stock' = more
        /\ event' = Aggregate(event, types \cup {y}, more)
        /\ EventRowFree /\ UNCHANGED <<pc, local>>
    BY <1>4 DEF AddTicketType
  <2>2. MirrorParity'
    BY <2>1 DEF MirrorParity, Aggregate, TotalOf, RemainingOf
  <2>3. VersionOrder'
    <3>1. /\ event'.version = event.version + 1
          /\ event.version \in Nat /\ stock'[y].version = 0
          /\ \A x \in types : stock'[x] = stock[x] /\ stock[x].version \in Nat
      BY <2>1 DEF Aggregate, Fresh, Inventory
    <3> QED BY <2>1, <3>1 DEF StockInv, VersionOrder
  <2>4. ASSUME NEW u \in Attempts PROVE Drafts(u)'
    <3>1. pc[u] \in ModeRead => stock'[chosen[u]] = stock[chosen[u]]
      BY <2>1, WritesChosen
    <3>2. HoldsTypeRow(u, chosen[u]) => pc[u] \in ModeRead
      BY DEF HoldsTypeRow, HoldsBothRows, ModeRead
    <3>3. stock[chosen[u]].remaining \in Nat
      BY CapacityAssumption DEF Inventory
    <3>4. stock[chosen[u]].remaining <= stock[chosen[u]].remaining
      BY <3>3
    <3>5. ~HoldsEventRow(u)
      BY <2>1 DEF EventRowFree
    <3> QED BY <2>1, <3>1, <3>2, <3>3, <3>4, <3>5, DraftsFrame DEF StockInv, local
  <2> QED BY <2>2, <2>3, <2>4 DEF StockInv
<1>5. ASSUME NEW o \in OldAttempts, NEW in \in Input, OldReleasePurchase(o, in)
      PROVE  StockInv'
  <2>1. CASE ~(event.remaining >= in.quantity)
    <3>1. UNCHANGED <<types, event, stock, pc, local>>
      BY <1>5, <2>1 DEF OldReleasePurchase
    <3> QED BY <3>1, RowsFrame
  <2>2. CASE event.remaining >= in.quantity
    <3>1. /\ types = {DefaultType} /\ types' = types /\ event' \in Inventory
          /\ stock' = [stock EXCEPT ![DefaultType] = event']
          /\ event.remaining = stock[DefaultType].remaining
          /\ event'.remaining = event.remaining - in.quantity
          /\ EventRowFree /\ TypeRowFree(DefaultType)
      BY <1>5, <2>2, OldReleaseSale
    <3>2. stock'[DefaultType] = event'
      BY <3>1, TypesAssumption
    <3>3. MirrorParity'
      <4>1. /\ TotalOf(types, stock)' = TotalOf({DefaultType}, stock')
            /\ RemainingOf(types, stock)' = RemainingOf({DefaultType}, stock')
        BY <3>1 DEF TotalOf, RemainingOf
      <4>2. /\ TotalOf({DefaultType}, stock') = stock'[DefaultType].total
            /\ RemainingOf({DefaultType}, stock') = stock'[DefaultType].remaining
        BY <3>1, <3>2, AggregateOfOne
      <4> QED BY <3>2, <4>1, <4>2 DEF MirrorParity
    <3>4. VersionOrder'
      BY <3>1, <3>2 DEF VersionOrder, Inventory
    <3>5. UNCHANGED <<pc, local>>
      BY <1>5 DEF OldReleasePurchase
    <3>6. ASSUME NEW u \in Attempts PROVE Drafts(u)'
      <4>1. ~HoldsEventRow(u) /\ ~HoldsTypeRow(u, DefaultType)
        BY <3>1 DEF EventRowFree, TypeRowFree
      <4>2. HoldsTypeRow(u, chosen[u]) => stock'[chosen[u]] = stock[chosen[u]]
        BY <3>1, <4>1
      <4>3. /\ stock'[chosen[u]].remaining \in Nat
            /\ stock'[chosen[u]].remaining <= stock[chosen[u]].remaining
        <5>1. /\ in.quantity \in Nat /\ event'.remaining \in Nat
              /\ event.remaining \in Nat /\ stock[chosen[u]].remaining \in Nat
          <6>1. in.quantity \in Nat
            BY QuantitiesAssumption DEF Input
          <6> QED BY <3>1, <6>1, CapacityAssumption DEF Inventory
        <5>2. CASE chosen[u] = DefaultType
          BY <3>1, <3>2, <5>1, <5>2
        <5>3. CASE chosen[u] # DefaultType
          BY <3>1, <5>1, <5>3
        <5> QED BY <5>2, <5>3
      <4> QED BY <3>5, <4>1, <4>2, <4>3, DraftsFrame DEF StockInv, local
    <3> QED BY <3>3, <3>4, <3>6 DEF StockInv
  <2> QED BY <2>1, <2>2
<1>6. CASE Switch \/ UNCHANGED vars
  <2>1. UNCHANGED <<types, event, stock, pc, local>>
    BY <1>6 DEF Switch, AcquireExclusiveBarrier, CommitSwitch, AbortSwitch, vars,
       tables
  <2> QED BY <2>1, RowsFrame
<1> QED BY <1>1, <1>2, <1>3, <1>4, <1>5, <1>6 DEF Next

\* Types, modes, locks and stock are as described in every reachable state.
THEOREM RowInvariant == Spec => []RowInv
<1>1. Init => RowInv
  BY TypeInvInit, ModeInvInit, LocksInit, StockInit DEF RowInv
<1>2. RowInv /\ [Next]_vars => RowInv'
  BY TypeInvNext, ModeInvNext, LocksNext, StockNext DEF RowInv
<1> QED BY <1>1, <1>2, PTL DEF Spec

\* The Event row is the sum of the types' rows in every committed state, in both
\* writer modes and across switches, whatever purchases run.
THEOREM ParityHolds == Spec => []MirrorParity
<1>1. RowInv => MirrorParity
  BY DEF RowInv, StockInv
<1> QED BY <1>1, RowInvariant, PTL

-----------------------------------------------------------------------------
(* Versions.                                                               *)

Advanced(old, new) == new = old \/ new.version > old.version

RowsAdvance ==
  /\ types \subseteq types'
  /\ types # {} => Advanced(event, event')
  /\ \A y \in types : Advanced(stock[y], stock'[y])

\* A commit that sells moves every row it changes to a later version.
LEMMA CommitAdvances ==
  ASSUME RowInv, NEW t \in Attempts, pc[t] = "inserted", MakeDurable(t)
  PROVE  RowsAdvance
<1>1. CASE result[t].status = "confirmed"
  <2>1. /\ types' = types /\ chosen[t] \in types
        /\ event'.version = event.version + 1
        /\ stock' = [stock EXCEPT ![chosen[t]] = draftStock[t]]
        /\ draftStock[t].version > stock[chosen[t]].version
    BY <1>1, CommittedSale
  <2>2. event.version \in Nat /\ stock \in [Types -> Inventory]
    BY DEF RowInv, TypeInv, TypeOK, Inventory
  <2> QED BY <2>1, <2>2 DEF RowsAdvance, Advanced
<1>2. CASE result[t].status # "confirmed"
  BY <1>2 DEF MakeDurable, RowsAdvance, Advanced
<1> QED BY <1>1, <1>2

\* Every step, and every stutter, moves the versions of changed rows up.
LEMMA VersionsStep == RowInv /\ [Next]_vars => RowsAdvance
<1> SUFFICES ASSUME RowInv, [Next]_vars PROVE RowsAdvance
  OBVIOUS
<1>1. CASE UNCHANGED <<types, event, stock>>
  BY <1>1 DEF RowsAdvance, Advanced
<1>2. ASSUME NEW t \in Attempts, Proceed(t) \/ Fault(t) PROVE RowsAdvance
  <2>1. CASE Commit(t) \/ CommitReplyLost(t)
    BY <2>1, CommitAdvances DEF Commit, CommitReplyLost
  <2>2. CASE ~(Commit(t) \/ CommitReplyLost(t))
    <3>1. UNCHANGED <<types, event, stock>>
      BY <1>2, <2>2 DEF Proceed, Fault, AcquireSharedBarrier, AcquireRequestLock,
         Replay, Resolve, UpdateActiveInventory, FindSoldOut, MirrorInventory,
         InsertPurchase, LoseInsertRace, RecoverReplay, Rollback, RecoveryFails, tables
    <3> QED BY <1>1, <3>1
  <2> QED BY <2>1, <2>2
<1>3. CASE CreateEvent
  BY <1>3 DEF CreateEvent, RowsAdvance
<1>4. ASSUME NEW y \in Types, AddTicketType(y) PROVE RowsAdvance
  <2>1. event.version \in Nat /\ stock \in [Types -> Inventory]
    BY DEF RowInv, TypeInv, TypeOK, Inventory
  <2>2. /\ y \notin types /\ types' = types \cup {y}
        /\ stock' = [stock EXCEPT ![y] = Fresh(Capacity[y])]
        /\ event'.version = event.version + 1
    BY <1>4 DEF AddTicketType, Aggregate
  <2> QED BY <2>1, <2>2 DEF RowsAdvance, Advanced
<1>5. ASSUME NEW o \in OldAttempts, NEW in \in Input, OldReleasePurchase(o, in)
      PROVE  RowsAdvance
  <2>1. CASE event.remaining >= in.quantity
    <3>1. /\ types = {DefaultType} /\ types' = types
          /\ stock' = [stock EXCEPT ![DefaultType] = event']
          /\ event'.version = event.version + 1
          /\ stock[DefaultType].version <= event.version
      BY <1>5, <2>1, OldReleaseSale
    <3>2. /\ event.version \in Nat /\ stock \in [Types -> Inventory]
          /\ stock[DefaultType].version \in Nat
      BY TypesAssumption DEF RowInv, TypeInv, TypeOK, Inventory
    <3> QED BY <3>1, <3>2 DEF RowsAdvance, Advanced
  <2>2. CASE ~(event.remaining >= in.quantity)
    BY <1>1, <1>5, <2>2 DEF OldReleasePurchase
  <2> QED BY <2>1, <2>2
<1>6. CASE Switch \/ UNCHANGED vars
  BY <1>1, <1>6 DEF Switch, AcquireExclusiveBarrier, CommitSwitch, AbortSwitch, vars,
     tables
<1>7. ASSUME NEW t \in Attempts, NEW in \in Input, Begin(t, in) PROVE RowsAdvance
  BY <1>1, <1>7 DEF Begin, tables
<1> QED BY <1>2, <1>3, <1>4, <1>5, <1>6, <1>7 DEF Next

\* Every committed change of an inventory row of an existing Event moves its
\* version up: what lets a projection order details by version alone.
THEOREM VersionsOnlyAdvance == Spec => VersionsAdvance
<1>1. RowInv /\ [Next]_vars =>
        [types # {} =>
           /\ event' # event => event'.version > event.version
           /\ \A y \in types :
                stock'[y] # stock[y] => stock'[y].version > stock[y].version]_vars
  BY VersionsStep DEF RowsAdvance, Advanced
<1> QED BY <1>1, RowInvariant, PTL DEF Spec, VersionsAdvance

-----------------------------------------------------------------------------
(* The ledger.                                                             *)

\* Rows are of types on sale, and an attempt's row appears when it has ended.
RowsPlaced ==
  \A p \in purchases : /\ p.type \in types
                       /\ p.id \in Attempts => pc[p.id] \in Ended

\* A row waiting for its commit has a key nobody else has decided or awaits.
InsertedKeysFree ==
  \A t \in Attempts : pc[t] = "inserted" =>
    /\ ~KeyCommitted(request[t].key)
    /\ \A u \in Attempts \ {t} :
         pc[u] = "inserted" => request[u].key = NoKey \/ request[u].key # request[t].key

LedgerInv == RowsPlaced /\ InsertedKeysFree /\ OneDecisionPerKey /\ AnswersAreOnRecord

\* An empty ledger and no attempt: nothing to be wrong about.
LEMMA LedgerInit == Init => LedgerInv
BY DEF Init, LedgerInv, RowsPlaced, InsertedKeysFree, OneDecisionPerKey,
       AnswersAreOnRecord, Ended

\* The row an attempt is about to commit.
LEMMA InsertedRow ==
  ASSUME RowInv, NEW t \in Attempts, pc[t] = "inserted"
  PROVE  /\ result[t] \in PurchaseRow
         /\ result[t].id = t /\ result[t].key = request[t].key
         /\ result[t].type = chosen[t] /\ result[t].quantity = request[t].quantity
         /\ result[t].status \in {"confirmed", "rejected"}
         /\ chosen[t] \in types
         /\ request[t].type # NoType => chosen[t] = request[t].type
<1>1. request[t] \in Input /\ chosen[t] \in Types
  BY DEF RowInv, TypeInv, TypeOK, RequestsParsed
<1>2. PICK status \in {"confirmed", "rejected"} : result[t] = NewRow(t, status)
  BY DEF RowInv, TypeInv, InsertedRows
<1>3. /\ chosen[t] \in types
      /\ request[t].type # NoType => chosen[t] = request[t].type
  BY DEF RowInv, ModeInv, ChosenOnSale, ModeRead
<1> QED BY <1>1, <1>2, <1>3 DEF NewRow, PurchaseRow, Input

\* A step of one attempt that adds no row: it tells t nothing, or the stored row
\* of its key, or that this row is for another payload.
LEMMA NoRowStepKeepsLedger ==
  ASSUME RowInv, LedgerInv, NEW t \in Attempts, NEW step \in Steps,
         UNCHANGED <<types, purchases>>, pc[t] \notin Ended,
         pc' = [pc EXCEPT ![t] = step],
         \A u \in Attempts \ {t} : /\ request'[u] = request[u]
                                   /\ result'[u] = result[u],
         step = "inserted" => /\ ~KeyCommitted(request[t].key)
                              /\ ~KeyPending(request[t].key)
                              /\ request' = request,
         step = "created" => FALSE,
         step = "replayed" => /\ request' = request
                              /\ result'[t] \in Existing(t)
                              /\ SamePayload(result'[t], request[t]),
         step = "conflict" => /\ request' = request
                              /\ \E p \in Existing(t) : ~SamePayload(p, request[t])
  PROVE  LedgerInv'
<1>1. \A u \in Attempts : pc'[u] = IF u = t THEN step ELSE pc[u]
  BY DEF RowInv, TypeInv, TypeOK
<1>2. RowsPlaced'
  BY <1>1 DEF LedgerInv, RowsPlaced
<1>3. InsertedKeysFree'
  <2>1. SUFFICES ASSUME NEW u \in Attempts, pc'[u] = "inserted"
                 PROVE  /\ ~KeyCommitted(request[u].key)'
                        /\ \A v \in Attempts \ {u} : pc'[v] = "inserted" =>
                             \/ request'[v].key = NoKey
                             \/ request'[v].key # request'[u].key
    BY DEF InsertedKeysFree
  <2>2. ASSUME step = "inserted", NEW v \in Attempts \ {t}, pc[v] = "inserted"
        PROVE  request[t].key = NoKey \/ request[v].key # request[t].key
    BY <2>2, InsertedRow DEF KeyPending
  <2>3. \A k : KeyCommitted(k)' = KeyCommitted(k)
    BY DEF KeyCommitted
  <2>4. request'[u] = request[u]
    BY <1>1, <2>1
  <2>5. CASE u = t
    BY <1>1, <2>1, <2>2, <2>3, <2>4, <2>5
  <2>6. CASE u # t
    BY <1>1, <2>1, <2>2, <2>3, <2>4, <2>6 DEF LedgerInv, InsertedKeysFree
  <2> QED BY <2>5, <2>6
<1>4. OneDecisionPerKey'
  BY DEF LedgerInv, OneDecisionPerKey
<1>5. AnswersAreOnRecord'
  BY <1>1 DEF LedgerInv, AnswersAreOnRecord, Existing, SamePayload
<1> QED BY <1>2, <1>3, <1>4, <1>5 DEF LedgerInv

\* The commit of a row, with the attempt told of it or not.
LEMMA CommitKeepsLedger ==
  ASSUME RowInv, LedgerInv, NEW t \in Attempts, pc[t] = "inserted", MakeDurable(t),
         End(t, "created", result[t]) \/ End(t, "failed", NoRow)
  PROVE  LedgerInv'
<1> DEFINE r == result[t]
<1>1. /\ purchases' = purchases \cup {r} /\ types' = types /\ request' = request
      /\ \A u \in Attempts \ {t} : pc'[u] = pc[u] /\ result'[u] = result[u]
      /\ \/ pc'[t] = "created" /\ result'[t] = r
         \/ pc'[t] = "failed"
  BY DEF MakeDurable, End, RowInv, TypeInv, TypeOK
<1>2. /\ r.id = t /\ r.key = request[t].key
      /\ r.type = chosen[t] /\ r.quantity = request[t].quantity
      /\ chosen[t] \in types
      /\ request[t].type # NoType => chosen[t] = request[t].type
  BY InsertedRow
<1> HIDE DEF r
<1>3. RowsPlaced'
  BY <1>1, <1>2 DEF LedgerInv, RowsPlaced, Ended
<1>4. InsertedKeysFree'
  BY <1>1, <1>2 DEF LedgerInv, InsertedKeysFree, KeyCommitted
<1>5. OneDecisionPerKey'
  BY <1>1, <1>2 DEF LedgerInv, InsertedKeysFree, OneDecisionPerKey, KeyCommitted
<1>6. AnswersAreOnRecord'
  BY <1>1, <1>2 DEF LedgerInv, AnswersAreOnRecord
<1> QED BY <1>3, <1>4, <1>5, <1>6 DEF LedgerInv

\* Each step of an attempt keeps what the ledger says of keys and answers.
LEMMA AttemptKeepsLedger ==
  ASSUME RowInv, LedgerInv, NEW t \in Attempts, Proceed(t) \/ Fault(t)
  PROVE  LedgerInv'
<1> USE DEF RowInv, TypeInv, TypeOK
<1>1. CASE Commit(t) \/ CommitReplyLost(t)
  BY <1>1, CommitKeepsLedger DEF Commit, CommitReplyLost
<1>2. CASE Replay(t) \/ RecoverReplay(t)
  <2>1. PICK p \in Existing(t) : IF SamePayload(p, request[t])
                                 THEN End(t, "replayed", p)
                                 ELSE End(t, "conflict", NoRow)
    BY <1>2 DEF Replay, RecoverReplay
  <2>2. UNCHANGED <<types, purchases>> /\ pc[t] \notin Ended
    BY <1>2 DEF Replay, RecoverReplay, tables, Ended
  <2>3. CASE SamePayload(p, request[t])
    BY <2>1, <2>2, <2>3, NoRowStepKeepsLedger DEF End, Steps, Ended
  <2>4. CASE ~SamePayload(p, request[t])
    BY <2>1, <2>2, <2>4, NoRowStepKeepsLedger DEF End, Steps, Ended
  <2> QED BY <2>3, <2>4
<1>3. CASE InsertPurchase(t)
  BY <1>3, NoRowStepKeepsLedger DEF InsertPurchase, tables, Steps, InTransaction,
     Admitted, ModeRead, Ended
<1>4. CASE LoseInsertRace(t) \/ Rollback(t) \/ RecoveryFails(t)
  <2>1. PICK how \in {"violated", "failed"} : End(t, how, NoRow)
    BY <1>4 DEF LoseInsertRace, Rollback, RecoveryFails
  <2>2. UNCHANGED <<types, purchases>> /\ pc[t] \notin Ended
    BY <1>4 DEF LoseInsertRace, Rollback, RecoveryFails, tables, Ended,
       InTransaction, Admitted, ModeRead
  <2> QED BY <2>1, <2>2, NoRowStepKeepsLedger DEF End, Steps, Ended
<1>5. CASE Resolve(t)
  <2>1. PICK step \in {"failed", "resolved"} :
          /\ pc' = [pc EXCEPT ![t] = step] /\ request' = request
          /\ \A u \in Attempts \ {t} : result'[u] = result[u]
    BY <1>5 DEF Resolve, End
  <2>2. UNCHANGED <<types, purchases>> /\ pc[t] \notin Ended
    BY <1>5 DEF Resolve, tables, Ended
  <2> QED BY <2>1, <2>2, NoRowStepKeepsLedger DEF Steps, InTransaction, Admitted,
             ModeRead, Ended
<1>6. CASE \/ AcquireSharedBarrier(t) \/ AcquireRequestLock(t) \/ FindSoldOut(t)
           \/ UpdateActiveInventory(t) \/ MirrorInventory(t)
  <2>1. PICK step \in {"admitted", "serialized", "updated", "soldout", "mirrored"} :
          /\ pc' = [pc EXCEPT ![t] = step] /\ UNCHANGED <<request, result>>
    BY <1>6 DEF AcquireSharedBarrier, AcquireRequestLock, FindSoldOut,
       UpdateActiveInventory, MirrorInventory, local
  <2>2. UNCHANGED <<types, purchases>> /\ pc[t] \notin Ended
    BY <1>6 DEF AcquireSharedBarrier, AcquireRequestLock, FindSoldOut,
       UpdateActiveInventory, MirrorInventory, tables, Ended
  <2> QED BY <2>1, <2>2, NoRowStepKeepsLedger DEF Steps, InTransaction, Admitted,
             ModeRead, Ended
<1> QED BY <1>1, <1>2, <1>3, <1>4, <1>5, <1>6 DEF Proceed, Fault

\* So does every step of the system.
LEMMA LedgerNext == RowInv /\ LedgerInv /\ [Next]_vars => LedgerInv'
<1> SUFFICES ASSUME RowInv, LedgerInv, [Next]_vars PROVE LedgerInv'
  OBVIOUS
<1>1. ASSUME NEW t \in Attempts, Proceed(t) \/ Fault(t) PROVE LedgerInv'
  BY <1>1, AttemptKeepsLedger
<1>2. ASSUME NEW t \in Attempts, NEW in \in Input, Begin(t, in) PROVE LedgerInv'
  BY <1>2, NoRowStepKeepsLedger DEF Begin, tables, Steps, InTransaction, Ended,
     RowInv, TypeInv, TypeOK
<1>3. ASSUME NEW o \in OldAttempts, NEW in \in Input, OldReleasePurchase(o, in)
      PROVE  LedgerInv'
  <2> DEFINE status == IF event.remaining >= in.quantity THEN "confirmed" ELSE "rejected"
             r == [id |-> o, key |-> in.key, type |-> DefaultType,
                   quantity |-> in.quantity, status |-> status]
  <2>1. /\ purchases' = purchases \cup {r} /\ r.id = o
        /\ r.key = in.key /\ r.type = DefaultType
    BY <1>3 DEF OldReleasePurchase
  <2> HIDE DEF r
  <2>2. /\ ~KeyCommitted(in.key) /\ ~KeyPending(in.key)
        /\ types # {} /\ types' = types
        /\ UNCHANGED <<pc, request, result>>
    BY <1>3 DEF OldReleasePurchase, local
  <2>3. DefaultType \in types /\ o \notin Attempts
    BY <2>2, AttemptsAssumption DEF RowInv, ModeInv, OnSale
  <2>4. RowsPlaced' /\ OneDecisionPerKey'
    BY <2>1, <2>2, <2>3 DEF LedgerInv, RowsPlaced, OneDecisionPerKey, KeyCommitted
  <2>5. InsertedKeysFree'
    <3>1. \A t \in Attempts : pc[t] = "inserted" =>
             in.key = NoKey \/ request[t].key # in.key
      BY <2>2, InsertedRow DEF KeyPending
    <3> QED BY <2>1, <2>2, <3>1 DEF LedgerInv, InsertedKeysFree, KeyCommitted
  <2>6. AnswersAreOnRecord'
    BY <2>1, <2>2 DEF LedgerInv, AnswersAreOnRecord
  <2> QED BY <2>4, <2>5, <2>6 DEF LedgerInv
<1>4. ASSUME types \subseteq types', UNCHANGED <<purchases, pc, request, result>>
      PROVE  LedgerInv'
  BY <1>4 DEF LedgerInv, RowsPlaced, InsertedKeysFree, OneDecisionPerKey,
     AnswersAreOnRecord, KeyCommitted
<1>5. CASE CreateEvent \/ Switch \/ UNCHANGED vars
  BY <1>4, <1>5 DEF CreateEvent, Switch, AcquireExclusiveBarrier, CommitSwitch,
     AbortSwitch, vars, tables, local
<1>6. ASSUME NEW y \in Types, AddTicketType(y) PROVE LedgerInv'
  BY <1>4, <1>6 DEF AddTicketType, local
<1> QED BY <1>1, <1>2, <1>3, <1>5, <1>6 DEF Next

\* The rows and the ledger are as described in every reachable state.
THEOREM LedgerInvariant == Spec => [](RowInv /\ LedgerInv)
<1>1. Init => LedgerInv
  BY LedgerInit
<1>2. RowInv /\ LedgerInv /\ [Next]_vars => LedgerInv'
  BY LedgerNext
<1> QED BY <1>1, <1>2, RowInvariant, PTL DEF Spec

\* A request key is decided once, by this release or the previous one.
THEOREM KeysDecidedOnce == Spec => []OneDecisionPerKey
<1>1. LedgerInv => OneDecisionPerKey
  BY DEF LedgerInv
<1> QED BY <1>1, LedgerInvariant, PTL

\* Every answer is on record: the attempt's own row, the row that decided its
\* key for the same payload, or a 409 when that row has another payload.
THEOREM AnswersRecorded == Spec => []AnswersAreOnRecord
<1>1. LedgerInv => AnswersAreOnRecord
  BY DEF LedgerInv
<1> QED BY <1>1, LedgerInvariant, PTL

-----------------------------------------------------------------------------
(* InventoryChanged details.                                               *)

ChangesInv == ChangesAgree /\ \A c \in changes : c.type \in types

\* With rows that only advance, the details sent so far stay consistent.
LEMMA SameChangesAgree ==
  ASSUME RowInv, RowInv', ChangesInv, RowsAdvance
  PROVE  \A c \in changes :
              /\ c.type \in types'
              /\ c.event.version <= event'.version
              /\ c.event.version = event'.version => c.event = event'
              /\ c.stock.version <= stock'[c.type].version
              /\ c.stock.version = stock'[c.type].version => c.stock = stock'[c.type]
<1> SUFFICES ASSUME NEW c \in changes
             PROVE  /\ c.type \in types'
                    /\ c.event.version <= event'.version
                    /\ c.event.version = event'.version => c.event = event'
                    /\ c.stock.version <= stock'[c.type].version
                    /\ c.stock.version = stock'[c.type].version =>
                         c.stock = stock'[c.type]
  OBVIOUS
<1>1. /\ c.type \in types /\ c.type \in Types
      /\ c.event.version <= event.version
      /\ c.event.version = event.version => c.event = event
      /\ c.stock.version <= stock[c.type].version
      /\ c.stock.version = stock[c.type].version => c.stock = stock[c.type]
  BY DEF ChangesInv, ChangesAgree, RowInv, TypeInv, TypeOK
<1>2. /\ Advanced(event, event') /\ types \subseteq types'
      /\ Advanced(stock[c.type], stock'[c.type])
  BY <1>1 DEF RowsAdvance
<1>3. /\ c.event.version \in Nat /\ c.stock.version \in Nat
      /\ event.version \in Nat /\ stock[c.type].version \in Nat
  BY <1>1 DEF RowInv, TypeInv, TypeOK, Change, Inventory
<1>4. event'.version \in Nat /\ stock'[c.type].version \in Nat
  BY <1>1 DEF RowInv, TypeInv, TypeOK, Inventory
<1> QED BY <1>1, <1>2, <1>3, <1>4 DEF Advanced

\* The detail of a confirmed commit is newer than every detail before it.
LEMMA NewChangeAgrees ==
  ASSUME RowInv, RowInv', ChangesInv, NEW t \in Attempts, pc[t] = "inserted",
         MakeDurable(t), result[t].status = "confirmed",
         changes' = changes \cup {ChangeOf(t)}
  PROVE  ChangesInv'
<1> DEFINE c == ChangeOf(t)
           y == chosen[t]
<1>1. /\ types' = types /\ y \in types /\ y \in Types
      /\ event' = draftEvent[t] /\ event'.version = event.version + 1
      /\ stock' = [stock EXCEPT ![y] = draftStock[t]]
      /\ draftStock[t].version > stock[y].version
  BY CommittedSale DEF RowInv, TypeInv, TypeOK
<1>2. /\ changes' = changes \cup {c}
      /\ c.type = y /\ c.event = event' /\ c.stock = stock'[y]
  BY <1>1 DEF ChangeOf, MakeDurable
<1> HIDE DEF c
<1>3. RowsAdvance
  BY CommitAdvances
<1>4. /\ event.version \in Nat /\ event'.version \in Nat
      /\ stock[y].version \in Nat /\ stock'[y].version \in Nat
      /\ stock'[y].version > stock[y].version
  BY <1>1 DEF RowInv, TypeInv, TypeOK, Inventory
<1>5. ASSUME NEW d \in changes
      PROVE  /\ d.event.version < c.event.version
             /\ d.type = y => d.stock.version < c.stock.version
  <2>1. /\ d.event.version <= event.version
        /\ d.stock.version <= stock[d.type].version
        /\ d.event.version \in Nat /\ d.stock.version \in Nat
    BY DEF ChangesInv, ChangesAgree, RowInv, TypeInv, TypeOK, Change, Inventory
  <2> QED BY <1>1, <1>2, <1>4, <2>1
<1>6. \A d \in changes : d.event.version \in Nat /\ d.stock.version \in Nat
  BY DEF RowInv, TypeInv, TypeOK, Change, Inventory
<1>7. \A d, e \in changes' :
        /\ d.event.version = e.event.version => d.event = e.event
        /\ d.type = e.type /\ d.stock.version = e.stock.version => d.stock = e.stock
  BY <1>2, <1>4, <1>5, <1>6 DEF ChangesInv, ChangesAgree
<1>8. \A d \in changes' :
        /\ d.type \in types'
        /\ d.event.version <= event'.version
        /\ d.event.version = event'.version => d.event = event'
        /\ d.stock.version <= stock'[d.type].version
        /\ d.stock.version = stock'[d.type].version => d.stock = stock'[d.type]
  <2>1. ASSUME NEW d \in changes
        PROVE  /\ d.type \in types'
               /\ d.event.version <= event'.version
               /\ d.event.version = event'.version => d.event = event'
               /\ d.stock.version <= stock'[d.type].version
               /\ d.stock.version = stock'[d.type].version =>
                    d.stock = stock'[d.type]
    BY <1>3, SameChangesAgree
  <2> QED BY <1>1, <1>2, <1>4, <2>1
<1> QED BY <1>7, <1>8 DEF ChangesInv, ChangesAgree

\* Every step keeps the details sent so far consistent with the tables.
LEMMA ChangesNext ==
  RowInv /\ RowInv' /\ ChangesInv /\ [Next]_vars => ChangesInv'
<1> SUFFICES ASSUME RowInv, RowInv', ChangesInv, [Next]_vars PROVE ChangesInv'
  OBVIOUS
<1>1. RowsAdvance
  BY VersionsStep
<1>2. CASE changes' = changes
  BY <1>1, <1>2, SameChangesAgree DEF ChangesInv, ChangesAgree
<1>3. CASE changes' # changes
  <2>1. PICK t \in Attempts : Commit(t)
    BY <1>3 DEF Next, Proceed, Fault, Switch, Begin, AcquireSharedBarrier,
       AcquireRequestLock, Replay, Resolve, UpdateActiveInventory, FindSoldOut,
       MirrorInventory, InsertPurchase, LoseInsertRace, RecoverReplay,
       CommitReplyLost, Rollback, RecoveryFails, CreateEvent, AddTicketType,
       OldReleasePurchase, AcquireExclusiveBarrier, CommitSwitch, AbortSwitch, vars
  <2> QED BY <1>3, <2>1, NewChangeAgrees DEF Commit
<1> QED BY <1>2, <1>3

\* No two InventoryChanged details with one version disagree, and none outruns
\* or contradicts the committed rows: versions alone order a projection.
THEOREM ChangesConsistent == Spec => []ChangesAgree
<1>1. Init => ChangesInv
  BY DEF Init, ChangesInv, ChangesAgree
<1>2. ChangesInv => ChangesAgree
  BY DEF ChangesInv
<1>3. RowInv /\ RowInv' /\ ChangesInv /\ [Next]_vars => ChangesInv'
  BY ChangesNext
<1> QED BY <1>1, <1>2, <1>3, RowInvariant, PTL DEF Spec

-----------------------------------------------------------------------------
(* The abstract sale.                                                      *)

left == [y \in Types |-> stock[y].remaining]

\* The ledger rows of the abstract sale are the rows of purchases.
LEMMA SaleRows == Sale!LedgerRow = PurchaseRow
BY DEF Sale!LedgerRow, PurchaseRow

\* A step that adds row r, sold or refused, is a purchase of the abstract sale.
LEMMA RowIsDecision ==
  ASSUME RowInv, LedgerInv, NEW r \in PurchaseRow,
         purchases' = purchases \cup {r}, types' = types, r.type \in types,
         \A p \in purchases : p.id # r.id, ~KeyCommitted(r.key),
         IF r.status = "confirmed"
         THEN /\ r.quantity <= stock[r.type].remaining
              /\ left' = [left EXCEPT ![r.type] = @ - r.quantity]
         ELSE r.quantity > stock[r.type].remaining /\ left' = left
  PROVE  Sale!Next
<1>1. r \in Sale!LedgerRow /\ r.type \in Types
  BY SaleRows DEF PurchaseRow
<1>2. Sale!KeyFree(r.key)
  BY DEF Sale!KeyFree, KeyCommitted
<1>3. Sale!Record(r)
  BY <1>2 DEF Sale!Record
<1>4. left[r.type] = stock[r.type].remaining
  BY <1>1 DEF left
<1>5. CASE r.status = "confirmed"
  BY <1>1, <1>3, <1>4, <1>5 DEF Sale!Next, Sale!Sell, left
<1>6. CASE r.status # "confirmed"
  BY <1>1, <1>3, <1>4, <1>6 DEF Sale!Next, Sale!TurnDown, left, PurchaseRow
<1> QED BY <1>5, <1>6

\* The COMMIT of an attempt, reply lost or not, is a purchase of the sale.
LEMMA CommitIsDecision ==
  ASSUME RowInv, LedgerInv, NEW t \in Attempts, pc[t] = "inserted", MakeDurable(t)
  PROVE  Sale!Next
<1> DEFINE r == result[t]
<1>1. /\ r \in PurchaseRow /\ r.id = t /\ r.key = request[t].key
      /\ r.type = chosen[t] /\ r.quantity = request[t].quantity
      /\ r.status \in {"confirmed", "rejected"} /\ chosen[t] \in types
  BY InsertedRow
<1>2. purchases' = purchases \cup {r} /\ types' = types
  BY DEF MakeDurable
<1>3. \A p \in purchases : p.id # r.id
  BY <1>1 DEF LedgerInv, RowsPlaced, Ended
<1>4. ~KeyCommitted(r.key)
  BY <1>1 DEF LedgerInv, InsertedKeysFree
<1>5. /\ chosen[t] \in Types /\ stock \in [Types -> Inventory]
      /\ request[t].quantity \in Nat /\ stock[chosen[t]].remaining \in Nat
  BY QuantityIsNat, CapacityAssumption DEF RowInv, TypeInv, TypeOK, Inventory
<1>6. CASE r.status = "confirmed"
  <2>1. /\ stock[chosen[t]].remaining >= request[t].quantity
        /\ stock' = [stock EXCEPT ![chosen[t]] = draftStock[t]]
        /\ draftStock[t].remaining = stock[chosen[t]].remaining - request[t].quantity
    BY <1>6, CommittedSale
  <2>2. left' = [left EXCEPT ![r.type] = @ - r.quantity]
    BY <1>1, <1>5, <2>1 DEF left
  <2> HIDE DEF r
  <2> QED BY <1>1, <1>2, <1>3, <1>4, <1>5, <1>6, <2>1, <2>2, RowIsDecision
<1>7. CASE r.status # "confirmed"
  <2>1. stock' = stock /\ left' = left
    BY <1>7 DEF MakeDurable, left
  <2>2. stock[chosen[t]].remaining < request[t].quantity
    BY <1>1, <1>7 DEF RowInv, StockInv, Drafts, Refusal
  <2> HIDE DEF r
  <2> QED BY <1>1, <1>2, <1>3, <1>4, <1>5, <1>7, <2>1, <2>2, RowIsDecision
<1> QED BY <1>6, <1>7

\* Every step of the transactions is a step of the abstract sale or none.
LEMMA StepImplementsSale ==
  RowInv /\ LedgerInv /\ [Next]_vars => [Sale!Next]_(Sale!saleVars)
<1> SUFFICES ASSUME RowInv, LedgerInv, [Next]_vars
             PROVE  Sale!Next \/ UNCHANGED Sale!saleVars
  OBVIOUS
<1>1. CASE UNCHANGED <<types, stock, purchases>>
  BY <1>1 DEF Sale!saleVars
<1>2. ASSUME NEW t \in Attempts, Proceed(t) \/ Fault(t)
      PROVE  Sale!Next \/ UNCHANGED <<types, stock, purchases>>
  <2>1. CASE Commit(t) \/ CommitReplyLost(t)
    BY <2>1, CommitIsDecision DEF Commit, CommitReplyLost
  <2>2. CASE ~(Commit(t) \/ CommitReplyLost(t))
    BY <1>2, <2>2 DEF Proceed, Fault, AcquireSharedBarrier, AcquireRequestLock,
       Replay, Resolve, UpdateActiveInventory, FindSoldOut, MirrorInventory,
       InsertPurchase, LoseInsertRace, RecoverReplay, Rollback, RecoveryFails, tables
  <2> QED BY <2>1, <2>2
<1>3. ASSUME NEW y \in Types, y \notin types, types' = types \cup {y},
             stock' = [stock EXCEPT ![y] = Fresh(Capacity[y])], purchases' = purchases
      PROVE  Sale!Next
  <2>1. stock \in [Types -> Inventory] /\ Fresh(Capacity[y]).remaining = Capacity[y]
    BY DEF RowInv, TypeInv, TypeOK, Fresh
  <2>2. left' = [left EXCEPT ![y] = Capacity[y]]
    BY <1>3, <2>1 DEF left
  <2>3. Capacity[y] \in {Capacity[x] : x \in Types}
    OBVIOUS
  <2>4. Sale!Offer(y, Capacity[y])
    BY <1>3, <2>2 DEF Sale!Offer, left
  <2> QED BY <2>3, <2>4 DEF Sale!Next
<1>4. CASE CreateEvent
  BY <1>3, <1>4, TypesAssumption DEF CreateEvent
<1>5. ASSUME NEW y \in Types, AddTicketType(y) PROVE Sale!Next
  BY <1>3, <1>5 DEF AddTicketType
<1>6. ASSUME NEW o \in OldAttempts, NEW in \in Input, OldReleasePurchase(o, in)
      PROVE  Sale!Next
  <2> DEFINE status == IF event.remaining >= in.quantity THEN "confirmed" ELSE "rejected"
             r == [id |-> o, key |-> in.key, type |-> DefaultType,
                   quantity |-> in.quantity, status |-> status]
  <2>1. /\ purchases' = purchases \cup {r} /\ types' = types /\ mode = "legacy"
        /\ \A p \in purchases : p.id # o
        /\ ~KeyCommitted(in.key) /\ types # {}
    BY <1>6 DEF OldReleasePurchase
  <2>2. r \in PurchaseRow
    BY TypesAssumption DEF PurchaseRow, Input
  <2>3. types = {DefaultType} /\ event.remaining = stock[DefaultType].remaining
    <3>1. types = {DefaultType}
      BY <2>1 DEF RowInv, ModeInv, OnSale
    <3> QED BY <2>1, <3>1, LegacyParity
  <2>4. /\ stock \in [Types -> Inventory] /\ in.quantity \in Nat
        /\ event.remaining \in Nat
    <3>1. in.quantity \in Nat
      BY QuantitiesAssumption DEF Input
    <3> QED BY <3>1, CapacityAssumption DEF RowInv, TypeInv, TypeOK, Inventory
  <2>5. CASE event.remaining >= in.quantity
    <3>1. /\ stock' = [stock EXCEPT ![DefaultType] = event']
          /\ event'.remaining = event.remaining - in.quantity
      BY <1>6, <2>5, OldReleaseSale
    <3>2. left' = [left EXCEPT ![DefaultType] = @ - in.quantity]
      BY <2>3, <2>4, <3>1, TypesAssumption DEF left
    <3>3. /\ r.type = DefaultType /\ r.quantity = in.quantity /\ r.id = o
          /\ r.key = in.key /\ r.status = "confirmed"
      BY <2>5
    <3> HIDE DEF r
    <3> QED BY <2>1, <2>2, <2>3, <2>4, <2>5, <3>2, <3>3, RowIsDecision
  <2>6. CASE ~(event.remaining >= in.quantity)
    <3>1. stock' = stock /\ left' = left
      BY <1>6, <2>6 DEF OldReleasePurchase, left
    <3>2. /\ r.type = DefaultType /\ r.quantity = in.quantity /\ r.id = o
          /\ r.key = in.key /\ r.status = "rejected"
      BY <2>6
    <3> HIDE DEF r
    <3> QED BY <2>1, <2>2, <2>3, <2>4, <2>6, <3>1, <3>2, RowIsDecision
  <2> QED BY <2>5, <2>6
<1>7. ASSUME NEW t \in Attempts, NEW in \in Input, Begin(t, in)
      PROVE  UNCHANGED <<types, stock, purchases>>
  BY <1>7 DEF Begin, tables
<1>8. CASE Switch \/ UNCHANGED vars
  BY <1>1, <1>8 DEF Switch, AcquireExclusiveBarrier, CommitSwitch, AbortSwitch, vars,
     tables
<1> QED BY <1>1, <1>2, <1>4, <1>5, <1>6, <1>7, <1>8 DEF Next

\* The transactions implement the abstract sale: one ledger row per decision,
\* sold from stock that could serve it or refused when it could not.
THEOREM SaleImplemented == Spec => ImplementsSale
<1>1. Init => Sale!Init
  BY DEF Init, Sale!Init, EmptyInventory
<1>2. RowInv /\ LedgerInv /\ [Next]_vars => [Sale!Next]_(Sale!saleVars)
  BY StepImplementsSale
<1> QED BY <1>1, <1>2, LedgerInvariant, PTL DEF Spec, ImplementsSale, Sale!Spec

-----------------------------------------------------------------------------
(* No oversell.                                                            *)

QuantityOf(rows) == SumFunction([p \in rows |-> p.quantity])

\* One more row adds its own quantity to what has been sold.
LEMMA QuantityOfOneMore ==
  ASSUME NEW rows \in SUBSET PurchaseRow, IsFiniteSet(rows),
         NEW r \in PurchaseRow, r \notin rows
  PROVE  /\ QuantityOf(rows) \in Nat
         /\ QuantityOf(rows \cup {r}) = r.quantity + QuantityOf(rows)
<1> DEFINE more == rows \cup {r}
           f == [p \in more |-> p.quantity]
<1>1. IsFiniteSet(more) /\ more \ {r} = rows /\ r \in more
  BY FS_AddElement
<1>2. \A p \in PurchaseRow : p.quantity \in Nat
  BY QuantitiesAssumption DEF PurchaseRow
<1>3. f \in [more -> Nat] /\ [p \in rows |-> p.quantity] \in [rows -> Nat]
  BY <1>2
<1>4. /\ f[r] = r.quantity
      /\ [p \in more \ {r} |-> f[p]] = [p \in rows |-> p.quantity]
  BY <1>1
<1> HIDE DEF f
<1>5. SumFunction(f) = f[r] + SumFunction([p \in more \ {r} |-> f[p]])
  BY <1>1, <1>3, SumTakeOut
<1>6. QuantityOf(rows) \in Nat
  BY <1>3, SumTakeOut DEF QuantityOf
<1> QED BY <1>4, <1>5, <1>6 DEF QuantityOf, f

StockLedgerInv == StockMatchesLedger /\ IsFiniteSet(purchases)

\* The confirmed rows of a type are finitely many and have natural quantities.
LEMMA ConfirmedRows ==
  ASSUME RowInv, IsFiniteSet(purchases), NEW y
  PROVE  /\ Confirmed(y) \in SUBSET PurchaseRow /\ IsFiniteSet(Confirmed(y))
         /\ SoldOf(y) = QuantityOf(Confirmed(y))
<1>1. Confirmed(y) \in SUBSET purchases
  BY DEF Confirmed
<1> QED BY <1>1, FS_Subset DEF SoldOf, QuantityOf, RowInv, TypeInv, TypeOK

\* A new row of the ledger that leaves the stock as it should be.
LEMMA RowKeepsStockLedger ==
  ASSUME RowInv, StockLedgerInv, NEW r \in PurchaseRow, r \notin purchases,
         purchases' = purchases \cup {r}, types' = types, r.type \in types,
         IF r.status = "confirmed"
         THEN /\ r.quantity <= stock[r.type].remaining
              /\ stock'[r.type].total = stock[r.type].total
              /\ stock'[r.type].remaining = stock[r.type].remaining - r.quantity
              /\ \A y \in types \ {r.type} : stock'[y] = stock[y]
         ELSE stock' = stock
  PROVE  StockLedgerInv'
<1>1. IsFiniteSet(purchases')
  BY FS_AddElement DEF StockLedgerInv
<1>2. ASSUME NEW y \in types
      PROVE  stock'[y].remaining + SoldOf(y)' = stock'[y].total
  <2>1. /\ Confirmed(y) \in SUBSET PurchaseRow /\ IsFiniteSet(Confirmed(y))
        /\ SoldOf(y) = QuantityOf(Confirmed(y)) /\ r \notin Confirmed(y)
    BY ConfirmedRows DEF StockLedgerInv, Confirmed
  <2>2. SoldOf(y)' = QuantityOf(Confirmed(y)')
    BY DEF SoldOf, QuantityOf
  <2>3. /\ QuantityOf(Confirmed(y)) \in Nat
        /\ QuantityOf(Confirmed(y) \cup {r}) = r.quantity + QuantityOf(Confirmed(y))
    BY <2>1, QuantityOfOneMore
  <2>4. stock[y].remaining + SoldOf(y) = stock[y].total
    BY DEF StockLedgerInv, StockMatchesLedger
  <2>5. /\ stock[y].remaining \in Nat /\ stock[y].total \in Nat /\ r.quantity \in Nat
    <3>1. y \in Types
      BY DEF RowInv, TypeInv, TypeOK
    <3>2. r.quantity \in Nat
      BY QuantitiesAssumption DEF PurchaseRow
    <3> QED BY <3>1, <3>2, CapacityAssumption DEF RowInv, TypeInv, TypeOK, Inventory
  <2>6. CASE r.status = "confirmed" /\ r.type = y
    <3>1. Confirmed(y)' = Confirmed(y) \cup {r}
      BY <2>6 DEF Confirmed
    <3> QED BY <2>1, <2>2, <2>3, <2>4, <2>5, <2>6, <3>1
  <2>7. CASE ~(r.status = "confirmed" /\ r.type = y)
    <3>1. Confirmed(y)' = Confirmed(y) /\ stock'[y] = stock[y]
      BY <2>7 DEF Confirmed
    <3> QED BY <2>1, <2>2, <2>4, <3>1
  <2> QED BY <2>6, <2>7
<1> QED BY <1>1, <1>2 DEF StockLedgerInv, StockMatchesLedger

\* A COMMIT takes out of the stock what its row sells.
LEMMA CommitKeepsStockLedger ==
  ASSUME RowInv, LedgerInv, StockLedgerInv, NEW t \in Attempts, pc[t] = "inserted",
         MakeDurable(t)
  PROVE  StockLedgerInv'
<1> DEFINE r == result[t]
<1>1. /\ r \in PurchaseRow /\ r.id = t
      /\ r.type = chosen[t] /\ r.quantity = request[t].quantity
      /\ chosen[t] \in types
  BY InsertedRow
<1>2. purchases' = purchases \cup {r} /\ types' = types
  BY DEF MakeDurable
<1>3. r \notin purchases
  BY <1>1 DEF LedgerInv, RowsPlaced, Ended
<1>4. CASE r.status = "confirmed"
  <2>1. /\ stock[chosen[t]].remaining >= request[t].quantity
        /\ stock' = [stock EXCEPT ![chosen[t]] = draftStock[t]]
        /\ draftStock[t].total = stock[chosen[t]].total
        /\ draftStock[t].remaining = stock[chosen[t]].remaining - request[t].quantity
    BY <1>4, CommittedSale
  <2>2. /\ chosen[t] \in Types /\ stock \in [Types -> Inventory]
        /\ request[t].quantity \in Nat /\ stock[chosen[t]].remaining \in Nat
        /\ types \subseteq Types
    BY QuantityIsNat, CapacityAssumption DEF RowInv, TypeInv, TypeOK, Inventory
  <2>3. request[t].quantity <= stock[chosen[t]].remaining
    BY <2>1, <2>2
  <2>4. /\ stock'[chosen[t]] = draftStock[t]
        /\ \A y \in types \ {chosen[t]} : stock'[y] = stock[y]
    BY <2>1, <2>2
  <2> HIDE DEF r
  <2> QED BY <1>1, <1>2, <1>3, <1>4, <2>1, <2>3, <2>4, RowKeepsStockLedger
<1>5. CASE r.status # "confirmed"
  <2>1. stock' = stock
    BY <1>5 DEF MakeDurable
  <2> HIDE DEF r
  <2> QED BY <1>1, <1>2, <1>3, <1>5, <2>1, RowKeepsStockLedger
<1> QED BY <1>4, <1>5

\* A type that goes on sale has sold nothing.
LEMMA NewTypeKeepsStockLedger ==
  ASSUME RowInv, LedgerInv, StockLedgerInv, NEW y \in Types, y \notin types,
         types' = types \cup {y}, purchases' = purchases,
         stock' = [stock EXCEPT ![y] = Fresh(Capacity[y])]
  PROVE  StockLedgerInv'
<1>1. Confirmed(y) = {}
  BY DEF Confirmed, LedgerInv, RowsPlaced
<1>2. SoldOf(y) = 0
  <2>1. [p \in Confirmed(y) |-> p.quantity] \in [{} -> Nat]
    BY <1>1
  <2> QED BY <2>1, SumOfNone DEF SoldOf
<1>3. \A x : SoldOf(x)' = SoldOf(x)
  BY DEF SoldOf, Confirmed
<1>4. /\ stock'[y] = Fresh(Capacity[y])
      /\ \A x \in types : stock'[x] = stock[x]
  BY DEF RowInv, TypeInv, TypeOK
<1>5. /\ stock'[y].remaining = Capacity[y] /\ stock'[y].total = Capacity[y]
      /\ Capacity[y] \in Nat
  BY <1>4, CapacityAssumption DEF Fresh
<1>6. \A x \in types' : stock'[x].remaining + SoldOf(x)' = stock'[x].total
  BY <1>2, <1>3, <1>4, <1>5 DEF StockLedgerInv, StockMatchesLedger
<1> QED BY <1>6 DEF StockLedgerInv, StockMatchesLedger

\* Every step keeps stock and ledger in balance.
LEMMA StockLedgerNext ==
  RowInv /\ LedgerInv /\ StockLedgerInv /\ [Next]_vars => StockLedgerInv'
<1> SUFFICES ASSUME RowInv, LedgerInv, StockLedgerInv, [Next]_vars
             PROVE  StockLedgerInv'
  OBVIOUS
<1>1. CASE UNCHANGED <<types, stock, purchases>>
  BY <1>1 DEF StockLedgerInv, StockMatchesLedger, SoldOf, Confirmed
<1>2. ASSUME NEW t \in Attempts, Proceed(t) \/ Fault(t) PROVE StockLedgerInv'
  <2>1. CASE Commit(t) \/ CommitReplyLost(t)
    BY <2>1, CommitKeepsStockLedger DEF Commit, CommitReplyLost
  <2>2. CASE ~(Commit(t) \/ CommitReplyLost(t))
    <3>1. UNCHANGED <<types, stock, purchases>>
      BY <1>2, <2>2 DEF Proceed, Fault, AcquireSharedBarrier, AcquireRequestLock,
         Replay, Resolve, UpdateActiveInventory, FindSoldOut, MirrorInventory,
         InsertPurchase, LoseInsertRace, RecoverReplay, Rollback, RecoveryFails, tables
    <3> QED BY <1>1, <3>1
  <2> QED BY <2>1, <2>2
<1>3. CASE CreateEvent
  BY <1>3, NewTypeKeepsStockLedger, TypesAssumption DEF CreateEvent
<1>4. ASSUME NEW y \in Types, AddTicketType(y) PROVE StockLedgerInv'
  BY <1>4, NewTypeKeepsStockLedger DEF AddTicketType
<1>5. ASSUME NEW o \in OldAttempts, NEW in \in Input, OldReleasePurchase(o, in)
      PROVE  StockLedgerInv'
  <2> DEFINE status == IF event.remaining >= in.quantity THEN "confirmed" ELSE "rejected"
             r == [id |-> o, key |-> in.key, type |-> DefaultType,
                   quantity |-> in.quantity, status |-> status]
  <2>1. /\ purchases' = purchases \cup {r} /\ types' = types
        /\ r \notin purchases /\ types # {}
    BY <1>5 DEF OldReleasePurchase
  <2>2. r \in PurchaseRow /\ r.type = DefaultType /\ r.quantity = in.quantity
    BY TypesAssumption DEF PurchaseRow, Input
  <2>3. DefaultType \in types
    BY <2>1 DEF RowInv, ModeInv, OnSale
  <2>4. CASE event.remaining >= in.quantity
    <3>1. /\ types = {DefaultType}
          /\ stock' = [stock EXCEPT ![DefaultType] = event']
          /\ event'.total = stock[DefaultType].total
          /\ event.remaining = stock[DefaultType].remaining
          /\ event'.remaining = event.remaining - in.quantity
      BY <1>5, <2>4, OldReleaseSale
    <3>2. in.quantity \in Nat /\ event.remaining \in Nat
      <4>1. in.quantity \in Nat
        BY QuantitiesAssumption DEF Input
      <4> QED BY <4>1, CapacityAssumption DEF RowInv, TypeInv, TypeOK, Inventory
    <3>3. stock'[DefaultType] = event' /\ in.quantity <= stock[DefaultType].remaining
      BY <2>4, <3>1, <3>2, TypesAssumption DEF RowInv, TypeInv, TypeOK
    <3>4. r.status = "confirmed"
      BY <2>4
    <3> HIDE DEF r
    <3> QED BY <2>1, <2>2, <2>3, <3>1, <3>3, <3>4, RowKeepsStockLedger
  <2>5. CASE ~(event.remaining >= in.quantity)
    <3>1. stock' = stock /\ r.status = "rejected"
      BY <1>5, <2>5 DEF OldReleasePurchase
    <3> HIDE DEF r
    <3> QED BY <2>1, <2>2, <2>3, <3>1, RowKeepsStockLedger
  <2> QED BY <2>4, <2>5
<1>6. CASE Switch \/ UNCHANGED vars
  BY <1>1, <1>6 DEF Switch, AcquireExclusiveBarrier, CommitSwitch, AbortSwitch, vars,
     tables
<1>7. ASSUME NEW t \in Attempts, NEW in \in Input, Begin(t, in) PROVE StockLedgerInv'
  BY <1>1, <1>7 DEF Begin, tables
<1> QED BY <1>2, <1>3, <1>4, <1>5, <1>6, <1>7 DEF Next

\* No oversell and no lost ticket: for every type on sale, what is left plus what
\* the confirmed rows sold is what it started with.
THEOREM NoOversell == Spec => []StockMatchesLedger
<1>1. Init => StockLedgerInv
  BY FS_EmptySet DEF Init, StockLedgerInv, StockMatchesLedger
<1>2. StockLedgerInv => StockMatchesLedger
  BY DEF StockLedgerInv
<1>3. RowInv /\ LedgerInv /\ StockLedgerInv /\ [Next]_vars => StockLedgerInv'
  BY StockLedgerNext
<1> QED BY <1>1, <1>2, <1>3, LedgerInvariant, PTL DEF Spec

-----------------------------------------------------------------------------
(* The inventory tables.                                                   *)

\* What a mirrored attempt will commit: the forward bridge's copy in legacy mode,
\* the type's row one version on in ticket_type mode.
MirrorInv ==
  \A t \in Attempts : HoldsBothRows(t) =>
    IF usedMode[t] = "legacy" THEN draftStock[t] = draftEvent[t]
    ELSE draftStock[t].version = stock[chosen[t]].version + 1

\* The attempt's own type is not written while it is mirrored and not committed.
LEMMA MirrorFrame ==
  ASSUME RowInv, MirrorInv, NEW t \in Attempts,
         pc'[t] = pc[t], usedMode'[t] = usedMode[t], chosen'[t] = chosen[t],
         draftEvent'[t] = draftEvent[t], draftStock'[t] = draftStock[t],
         result'[t] = result[t],
         HoldsTypeRow(t, chosen[t]) => stock'[chosen[t]] = stock[chosen[t]]
  PROVE  HoldsBothRows(t)' =>
           IF usedMode'[t] = "legacy" THEN draftStock'[t] = draftEvent'[t]
           ELSE draftStock'[t].version = stock'[chosen'[t]].version + 1
<1>1. HoldsBothRows(t)' = HoldsBothRows(t)
  BY DEF HoldsBothRows
<1>2. HoldsBothRows(t) => HoldsTypeRow(t, chosen[t])
  BY WritesChosen DEF HoldsBothRows, HoldsTypeRow, RowInv, ModeRead
<1> QED BY <1>1, <1>2 DEF MirrorInv

\* A step of one attempt that leaves the committed rows alone.
LEMMA LocalStepKeepsMirror ==
  ASSUME RowInv, MirrorInv, NEW t \in Attempts, stock' = stock,
         \A u \in Attempts \ {t} :
           /\ pc'[u] = pc[u] /\ usedMode'[u] = usedMode[u] /\ chosen'[u] = chosen[u]
           /\ draftEvent'[u] = draftEvent[u] /\ draftStock'[u] = draftStock[u]
           /\ result'[u] = result[u],
         HoldsBothRows(t)' =>
           IF usedMode'[t] = "legacy" THEN draftStock'[t] = draftEvent'[t]
           ELSE draftStock'[t].version = stock'[chosen'[t]].version + 1
  PROVE  MirrorInv'
<1>1. ASSUME NEW u \in Attempts
      PROVE  HoldsBothRows(u)' =>
               IF usedMode'[u] = "legacy" THEN draftStock'[u] = draftEvent'[u]
               ELSE draftStock'[u].version = stock'[chosen'[u]].version + 1
  <2>1. CASE u = t
    BY <2>1
  <2>2. CASE u # t
    BY <2>2, MirrorFrame
  <2> QED BY <2>1, <2>2
<1> QED BY <1>1 DEF MirrorInv, HoldsBothRows

\* An attempt that ends without a COMMIT.
LEMMA EndKeepsMirror ==
  ASSUME RowInv, MirrorInv, NEW t \in Attempts, NEW how \in Ended \cup {"violated"}, NEW row,
         End(t, how, row), stock' = stock
  PROVE  MirrorInv'
<1>1. ~ HoldsBothRows(t)'
  BY DEF End, HoldsBothRows, Ended, RowInv, TypeInv, TypeOK
<1>2. \A u \in Attempts \ {t} :
        /\ pc'[u] = pc[u] /\ usedMode'[u] = usedMode[u] /\ chosen'[u] = chosen[u]
        /\ draftEvent'[u] = draftEvent[u] /\ draftStock'[u] = draftStock[u]
        /\ result'[u] = result[u]
  BY DEF End, RowInv, TypeInv, TypeOK
<1> QED BY <1>1, <1>2, LocalStepKeepsMirror

\* A COMMIT writes the row of its own type, which nobody else holds.
LEMMA CommitKeepsMirror ==
  ASSUME RowInv, MirrorInv, NEW t \in Attempts, Commit(t) \/ CommitReplyLost(t)
  PROVE  MirrorInv'
<1>1. pc[t] = "inserted" /\ MakeDurable(t)
  BY DEF Commit, CommitReplyLost
<1>2. PICK how \in {"created", "failed"} : \E row : End(t, how, row)
  BY DEF Commit, CommitReplyLost
<1>3. ~ HoldsBothRows(t)'
  BY <1>2 DEF End, HoldsBothRows, RowInv, TypeInv, TypeOK
<1>4. \A u \in Attempts \ {t} :
        /\ pc'[u] = pc[u] /\ usedMode'[u] = usedMode[u] /\ chosen'[u] = chosen[u]
        /\ draftEvent'[u] = draftEvent[u] /\ draftStock'[u] = draftStock[u]
        /\ result'[u] = result[u]
  BY <1>2 DEF End, RowInv, TypeInv, TypeOK
<1>5. CASE result[t].status # "confirmed"
  BY <1>1, <1>3, <1>4, <1>5, LocalStepKeepsMirror DEF MakeDurable
<1>6. CASE result[t].status = "confirmed"
  <2>1. stock' = [stock EXCEPT ![chosen[t]] = draftStock[t]]
    BY <1>1, <1>6, CommittedSale
  <2>2. HoldsTypeRow(t, chosen[t])
    BY <1>1, <1>6, WritesChosen DEF HoldsTypeRow, HoldsBothRows, RowInv, ModeRead
  <2>3. ASSUME NEW u \in Attempts, u # t, HoldsTypeRow(u, chosen[u])
        PROVE  stock'[chosen[u]] = stock[chosen[u]]
    <3>1. chosen[u] # chosen[t]
      <4>1. chosen[t] \in Types
        BY DEF RowInv, TypeInv, TypeOK
      <4> QED BY <2>2, <2>3, <4>1 DEF RowInv, RowLocksExclusive
    <3> QED BY <2>1, <3>1 DEF RowInv, TypeInv, TypeOK
  <2>4. ASSUME NEW u \in Attempts
        PROVE  HoldsBothRows(u)' =>
                 IF usedMode'[u] = "legacy" THEN draftStock'[u] = draftEvent'[u]
                 ELSE draftStock'[u].version = stock'[chosen'[u]].version + 1
    <3>1. CASE u = t
      BY <1>3, <3>1
    <3>2. CASE u # t
      BY <1>4, <2>3, <3>2, MirrorFrame
    <3> QED BY <3>1, <3>2
  <2> QED BY <2>4 DEF MirrorInv, HoldsBothRows
<1> QED BY <1>5, <1>6

LEMMA AttemptKeepsMirror ==
  ASSUME RowInv, MirrorInv, NEW t \in Attempts, Proceed(t) \/ Fault(t)
  PROVE  MirrorInv'
<1> USE DEF RowInv, TypeInv, TypeOK
<1>1. CASE AcquireSharedBarrier(t) \/ AcquireRequestLock(t)
           \/ UpdateActiveInventory(t) \/ FindSoldOut(t)
           \/ (Resolve(t) /\ ~End(t, "failed", NoRow))
  <2>1. stock' = stock /\ ~ HoldsBothRows(t)'
    BY <1>1 DEF AcquireSharedBarrier, AcquireRequestLock, UpdateActiveInventory, FindSoldOut,
       Resolve, HoldsBothRows, tables
  <2>2. \A u \in Attempts \ {t} :
          /\ pc'[u] = pc[u] /\ usedMode'[u] = usedMode[u] /\ chosen'[u] = chosen[u]
          /\ draftEvent'[u] = draftEvent[u] /\ draftStock'[u] = draftStock[u]
          /\ result'[u] = result[u]
    BY <1>1 DEF AcquireSharedBarrier, AcquireRequestLock, UpdateActiveInventory, FindSoldOut,
       Resolve, local
  <2> QED BY <2>1, <2>2, LocalStepKeepsMirror
<1>2. CASE MirrorInventory(t)
  <2>1. /\ pc[t] = "updated" /\ stock' = stock /\ chosen' = chosen /\ usedMode' = usedMode
        /\ \A u \in Attempts \ {t} :
             /\ pc'[u] = pc[u] /\ result'[u] = result[u]
             /\ draftEvent'[u] = draftEvent[u] /\ draftStock'[u] = draftStock[u]
    BY <1>2 DEF MirrorInventory, tables
  <2>2. CASE usedMode[t] = "legacy"
    BY <1>2, <2>1, <2>2, LocalStepKeepsMirror DEF MirrorInventory
  <2>3. CASE usedMode[t] # "legacy"
    <3>1. draftStock' = draftStock /\ draftStock[t] = Taken(stock[chosen[t]], request[t].quantity)
      BY <1>2, <2>1, <2>3 DEF MirrorInventory, StockInv, Drafts, UpdatedRow
    <3>2. stock[chosen[t]] \in Inventory
      OBVIOUS
    <3>3. draftStock'[t].version = stock'[chosen'[t]].version + 1
      BY <2>1, <3>1, <3>2 DEF Taken, Inventory
    <3> QED BY <2>1, <2>3, <3>3, LocalStepKeepsMirror
  <2> QED BY <2>2, <2>3
<1>3. CASE InsertPurchase(t)
  <2>1. /\ stock' = stock /\ chosen' = chosen /\ usedMode' = usedMode
        /\ draftEvent' = draftEvent /\ draftStock' = draftStock
        /\ \A u \in Attempts \ {t} : pc'[u] = pc[u] /\ result'[u] = result[u]
    BY <1>3 DEF InsertPurchase, tables
  <2>2. HoldsBothRows(t)' => HoldsBothRows(t)
    BY <1>3 DEF InsertPurchase, HoldsBothRows, NewRow
  <2> QED BY <2>1, <2>2, LocalStepKeepsMirror DEF MirrorInv
<1>4. CASE Commit(t) \/ CommitReplyLost(t)
  BY <1>4, CommitKeepsMirror
<1>5. CASE \/ Replay(t) \/ RecoverReplay(t) \/ LoseInsertRace(t) \/ Rollback(t)
           \/ RecoveryFails(t) \/ (Resolve(t) /\ End(t, "failed", NoRow))
  <2>1. \E how \in Ended \cup {"violated"} : \E row : End(t, how, row)
    BY <1>5 DEF Replay, RecoverReplay, LoseInsertRace, Rollback, RecoveryFails, Ended
  <2>2. stock' = stock
    BY <1>5 DEF Replay, RecoverReplay, LoseInsertRace, Rollback, RecoveryFails, Resolve, tables
  <2> QED BY <2>1, <2>2, EndKeepsMirror
<1> QED BY <1>1, <1>2, <1>3, <1>4, <1>5 DEF Proceed, Fault

\* Another writer commits a type that no attempt has locked.
LEMMA OtherWriterKeepsMirror ==
  ASSUME RowInv, MirrorInv, NEW y \in Types, UNCHANGED <<pc, local>>,
         NEW row, stock' = [stock EXCEPT ![y] = row],
         y \notin types \/ TypeRowFree(y)
  PROVE  MirrorInv'
<1>1. ASSUME NEW u \in Attempts, HoldsTypeRow(u, chosen[u])
      PROVE  stock'[chosen[u]] = stock[chosen[u]]
  <2>1. chosen[u] \in types
    BY <1>1, WritesChosen DEF HoldsTypeRow, HoldsBothRows, RowInv, ModeRead
  <2>2. chosen[u] # y
    BY <1>1, <2>1 DEF TypeRowFree
  <2> QED BY <2>2 DEF RowInv, TypeInv, TypeOK
<1>2. ASSUME NEW u \in Attempts
      PROVE  HoldsBothRows(u)' =>
               IF usedMode'[u] = "legacy" THEN draftStock'[u] = draftEvent'[u]
               ELSE draftStock'[u].version = stock'[chosen'[u]].version + 1
  BY <1>1, MirrorFrame DEF local
<1> QED BY <1>2 DEF MirrorInv, HoldsBothRows

LEMMA MirrorNext == RowInv /\ MirrorInv /\ [Next]_vars => MirrorInv'
<1> SUFFICES ASSUME RowInv, MirrorInv, [Next]_vars PROVE MirrorInv'
  OBVIOUS
<1>1. ASSUME NEW t \in Attempts, NEW in \in Input, Begin(t, in) PROVE MirrorInv'
  <2>1. stock' = stock /\ ~ HoldsBothRows(t)'
    BY <1>1 DEF Begin, HoldsBothRows, tables, RowInv, TypeInv, TypeOK
  <2>2. \A u \in Attempts \ {t} :
          /\ pc'[u] = pc[u] /\ usedMode'[u] = usedMode[u] /\ chosen'[u] = chosen[u]
          /\ draftEvent'[u] = draftEvent[u] /\ draftStock'[u] = draftStock[u]
          /\ result'[u] = result[u]
    BY <1>1 DEF Begin, RowInv, TypeInv, TypeOK
  <2> QED BY <2>1, <2>2, LocalStepKeepsMirror
<1>2. ASSUME NEW t \in Attempts, Proceed(t) \/ Fault(t) PROVE MirrorInv'
  BY <1>2, AttemptKeepsMirror
<1>3. CASE UNCHANGED <<stock, pc, local>>
  BY <1>3 DEF MirrorInv, HoldsBothRows, local
<1>4. CASE CreateEvent
  BY <1>4, TypesAssumption, OtherWriterKeepsMirror DEF CreateEvent
<1>5. ASSUME NEW y \in Types, AddTicketType(y) PROVE MirrorInv'
  BY <1>5, OtherWriterKeepsMirror DEF AddTicketType
<1>6. ASSUME NEW o \in OldAttempts, NEW in \in Input, OldReleasePurchase(o, in)
      PROVE  MirrorInv'
  <2>1. CASE event.remaining >= in.quantity
    BY <1>6, <2>1, TypesAssumption, OtherWriterKeepsMirror DEF OldReleasePurchase
  <2>2. CASE ~(event.remaining >= in.quantity)
    BY <1>3, <1>6, <2>2 DEF OldReleasePurchase
  <2> QED BY <2>1, <2>2
<1>7. CASE Switch \/ UNCHANGED vars
  BY <1>3, <1>7 DEF Switch, AcquireExclusiveBarrier, CommitSwitch, AbortSwitch, vars, tables
<1> QED BY <1>1, <1>2, <1>4, <1>5, <1>6, <1>7 DEF Next

\* The two specifications aggregate the types' rows alike.
LEMMA SameRows ==
  /\ Tables!Inventory = Inventory /\ Tables!EmptyInventory = EmptyInventory
  /\ \A n : Tables!Fresh(n) = Fresh(n)
  /\ \A row, ys, rows : Tables!Aggregate(row, ys, rows) = Aggregate(row, ys, rows)
<1>1. Tables!Inventory = Inventory /\ Tables!EmptyInventory = EmptyInventory
  BY DEF Tables!Inventory, Inventory, Tables!EmptyInventory, EmptyInventory
<1>2. ASSUME NEW n PROVE Tables!Fresh(n) = Fresh(n)
  BY DEF Tables!Fresh, Fresh
<1>3. ASSUME NEW row, NEW ys, NEW rows
      PROVE  Tables!Aggregate(row, ys, rows) = Aggregate(row, ys, rows)
  <2>1. \A f : Tables!SumFunction(f) = SumFunction(f)
    BY Zenon DEF SumFunction, SumFunctionOnSet, FoldFunctionOnSet, MapThenFoldSet,
       Tables!SumFunction, Tables!SumFunctionOnSet, Tables!FoldFunctionOnSet,
       Tables!MapThenFoldSet
  <2> QED BY <2>1 DEF Tables!Aggregate, Aggregate, TotalOf, RemainingOf
<1> QED BY <1>1, <1>2, <1>3

\* A commit is the sale of the type, or of the Event row, in one step.
LEMMA CommitIsTablesSale ==
  ASSUME RowInv, MirrorInv, NEW t \in Attempts, pc[t] = "inserted", MakeDurable(t),
         result[t].status = "confirmed"
  PROVE  Tables!TablesNext
<1> DEFINE q == request[t].quantity
           y == chosen[t]
<1>1. /\ result[t] \in PurchaseRow /\ result[t].quantity = q
  BY InsertedRow
<1>2. q \in Quantities /\ q \in Nat
  BY <1>1, QuantitiesAssumption DEF PurchaseRow
<1>3. /\ types' = types /\ y \in types
      /\ event' = draftEvent[t] /\ event'.version = event.version + 1
      /\ stock' = [stock EXCEPT ![y] = draftStock[t]]
      /\ stock[y].remaining >= q
      /\ draftStock[t].total = stock[y].total
      /\ draftStock[t].remaining = stock[y].remaining - q
      /\ MirrorParity'
  BY CommittedSale
<1>4. /\ HoldsBothRows(t) /\ usedMode[t] = mode /\ mode' = mode /\ mode \in Modes
      /\ mode = "legacy" => types = {DefaultType}
  BY WritesChosen DEF HoldsBothRows, MakeDurable, RowInv, ModeRead, TypeInv, TypeOK
<1>5. /\ event \in Inventory /\ stock[y] \in Inventory /\ y \in Types
      /\ draftEvent[t] \in Inventory /\ draftStock[t] \in Inventory
  BY DEF RowInv, TypeInv, TypeOK
<1>6. \A row \in Inventory, row2 \in Inventory :
        /\ row2.total = row.total /\ row2.remaining = row.remaining - q
        /\ row2.version = row.version + 1
        => row2 = Tables!Taken(row, q)
  BY <1>2 DEF Tables!Taken, Inventory
<1>7. CASE mode = "legacy"
  <2>1. y = DefaultType /\ draftStock[t] = draftEvent[t]
    BY <1>3, <1>4, <1>7 DEF MirrorInv
  <2>2. /\ event.total = stock[y].total /\ event.remaining = stock[y].remaining
    BY <1>4, <1>7, <2>1, LegacyParity
  <2>3. event' = Tables!Taken(event, q)
    BY <1>3, <1>5, <1>6, <2>1, <2>2
  <2>4. Tables!SellFromEvent(q)
    BY <1>3, <1>4, <1>7, <2>1, <2>2, <2>3 DEF Tables!SellFromEvent
  <2> QED BY <1>2, <2>4 DEF Tables!TablesNext
<1>8. CASE mode = "ticket_type"
  <2>1. draftStock[t] = Tables!Taken(stock[y], q)
    BY <1>3, <1>4, <1>5, <1>6, <1>8 DEF MirrorInv
  <2>2. event' = Tables!Aggregate(event, types, stock')
    <3>1. event'.total = TotalOf(types, stock') /\ event'.remaining = RemainingOf(types, stock')
      BY <1>3 DEF MirrorParity, TotalOf, RemainingOf
    <3>2. event' = Aggregate(event, types, stock')
      BY <1>3, <1>5, <3>1 DEF Aggregate, Inventory
    <3> QED BY <3>2, SameRows
  <2>3. event' \in Tables!Inventory
    BY <1>3, <1>5 DEF Tables!Inventory, Inventory
  <2>4. Tables!SellFromType(y, q)
    BY <1>3, <1>4, <1>8, <2>1, <2>2, <2>3 DEF Tables!SellFromType
  <2> QED BY <1>2, <1>5, <2>4 DEF Tables!TablesNext
<1> QED BY <1>4, <1>7, <1>8 DEF Modes

LEMMA StepImplementsTables ==
  RowInv /\ MirrorInv /\ [Next]_vars => [Tables!TablesNext]_(Tables!tables)
<1> SUFFICES ASSUME RowInv, MirrorInv, [Next]_vars
             PROVE  Tables!TablesNext \/ UNCHANGED Tables!tables
  OBVIOUS
<1>1. CASE UNCHANGED <<mode, types, event, stock>>
  BY <1>1 DEF Tables!tables
<1>2. ASSUME NEW t \in Attempts, Proceed(t) \/ Fault(t)
      PROVE  Tables!TablesNext \/ UNCHANGED <<mode, types, event, stock>>
  <2>1. CASE Commit(t) \/ CommitReplyLost(t)
    <3>1. pc[t] = "inserted" /\ MakeDurable(t)
      BY <2>1 DEF Commit, CommitReplyLost
    <3>2. CASE result[t].status = "confirmed"
      BY <3>1, <3>2, CommitIsTablesSale
    <3>3. CASE result[t].status # "confirmed"
      BY <3>1, <3>3 DEF MakeDurable
    <3> QED BY <3>2, <3>3
  <2>2. CASE ~(Commit(t) \/ CommitReplyLost(t))
    BY <1>2, <2>2 DEF Proceed, Fault, AcquireSharedBarrier, AcquireRequestLock,
       Replay, Resolve, UpdateActiveInventory, FindSoldOut, MirrorInventory,
       InsertPurchase, LoseInsertRace, RecoverReplay, Rollback, RecoveryFails, tables
  <2> QED BY <2>1, <2>2
<1>3. ASSUME NEW t \in Attempts, NEW in \in Input, Begin(t, in)
      PROVE  UNCHANGED <<mode, types, event, stock>>
  BY <1>3 DEF Begin, tables
<1>4. CASE CreateEvent
  <2>1. Tables!CreateEvent
    BY <1>4, SameRows DEF CreateEvent, Tables!CreateEvent
  <2> QED BY <2>1 DEF Tables!TablesNext
<1>5. ASSUME NEW y \in Types, AddTicketType(y) PROVE Tables!TablesNext
  <2>1. Tables!AddTicketType(y)
    BY <1>5, SameRows DEF AddTicketType, Tables!AddTicketType
  <2> QED BY <2>1 DEF Tables!TablesNext
<1>6. ASSUME NEW o \in OldAttempts, NEW in \in Input, OldReleasePurchase(o, in)
      PROVE  Tables!TablesNext \/ UNCHANGED <<mode, types, event, stock>>
  <2>1. CASE event.remaining >= in.quantity
    <3>1. Tables!SellFromEvent(in.quantity)
      BY <1>6, <2>1 DEF OldReleasePurchase, Tables!SellFromEvent, Taken, Tables!Taken
    <3>2. in.quantity \in Quantities
      BY DEF Input
    <3> QED BY <3>1, <3>2 DEF Tables!TablesNext
  <2>2. CASE ~(event.remaining >= in.quantity)
    BY <1>6, <2>2 DEF OldReleasePurchase
  <2> QED BY <2>1, <2>2
<1>7. CASE CommitSwitch
  <2>1. Tables!SwitchMode
    BY <1>7 DEF CommitSwitch, CutoverReady, Opposite, ExclusiveBarrierHeld,
       Tables!SwitchMode, Tables!Opposite, RowInv, TypeInv, TypeOK, Modes
  <2> QED BY <2>1 DEF Tables!TablesNext
<1>8. CASE AbortSwitch \/ (\E m \in Modes : AcquireExclusiveBarrier(m)) \/ UNCHANGED vars
  BY <1>1, <1>8 DEF AcquireExclusiveBarrier, AbortSwitch, vars, tables
<1> QED BY <1>1, <1>2, <1>3, <1>4, <1>5, <1>6, <1>7, <1>8 DEF Next, Switch

\* The statements of any number of transactions, their triggers, the other
\* writers and the switch implement the inventory tables with one step per
\* commit: whatever holds of InventoryTables holds of this code's tables.
THEOREM TablesImplemented == Spec => ImplementsTables
<1>1. Init => Tables!TablesInit
  BY DEF Init, Tables!TablesInit, Modes, Tables!Modes, EmptyInventory, Tables!EmptyInventory
<1>2. Init => MirrorInv
  BY DEF Init, MirrorInv, HoldsBothRows
<1>3. RowInv /\ MirrorInv /\ [Next]_vars => MirrorInv'
  BY MirrorNext
<1>4. RowInv /\ MirrorInv /\ [Next]_vars => [Tables!TablesNext]_(Tables!tables)
  BY StepImplementsTables
<1> QED BY <1>1, <1>2, <1>3, <1>4, RowInvariant, PTL DEF Spec, ImplementsTables, Tables!TablesSpec
=============================================================================
