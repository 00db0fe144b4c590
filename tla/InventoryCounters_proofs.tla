---------------------- MODULE InventoryCounters_proofs ----------------------
(***************************************************************************)
(* Theorems about the counters in front of the purchase transaction, for   *)
(* any number of attempts and types: their types; that no counter is ever  *)
(* short of the stock by more than the reservations in flight and the      *)
(* tickets lost with a reply; and that a sync overwrites no reservation it *)
(* has not seen, as revisions move with each of them (Anchored). Then the  *)
(* seed and reconcile tool beside them: a job that ends is whole, a seed   *)
(* keeps off the active counters, reconcile off later reservations.        *)
(***************************************************************************)
EXTENDS CounterSeed, SumTheorems

\* An attempt between its arrival and its answer has a parsed request, and a
\* counter wherever it is about to use one.
InFlight(t) ==
  /\ pc[t] \notin {"new", "refused", "ended"} => request[t] \in Input
  /\ pc[t] \in {"planned", "gated", "syncing", "releasing"} => scope[t] \in Scopes
  /\ reserved[t] => /\ pc[t] \in {"gated", "anchored", "syncing", "releasing"}
                    /\ scope[t] \in Scopes

TypeInv == TypeOK /\ \A t \in Attempts : InFlight(t)

\* The initial state has its types.
LEMMA TypeInvInit == Init => TypeInv
<1> SUFFICES ASSUME Init PROVE TypeInv
  OBVIOUS
<1>1. onSale \subseteq Types /\ left \in [Types -> Nat] /\ ledger \subseteq Sale!LedgerRow
  BY DEF Init, Sale!Init
<1>2. TypeOK
  BY <1>1 DEF Init, TypeOK, Modes, Steps
<1> QED BY <1>2 DEF TypeInv, InFlight, Init

\* A quantity asked for is positive.
LEMMA QuantityIsNat ==
  ASSUME NEW in \in Input PROVE in.quantity \in Nat \ {0}
BY QuantitiesAssumption DEF Input

\* Only attempt t has moved, to typed locals.
LEMMA OneMoves ==
  ASSUME TypeInv, NEW t \in Attempts,
         NEW next \in Steps, Goto(t, next),
         NEW in \in Input \cup {NoInput}, request' = [request EXCEPT ![t] = in],
         NEW s \in Scopes \cup {NoScope}, scope' = [scope EXCEPT ![t] = s],
         NEW r \in BOOLEAN, reserved' = [reserved EXCEPT ![t] = r],
         NEW a \in Nat \cup {NoAnchor}, anchor' = [anchor EXCEPT ![t] = a],
         NEW n \in Nat, remaining' = [remaining EXCEPT ![t] = n],
         NEW k \in Nat, resent' = [resent EXCEPT ![t] = k],
         next \notin {"new", "refused", "ended"} => in \in Input,
         next \in {"planned", "gated", "syncing", "releasing"} => s \in Scopes,
         r => next \in {"gated", "anchored", "syncing", "releasing"} /\ s \in Scopes
  PROVE  /\ pc' \in [Attempts -> Steps]
         /\ request' \in [Attempts -> Input \cup {NoInput}]
         /\ scope' \in [Attempts -> Scopes \cup {NoScope}]
         /\ reserved' \in [Attempts -> BOOLEAN]
         /\ anchor' \in [Attempts -> Nat \cup {NoAnchor}]
         /\ remaining' \in [Attempts -> Nat]
         /\ resent' \in [Attempts -> Nat]
         /\ \A u \in Attempts : InFlight(u)'
<1>1. /\ pc' \in [Attempts -> Steps]
      /\ request' \in [Attempts -> Input \cup {NoInput}]
      /\ scope' \in [Attempts -> Scopes \cup {NoScope}]
      /\ reserved' \in [Attempts -> BOOLEAN]
      /\ anchor' \in [Attempts -> Nat \cup {NoAnchor}]
      /\ remaining' \in [Attempts -> Nat]
      /\ resent' \in [Attempts -> Nat]
  BY DEF TypeInv, TypeOK, Goto
<1>2. InFlight(t)'
  BY DEF InFlight, TypeInv, TypeOK, Goto
<1>3. ASSUME NEW u \in Attempts \ {t} PROVE InFlight(u)'
  <2>1. InFlight(u)
    BY DEF TypeInv
  <2> QED BY <2>1 DEF InFlight, TypeInv, TypeOK, Goto
<1> QED BY <1>1, <1>2, <1>3

\* The answer of an attempt resets its locals.
LEMMA LeaveKeepsTypes ==
  ASSUME TypeInv, NEW t \in Attempts, NEW how \in {"refused", "ended"}, Leave(t, how)
  PROVE  /\ pc' \in [Attempts -> Steps]
         /\ request' \in [Attempts -> Input \cup {NoInput}]
         /\ scope' \in [Attempts -> Scopes \cup {NoScope}]
         /\ reserved' \in [Attempts -> BOOLEAN]
         /\ anchor' \in [Attempts -> Nat \cup {NoAnchor}]
         /\ remaining' \in [Attempts -> Nat]
         /\ resent' \in [Attempts -> Nat]
         /\ \A u \in Attempts : InFlight(u)'
<1>1. how \in Steps
  BY DEF Steps
<1>2. Goto(t, how)
  BY DEF Leave
<1> QED BY <1>1, <1>2, OneMoves DEF Leave

\* So does the way out that first gives a reservation back.
LEMMA CompensateKeepsTypes ==
  ASSUME TypeInv, NEW t \in Attempts, Compensate(t), pc[t] \in {"anchored", "syncing"}
  PROVE  /\ pc' \in [Attempts -> Steps]
         /\ request' \in [Attempts -> Input \cup {NoInput}]
         /\ scope' \in [Attempts -> Scopes \cup {NoScope}]
         /\ reserved' \in [Attempts -> BOOLEAN]
         /\ anchor' \in [Attempts -> Nat \cup {NoAnchor}]
         /\ remaining' \in [Attempts -> Nat]
         /\ resent' \in [Attempts -> Nat]
         /\ \A u \in Attempts : InFlight(u)'
<1>1. CASE reserved[t]
  <2>1. Goto(t, "releasing") /\ UNCHANGED local
    BY <1>1 DEF Compensate
  <2>2. /\ pc' \in [Attempts -> Steps]
        /\ request' = request /\ scope' = scope /\ reserved' = reserved
        /\ anchor' = anchor /\ remaining' = remaining /\ resent' = resent
    BY <2>1 DEF local, Goto, TypeInv, TypeOK, Steps
  <2>3. ASSUME NEW u \in Attempts PROVE InFlight(u)'
    BY <1>1, <2>1, <2>2 DEF InFlight, TypeInv, TypeOK, Goto
  <2> QED BY <2>2, <2>3 DEF TypeInv, TypeOK
<1>2. CASE ~reserved[t]
  BY <1>2, LeaveKeepsTypes DEF Compensate
<1> QED BY <1>1, <1>2

\* What a decision does to the database.
LEMMA DecisionTypes ==
  ASSUME TypeInv, NEW t \in Attempts, NEW y \in Types,
         NEW status \in {"confirmed", "rejected"}, pc[t] = "anchored",
         Decides(t, y, status)
  PROVE  /\ onSale' = onSale /\ y \in onSale
         /\ ledger' \subseteq Sale!LedgerRow
         /\ left' \in [Types -> Nat]
         /\ \/ /\ status = "confirmed"
               /\ left'[y] + request[t].quantity = left[y]
               /\ \A z \in Types \ {y} : left'[z] = left[z]
            \/ /\ status = "rejected"
               /\ left' = left
<1> DEFINE row == [id |-> t, key |-> request[t].key, type |-> y,
                   quantity |-> request[t].quantity, status |-> status]
<1>1. request[t] \in Input
  BY DEF TypeInv, InFlight
<1>2. request[t].quantity \in Nat
  BY <1>1, QuantityIsNat
<1>3. row \in Sale!LedgerRow
  BY <1>1 DEF Sale!LedgerRow, Input
<1>4. y \in onSale
  BY DEF Decides, Resolvable
<1>5. Sale!Sell(row) \/ Sale!TurnDown(row)
  BY DEF Decides
<1>6. Sale!Record(row)
  BY <1>5 DEF Sale!Sell, Sale!TurnDown
<1>7. onSale' = onSale /\ ledger' = ledger \cup {row}
  BY <1>6 DEF Sale!Record
<1>8. ledger' \subseteq Sale!LedgerRow
  BY <1>3, <1>7 DEF TypeInv, TypeOK
<1>9. CASE Sale!Sell(row)
  <2>1. /\ status = "confirmed"
        /\ request[t].quantity <= left[y]
        /\ left' = [left EXCEPT ![y] = @ - request[t].quantity]
    BY <1>9 DEF Sale!Sell
  <2>2. left \in [Types -> Nat]
    BY DEF TypeInv, TypeOK
  <2> QED BY <1>2, <1>4, <1>7, <1>8, <2>1, <2>2
<1>10. CASE Sale!TurnDown(row)
  BY <1>4, <1>7, <1>8, <1>10 DEF Sale!TurnDown, TypeInv, TypeOK
<1> QED BY <1>5, <1>9, <1>10

\* The Event aggregate is a natural that each type on sale is a part of.
LEMMA EventLeftCovers ==
  ASSUME NEW T \in SUBSET Types, NEW rows \in [Types -> Nat]
  PROVE  LET f == [y \in T |-> rows[y]] IN
         SumFunction(f) \in Nat /\ \A y \in T : SumFunction(f) >= rows[y]
<1> DEFINE f == [y \in T |-> rows[y]]
<1>1. IsFiniteSet(T)
  BY FinitelyMany, FS_Subset
<1>2. f \in [T -> Nat]
  OBVIOUS
<1>3. SumFunction(f) \in Nat
  BY <1>1, <1>2, SumTakeOut
<1>4. ASSUME NEW y \in T PROVE SumFunction(f) >= rows[y]
  <2> DEFINE g == [z \in T \ {y} |-> f[z]]
  <2>1. IsFiniteSet(T \ {y}) /\ g \in [T \ {y} -> Nat]
    BY <1>1, <1>2, FS_Subset
  <2>2. SumFunction(g) \in Nat
    BY <2>1, SumTakeOut
  <2>3. SumFunction(f) = f[y] + SumFunction(g)
    BY <1>1, <1>2, SumTakeOut
  <2>4. f[y] = rows[y] /\ rows[y] \in Nat
    OBVIOUS
  <2> HIDE DEF f, g
  <2> QED BY <2>2, <2>3, <2>4, <1>3
<1> QED BY <1>3, <1>4

\* Every step of an attempt keeps the types.
LEMMA AttemptKeepsTypes ==
  ASSUME TypeInv, NEW t \in Attempts, Purchase(t) \/ Fault(t)
  PROVE  TypeInv'
<1> USE DEF TypeInv, TypeOK
<1>1. ASSUME NEW in \in Input, NEW s \in Scopes \cup {NoScope}, Arrive(t, in, s)
      PROVE  TypeInv'
  <2> DEFINE next == IF s = NoScope THEN "anchored" ELSE "planned"
  <2>1. next \in Steps /\ Goto(t, next)
    BY <1>1 DEF Arrive, Steps
  <2>2. ~reserved[t]
    BY <1>1 DEF Arrive, InFlight
  <2>3. /\ request' = [request EXCEPT ![t] = in]
        /\ scope' = [scope EXCEPT ![t] = s]
        /\ UNCHANGED <<database, control, valkey, reserved, anchor, remaining, resent>>
    BY <1>1 DEF Arrive
  <2>4. /\ reserved' = [reserved EXCEPT ![t] = reserved[t]]
        /\ anchor' = [anchor EXCEPT ![t] = anchor[t]]
        /\ remaining' = [remaining EXCEPT ![t] = remaining[t]]
        /\ resent' = [resent EXCEPT ![t] = resent[t]]
    BY <2>3
  <2>5. /\ next \notin {"new", "refused", "ended"}
        /\ next \in {"planned", "gated", "syncing", "releasing"} => s \in Scopes
    OBVIOUS
  <2> HIDE DEF next
  <2>6. /\ pc' \in [Attempts -> Steps]
        /\ request' \in [Attempts -> Input \cup {NoInput}]
        /\ scope' \in [Attempts -> Scopes \cup {NoScope}]
        /\ reserved' \in [Attempts -> BOOLEAN]
        /\ anchor' \in [Attempts -> Nat \cup {NoAnchor}]
        /\ remaining' \in [Attempts -> Nat]
        /\ resent' \in [Attempts -> Nat]
        /\ \A u \in Attempts : InFlight(u)'
    BY <2>1, <2>2, <2>3, <2>4, <2>5, OneMoves
  <2> QED BY <2>3, <2>6 DEF database, control, valkey
<1>2. ASSUME Reserve(t) \/ ReserveUnanswered(t) \/ ReserveUnknown(t) PROVE TypeInv'
  <2>1. pc[t] = "planned" /\ scope[t] \in Scopes /\ request[t] \in Input
    BY <1>2 DEF Reserve, ReserveUnanswered, ReserveUnknown, InFlight
  <2>2. request[t].quantity \in Nat
    BY <2>1, QuantityIsNat
  <2>3. UNCHANGED <<database, control, present, request, scope, remaining>>
    BY <1>2 DEF Reserve, ReserveUnanswered, ReserveUnknown, valkey, Reserves
  <2>4. /\ counter' \in [Scopes -> Nat]
        /\ revision' \in [Scopes -> Nat]
        /\ owed' \in [Scopes -> Nat]
    BY <1>2, <2>1, <2>2 DEF Reserve, ReserveUnanswered, ReserveUnknown, valkey,
                            Reserves, CanReserve
  <2>5. /\ pc' \in [Attempts -> Steps]
        /\ reserved' \in [Attempts -> BOOLEAN]
        /\ anchor' \in [Attempts -> Nat \cup {NoAnchor}]
        /\ resent' \in [Attempts -> Nat]
    <3>1. CASE Reserve(t)
      <4> DEFINE next == IF scope[t] \in Types THEN "anchored" ELSE "gated"
                 a == IF scope[t] \in Types THEN revision[scope[t]] + 1 ELSE NoAnchor
      <4>1. /\ pc' = [pc EXCEPT ![t] = next]
            /\ anchor' = [anchor EXCEPT ![t] = a]
            /\ reserved' = [reserved EXCEPT ![t] = TRUE]
            /\ resent' = [resent EXCEPT ![t] = 0]
        BY <3>1 DEF Reserve, Goto
      <4>2. next \in Steps /\ a \in Nat \cup {NoAnchor}
        BY <2>1 DEF Steps
      <4> HIDE DEF next, a
      <4> QED BY <4>1, <4>2
    <3>2. CASE ReserveUnanswered(t) \/ ReserveUnknown(t)
      BY <3>2 DEF ReserveUnanswered, ReserveUnknown, Goto, Steps
    <3> QED BY <1>2, <3>1, <3>2
  <2>6. ASSUME NEW u \in Attempts PROVE InFlight(u)'
    BY <1>2, <2>1, <2>3 DEF Reserve, ReserveUnanswered, ReserveUnknown, Goto, InFlight
  <2> QED BY <2>3, <2>4, <2>5, <2>6 DEF database, control
<1>3. ASSUME SoldOut(t) PROVE TypeInv'
  <2>1. CASE Leave(t, "refused")
    BY <1>3, <2>1, LeaveKeepsTypes DEF SoldOut, database, control, valkey
  <2>2. CASE ~Leave(t, "refused")
    <3>1. /\ Goto(t, "gated") /\ pc[t] = "planned"
          /\ resent' = [resent EXCEPT ![t] = 0]
          /\ UNCHANGED <<database, control, valkey, request, scope, reserved, anchor,
                         remaining>>
      BY <1>3, <2>2 DEF SoldOut
    <3>2. pc' \in [Attempts -> Steps] /\ resent' \in [Attempts -> Nat]
      BY <3>1 DEF Goto, Steps
    <3>3. ASSUME NEW u \in Attempts PROVE InFlight(u)'
      BY <3>1 DEF InFlight, Goto
    <3> QED BY <3>1, <3>2, <3>3 DEF database, control, valkey
  <2> QED BY <2>1, <2>2
<1>4. ASSUME ReadAnchor(t) PROVE TypeInv'
  <2>1. pc[t] = "gated" /\ scope[t] \in Scopes
    BY <1>4 DEF ReadAnchor, InFlight
  <2>2. anchor' \in [Attempts -> Nat \cup {NoAnchor}] /\ pc' \in [Attempts -> Steps]
    BY <1>4, <2>1 DEF ReadAnchor, Goto, Steps
  <2>3. UNCHANGED <<database, control, valkey, request, scope, reserved, remaining, resent>>
    BY <1>4 DEF ReadAnchor
  <2>4. ASSUME NEW u \in Attempts PROVE InFlight(u)'
    BY <1>4, <2>1, <2>3 DEF ReadAnchor, Goto, InFlight
  <2> QED BY <2>2, <2>3, <2>4 DEF database, control, valkey
<1>5. ASSUME NotDecided(t) PROVE TypeInv'
  BY <1>5, CompensateKeepsTypes DEF NotDecided, database, control, valkey
<1>6. ASSUME NEW y \in Types, NEW status \in {"confirmed", "rejected"}, Decide(t, y, status)
      PROVE  TypeInv'
  <2>1. /\ pc[t] = "anchored" /\ Decides(t, y, status)
        /\ UNCHANGED <<control, valkey>>
    BY <1>6 DEF Decide
  <2>2. onSale' = onSale /\ ledger' \subseteq Sale!LedgerRow /\ left' \in [Types -> Nat]
    BY <2>1, DecisionTypes
  <2>3. CASE Leave(t, "ended")
    BY <2>1, <2>2, <2>3, LeaveKeepsTypes DEF control, valkey
  <2>4. CASE Compensate(t)
    BY <2>1, <2>2, <2>4, CompensateKeepsTypes DEF control, valkey
  <2>5. CASE ~Leave(t, "ended") /\ ~Compensate(t)
    <3> DEFINE n == IF scope[t] = EventScope THEN EventLeft' ELSE left'[y]
    <3>1. /\ MaySync(t, y)
          /\ remaining' = [remaining EXCEPT ![t] = n]
          /\ Goto(t, "syncing")
          /\ UNCHANGED <<request, scope, reserved, anchor, resent>>
      BY <1>6, <2>5 DEF Decide
    <3>2. onSale' \in SUBSET Types
      BY <2>2
    <3>3. EventLeft' \in Nat
      BY <2>2, <3>2, EventLeftCovers DEF EventLeft
    <3>4. n \in Nat
      BY <2>2, <3>3
    <3>5. scope[t] \in Scopes
      BY <3>1 DEF MaySync
    <3> HIDE DEF n
    <3>6. remaining' \in [Attempts -> Nat] /\ pc' \in [Attempts -> Steps]
      BY <3>1, <3>4 DEF Goto, Steps
    <3>7. ASSUME NEW u \in Attempts PROVE InFlight(u)'
      BY <2>1, <3>1, <3>5 DEF InFlight, Goto
    <3> QED BY <2>1, <2>2, <3>1, <3>6, <3>7 DEF control, valkey
  <2> QED BY <2>3, <2>4, <2>5
<1>7. ASSUME NEW y \in Types, NEW status \in {"confirmed", "rejected"},
             DecideReplyLost(t, y, status)
      PROVE  TypeInv'
  BY <1>7, DecisionTypes, CompensateKeepsTypes DEF DecideReplyLost, control, valkey
<1>8. ASSUME Sync(t) PROVE TypeInv'
  <2>1. pc[t] = "syncing" /\ scope[t] \in Scopes /\ UNCHANGED <<database, control>>
    BY <1>8 DEF Sync, InFlight
  <2>2. CASE Leave(t, "ended") /\ Sets(scope[t], remaining[t])
    BY <2>1, <2>2, LeaveKeepsTypes DEF Sets, database, control
  <2>3. CASE Compensate(t) /\ UNCHANGED valkey
    BY <2>1, <2>3, CompensateKeepsTypes DEF database, control, valkey
  <2> QED BY <1>8, <2>2, <2>3 DEF Sync
<1>9. ASSUME SyncUnanswered(t) PROVE TypeInv'
  <2>1. /\ pc[t] = "syncing" /\ scope[t] \in Scopes /\ UNCHANGED <<database, control, pc, local>>
        /\ Sets(scope[t], remaining[t])
    BY <1>9 DEF SyncUnanswered, InFlight
  <2> QED BY <2>1 DEF Sets, database, control, local, InFlight
<1>10. ASSUME Release(t) \/ ReleaseFails(t) PROVE TypeInv'
  <2>1. pc[t] = "releasing" /\ scope[t] \in Scopes /\ request[t] \in Input
    BY <1>10 DEF Release, ReleaseFails, InFlight
  <2>2. request[t].quantity \in Nat
    BY <2>1, QuantityIsNat
  <2>3. /\ counter' \in [Scopes -> Nat]
        /\ revision' \in [Scopes -> Nat]
        /\ owed' \in [Scopes -> Nat]
        /\ UNCHANGED present
    BY <1>10, <2>1, <2>2 DEF Release, ReleaseFails, Releases
  <2>4. Leave(t, "ended") /\ UNCHANGED <<database, control>>
    BY <1>10 DEF Release, ReleaseFails
  <2> QED BY <2>3, <2>4, LeaveKeepsTypes DEF database, control
<1>11. ASSUME ReleaseUnanswered(t) PROVE TypeInv'
  <2>1. pc[t] = "releasing" /\ scope[t] \in Scopes /\ request[t] \in Input
    BY <1>11 DEF ReleaseUnanswered, InFlight
  <2>2. request[t].quantity \in Nat
    BY <2>1, QuantityIsNat
  <2>3. /\ counter' \in [Scopes -> Nat]
        /\ revision' \in [Scopes -> Nat]
        /\ resent' \in [Attempts -> Nat]
        /\ UNCHANGED <<present, database, control, owed, pc, request, scope, reserved,
                       anchor, remaining>>
    BY <1>11, <2>1, <2>2 DEF ReleaseUnanswered, Releases
  <2> QED BY <2>3 DEF database, control, InFlight
<1> QED BY <1>1, <1>2, <1>3, <1>4, <1>5, <1>6, <1>7, <1>8, <1>9, <1>10, <1>11
        DEF Purchase, Fault

\* So do the Event's creation, the other types, the mode and Valkey itself.
LEMMA OtherKeepsTypes == ASSUME TypeInv, Other PROVE TypeInv'
<1> USE DEF TypeInv, TypeOK
<1>1. UNCHANGED <<pc, local>>
  BY DEF Other, CreateEvent, InitCounter, InitFails, AddTicketType, SwitchMode,
         PlansExpire, Forget
<1>2. \A u \in Attempts : InFlight(u)'
  BY <1>1 DEF InFlight, local
<1>3. ASSUME NEW y \in Types, Sale!Offer(y, Capacity[y])
      PROVE  /\ onSale' \subseteq Types /\ left' \in [Types -> Nat]
             /\ ledger' \subseteq Sale!LedgerRow
  BY <1>3, CapacityAssumption DEF Sale!Offer
<1>4. CASE CreateEvent
  BY <1>1, <1>2, <1>3, <1>4, TypesAssumption DEF CreateEvent, valkey, local, Scopes
<1>5. CASE InitCounter
  BY <1>1, <1>2, <1>5, TypesAssumption, CapacityAssumption
  DEF InitCounter, Sets, database, local
<1>6. CASE InitFails \/ SwitchMode \/ PlansExpire
  BY <1>1, <1>2, <1>6 DEF InitFails, SwitchMode, PlansExpire, database, valkey, local,
                          Modes, Opposite
<1>7. ASSUME NEW y \in Types, AddTicketType(y) PROVE TypeInv'
  BY <1>1, <1>2, <1>3, <1>7 DEF AddTicketType, control, valkey, local
<1>8. ASSUME NEW s \in Scopes, Forget(s) PROVE TypeInv'
  BY <1>1, <1>2, <1>8 DEF Forget, database, control, local
<1> QED BY <1>4, <1>5, <1>6, <1>7, <1>8 DEF Other

\* Every step keeps the types.
LEMMA TypeInvNext == TypeInv /\ [Next]_vars => TypeInv'
<1> SUFFICES ASSUME TypeInv, [Next]_vars PROVE TypeInv'
  OBVIOUS
<1>1. CASE UNCHANGED vars
  BY <1>1 DEF vars, database, control, valkey, local, TypeInv, TypeOK, InFlight
<1> QED BY <1>1, AttemptKeepsTypes, OtherKeepsTypes DEF Next

\* Counters, versions and locals keep their types; in particular no counter is
\* ever negative, whatever is reserved, resent, synced or given back.
THEOREM CounterTypes == Spec => []TypeOK
<1>1. TypeInv => TypeOK
  BY DEF TypeInv
<1> QED BY <1>1, TypeInvInit, TypeInvNext, PTL DEF Spec

-----------------------------------------------------------------------------
(* Counters and stock.                                                     *)

\* What has been offered: counters exist only for an Event on sale, and only its
\* own and its default type's; stock never exceeds what was put on sale.
Offered ==
  /\ onSale # {} => DefaultType \in onSale
  /\ present # {} \/ toInit # NoScope => onSale # {}
  /\ present \subseteq {EventScope, DefaultType}
  /\ toInit \in {EventScope, DefaultType, NoScope}
  /\ \A y \in Types : left[y] <= Capacity[y]

\* A remaining quantity on its way into a counter is never below the stock: the
\* stock of a type on sale only shrinks.
Covers(n, s) == (s = EventScope => onSale \subseteq {DefaultType}) => n >= left[Counted(s)]
Pending ==
  \A t \in Attempts : pc[t] = "syncing" =>
    /\ onSale # {}
    /\ scope[t] \in Types => scope[t] \in onSale
    /\ Covers(remaining[t], scope[t])

Covered(s) == Covers(counter[s] + Outstanding(s) + owed[s], s)

CounterInv == TypeInv /\ Offered /\ Pending /\ CounterCoversStock

\* An attempt holds a natural number of tickets.
LEMMA HeldIsNat ==
  ASSUME TypeInv, NEW t \in Attempts, NEW s \in Scopes PROVE Held(t, s) \in Nat
<1>1. InFlight(t) /\ reserved[t] \in BOOLEAN
  BY DEF TypeInv, TypeOK
<1>2. reserved[t] => request[t].quantity \in Nat
  BY <1>1, QuantityIsNat DEF InFlight
<1> QED BY <1>2 DEF Held

\* The other attempts stand still.
OthersStill(t) ==
  \A u \in Attempts \ {t} : /\ pc'[u] = pc[u]
                            /\ request'[u] = request[u]
                            /\ scope'[u] = scope[u]
                            /\ reserved'[u] = reserved[u]
                            /\ remaining'[u] = remaining[u]

\* When one attempt moves, the sum of what is held changes by what it holds.
LEMMA OutstandingOfOthers ==
  ASSUME TypeInv, TypeInv', NEW t \in Attempts, OthersStill(t), NEW s \in Scopes
  PROVE  \E rest \in Nat : /\ Outstanding(s) = rest + Held(t, s)
                           /\ Outstanding(s)' = rest + Held(t, s)'
<1> DEFINE f == [u \in Attempts |-> Held(u, s)]
           g == [u \in Attempts |-> Held(u, s)']
           rest == [u \in Attempts \ {t} |-> f[u]]
<1>1. f \in [Attempts -> Nat]
  BY HeldIsNat
<1>2. \A u \in Attempts : Held(u, s)' \in Nat
  <2>1. ASSUME NEW u \in Attempts PROVE Held(u, s)' \in Nat
    <3>1. InFlight(u)' /\ reserved'[u] \in BOOLEAN
      BY DEF TypeInv, TypeOK
    <3>2. reserved'[u] => request'[u].quantity \in Nat
      BY <3>1, QuantityIsNat DEF InFlight
    <3> QED BY <3>2 DEF Held
  <2> QED BY <2>1
<1>3. g \in [Attempts -> Nat]
  BY <1>2
<1>4. \A u \in Attempts \ {t} : f[u] = g[u]
  BY DEF OthersStill, Held
<1>5. [u \in Attempts \ {t} |-> g[u]] = rest
  BY <1>4
<1>6. SumFunction(f) = f[t] + SumFunction(rest) /\ SumFunction(f) \in Nat
  BY <1>1, FinitelyMany, SumTakeOut
<1>7. SumFunction(g) = g[t] + SumFunction(rest) /\ SumFunction(g) \in Nat
  <2> HIDE DEF g, rest
  <2>1. SumFunction(g) = g[t] + SumFunction([u \in Attempts \ {t} |-> g[u]])
        /\ SumFunction(g) \in Nat
    BY <1>3, FinitelyMany, SumTakeOut
  <2> QED BY <2>1, <1>5
<1>8. IsFiniteSet(Attempts \ {t}) /\ rest \in [Attempts \ {t} -> Nat]
  BY <1>1, FinitelyMany, FS_Subset
<1>9. SumFunction(rest) \in Nat
  <2> HIDE DEF rest
  <2> QED BY <1>8, SumTakeOut
<1>10. Outstanding(s) = SumFunction(f) /\ Outstanding(s)' = SumFunction(g)
  BY DEF Outstanding
<1>11. f[t] = Held(t, s) /\ g[t] = Held(t, s)'
  OBVIOUS
<1>12. f[t] \in Nat /\ g[t] \in Nat
  BY <1>1, <1>3
<1> HIDE DEF f, g, rest
<1>13. /\ Outstanding(s) = SumFunction(rest) + Held(t, s)
       /\ Outstanding(s)' = SumFunction(rest) + Held(t, s)'
  BY <1>6, <1>7, <1>9, <1>10, <1>11, <1>12
<1> QED BY <1>9, <1>13

\* A counter stays covered when counter, holding and losses together lose no
\* more than the stock does.
LEMMA BalanceKeepsCover ==
  ASSUME TypeInv, TypeInv', NEW t \in Attempts, OthersStill(t), NEW s \in Scopes,
         Covered(s), onSale' = onSale,
         (s = EventScope => onSale \subseteq {DefaultType}) =>
           counter'[s] + Held(t, s)' + owed'[s] + left[Counted(s)]
             >= counter[s] + Held(t, s) + owed[s] + left'[Counted(s)]
  PROVE  Covered(s)'
<1>1. PICK rest \in Nat : /\ Outstanding(s) = rest + Held(t, s)
                          /\ Outstanding(s)' = rest + Held(t, s)'
  BY OutstandingOfOthers
<1>2. Counted(s) \in Types
  BY TypesAssumption DEF Counted, Scopes
<1>3. /\ counter[s] \in Nat /\ owed[s] \in Nat /\ left[Counted(s)] \in Nat
      /\ counter'[s] \in Nat /\ owed'[s] \in Nat /\ left'[Counted(s)] \in Nat
  BY <1>2 DEF TypeInv, TypeOK
<1>4. Held(t, s) \in Nat
  BY HeldIsNat
<1>5. Held(t, s)' \in Nat
  <2>1. InFlight(t)' /\ reserved'[t] \in BOOLEAN
    BY DEF TypeInv, TypeOK
  <2>2. reserved'[t] => request'[t].quantity \in Nat
    BY <2>1, QuantityIsNat DEF InFlight
  <2> QED BY <2>2 DEF Held
<1>6. Counted(s)' = Counted(s)
  BY DEF Counted
<1>7. CASE s = EventScope => onSale \subseteq {DefaultType}
  <2>1. counter[s] + (rest + Held(t, s)) + owed[s] >= left[Counted(s)]
    BY <1>1, <1>7 DEF Covered, Covers
  <2>2. counter'[s] + (rest + Held(t, s)') + owed'[s] >= left'[Counted(s)]
    BY <1>3, <1>4, <1>5, <1>7, <2>1
  <2> QED BY <1>1, <1>6, <2>2 DEF Covered, Covers
<1>8. CASE ~(s = EventScope => onSale \subseteq {DefaultType})
  BY <1>8 DEF Covered, Covers
<1> QED BY <1>7, <1>8

\* The invariant in terms of single counters.
LEMMA CoverOfEach == CounterCoversStock <=> \A s \in present : Covered(s)
BY DEF CounterCoversStock, Covered, Covers

\* An answered attempt holds nothing.
LEMMA LeaveHolds ==
  ASSUME TypeInv, NEW t \in Attempts, NEW how, Leave(t, how)
  PROVE  OthersStill(t) /\ pc'[t] = how /\ \A s \in Scopes : Held(t, s)' = 0
BY DEF Leave, Goto, OthersStill, Held, TypeInv, TypeOK

\* An attempt that has to give back what it holds still holds it.
LEMMA CompensateHolds ==
  ASSUME TypeInv, NEW t \in Attempts, Compensate(t)
  PROVE  /\ OthersStill(t)
         /\ pc'[t] # "syncing"
         /\ \A s \in Scopes : Held(t, s)' = Held(t, s)
<1>1. CASE reserved[t]
  BY <1>1 DEF Compensate, Goto, local, OthersStill, Held, TypeInv, TypeOK
<1>2. CASE ~reserved[t]
  BY <1>2, LeaveHolds DEF Compensate, Held
<1> QED BY <1>1, <1>2

\* What the scripts do to the other counters, and to their own.
LEMMA ScriptEffects ==
  ASSUME TypeInv, NEW s \in Scopes, NEW q \in Nat
  PROVE  /\ Reserves(s, q) /\ CanReserve(s, q) =>
              /\ present' = present
              /\ counter'[s] + q = counter[s]
              /\ \A r \in Scopes \ {s} : counter'[r] = counter[r]
         /\ Releases(s, q) =>
              /\ present' = present
              /\ s \in present => counter'[s] = counter[s] + q
              /\ \A r \in Scopes \ {s} : counter'[r] = counter[r]
         /\ \A n \in Nat : Sets(s, n) =>
              /\ present' = present \cup {s} /\ owed' = owed
              /\ counter'[s] = n
              /\ \A r \in Scopes \ {s} : counter'[r] = counter[r]
BY DEF TypeInv, TypeOK, Reserves, CanReserve, Releases, Sets

\* Taking tickets and giving them back leaves every counter covered.
LEMMA ReserveAndReleaseKeepCover ==
  ASSUME CounterInv, TypeInv', NEW t \in Attempts,
         Reserve(t) \/ ReserveUnanswered(t) \/ Release(t) \/ ReleaseUnanswered(t)
           \/ ReleaseFails(t)
  PROVE  CounterCoversStock'
<1> DEFINE c == scope[t]
           q == request[t].quantity
<1>1. TypeInv /\ \A s \in present : Covered(s)
  BY CoverOfEach DEF CounterInv
<1>2. c \in Scopes /\ request[t] \in Input
  BY <1>1 DEF TypeInv, InFlight, Reserve, ReserveUnanswered, Release, ReleaseUnanswered,
              ReleaseFails
<1>3. q \in Nat
  BY <1>2, QuantityIsNat
<1>4. onSale' = onSale /\ left' = left /\ present' = present
  BY DEF Reserve, ReserveUnanswered, Release, ReleaseUnanswered, ReleaseFails, Reserves,
         Releases, database
<1>5. present \subseteq Scopes
  BY <1>1 DEF TypeInv, TypeOK
<1>6. ASSUME NEW s \in present PROVE Counted(s) \in Types /\ left[Counted(s)] \in Nat
             /\ counter[s] \in Nat /\ owed[s] \in Nat /\ Held(t, s) \in Nat /\ s \in Scopes
  <2>1. s \in Scopes
    BY <1>5
  <2>2. Counted(s) \in Types
    BY <2>1, TypesAssumption DEF Counted, Scopes
  <2> QED BY <1>1, <2>1, <2>2, HeldIsNat DEF TypeInv, TypeOK
<1>7. CASE Reserve(t)
  <2>1. OthersStill(t)
    BY <1>1, <1>7 DEF Reserve, Goto, OthersStill, TypeInv, TypeOK
  <2>2. \A s \in Scopes : /\ Held(t, s) = 0
                          /\ Held(t, s)' = IF s = c THEN q ELSE 0
    BY <1>1, <1>7 DEF Reserve, Held, InFlight, TypeInv, TypeOK
  <2>3. /\ counter'[c] + q = counter[c]
        /\ \A r \in Scopes \ {c} : counter'[r] = counter[r]
    BY <1>1, <1>2, <1>3, <1>7, ScriptEffects DEF Reserve
  <2>4. owed' = owed
    BY <1>7 DEF Reserve
  <2>5. ASSUME NEW s \in present PROVE Covered(s)'
    <3>1. counter'[s] + Held(t, s)' = counter[s] + Held(t, s)
      BY <1>3, <1>6, <2>2, <2>3, <2>5
    <3>2. counter'[s] \in Nat /\ Held(t, s)' \in Nat
      BY <1>3, <1>6, <2>2, <2>5 DEF TypeInv, TypeOK
    <3>3. counter'[s] + Held(t, s)' + owed'[s] + left[Counted(s)]
             >= counter[s] + Held(t, s) + owed[s] + left'[Counted(s)]
      BY <1>4, <1>6, <2>4, <2>5, <3>1, <3>2
    <3> QED BY <1>1, <1>4, <1>6, <2>1, <2>5, <3>3, BalanceKeepsCover
  <2> QED BY <1>4, <2>5, CoverOfEach DEF CounterCoversStock, Covered, Covers
<1>8. CASE ReserveUnanswered(t)
  <2>1. OthersStill(t)
    BY <1>8 DEF ReserveUnanswered, OthersStill
  <2>2. \A s \in Scopes : Held(t, s)' = Held(t, s)
    BY <1>8 DEF ReserveUnanswered, Held
  <2>3. /\ counter'[c] + q = counter[c]
        /\ \A r \in Scopes \ {c} : counter'[r] = counter[r]
    BY <1>1, <1>2, <1>3, <1>8, ScriptEffects DEF ReserveUnanswered
  <2>4. owed'[c] = owed[c] + q /\ \A r \in Scopes \ {c} : owed'[r] = owed[r]
    BY <1>1, <1>2, <1>8 DEF ReserveUnanswered, TypeInv, TypeOK
  <2>5. ASSUME NEW s \in present PROVE Covered(s)'
    <3>1. counter'[s] \in Nat /\ owed'[s] \in Nat
      BY <1>6, <2>5 DEF TypeInv, TypeOK
    <3>2. counter'[s] + owed'[s] = counter[s] + owed[s]
      BY <1>3, <1>6, <2>3, <2>4, <2>5, <3>1
    <3>3. counter'[s] + Held(t, s)' + owed'[s] + left[Counted(s)]
             >= counter[s] + Held(t, s) + owed[s] + left'[Counted(s)]
      BY <1>4, <1>6, <2>2, <2>5, <3>1, <3>2
    <3> QED BY <1>1, <1>4, <1>6, <2>1, <2>5, <3>3, BalanceKeepsCover
  <2> QED BY <1>4, <2>5, CoverOfEach DEF CounterCoversStock, Covered, Covers
<1>9. CASE Release(t) \/ ReleaseFails(t)
  <2>1. Leave(t, "ended")
    BY <1>9 DEF Release, ReleaseFails
  <2>2. OthersStill(t) /\ \A s \in Scopes : Held(t, s)' = 0
    BY <1>1, <2>1, LeaveHolds
  <2>3. \A s \in Scopes : Held(t, s) # 0 => s = c /\ Held(t, s) = q
    BY DEF Held
  <2>4. ASSUME NEW s \in present PROVE Covered(s)'
    <3>1. counter'[s] \in Nat /\ owed'[s] \in Nat
      BY <1>6, <2>4 DEF TypeInv, TypeOK
    <3>2. CASE Release(t)
      <4>1. owed' = owed
        BY <3>2 DEF Release
      <4>2. counter'[s] >= counter[s] + Held(t, s)
        BY <1>1, <1>2, <1>3, <1>6, <2>3, <2>4, <3>2, ScriptEffects DEF Release
      <4>3. counter'[s] + Held(t, s)' + owed'[s] + left[Counted(s)]
               >= counter[s] + Held(t, s) + owed[s] + left'[Counted(s)]
        BY <1>4, <1>6, <2>2, <2>4, <3>1, <4>1, <4>2
      <4> QED BY <1>1, <1>4, <1>6, <2>2, <2>4, <4>3, BalanceKeepsCover
    <3>3. CASE ReleaseFails(t)
      <4>1. counter' = counter
        BY <3>3 DEF ReleaseFails
      <4>2. owed'[s] >= owed[s] + Held(t, s)
        BY <1>1, <1>3, <1>6, <2>3, <2>4, <3>3 DEF ReleaseFails, TypeInv, TypeOK
      <4>3. counter'[s] + Held(t, s)' + owed'[s] + left[Counted(s)]
               >= counter[s] + Held(t, s) + owed[s] + left'[Counted(s)]
        BY <1>4, <1>6, <2>2, <2>4, <3>1, <4>1, <4>2
      <4> QED BY <1>1, <1>4, <1>6, <2>2, <2>4, <4>3, BalanceKeepsCover
    <3> QED BY <1>9, <3>2, <3>3
  <2> QED BY <1>4, <2>4, CoverOfEach DEF CounterCoversStock, Covered, Covers
<1>10. CASE ReleaseUnanswered(t)
  <2>1. OthersStill(t)
    BY <1>10 DEF ReleaseUnanswered, OthersStill
  <2>2. \A s \in Scopes : Held(t, s)' = Held(t, s)
    BY <1>10 DEF ReleaseUnanswered, Held
  <2>3. owed' = owed
    BY <1>10 DEF ReleaseUnanswered
  <2>4. ASSUME NEW s \in present PROVE Covered(s)'
    <3>1. Releases(c, q)
      BY <1>10 DEF ReleaseUnanswered
    <3>2. counter'[s] >= counter[s] /\ counter'[s] \in Nat
      <4>1. s = c => counter'[s] = counter[s] + q
        BY <1>1, <1>2, <1>3, <2>4, <3>1, ScriptEffects
      <4>2. s # c => counter'[s] = counter[s]
        BY <1>1, <1>2, <1>3, <1>6, <2>4, <3>1, ScriptEffects
      <4> QED BY <1>3, <1>6, <2>4, <4>1, <4>2
    <3>3. counter'[s] + Held(t, s)' + owed'[s] + left[Counted(s)]
             >= counter[s] + Held(t, s) + owed[s] + left'[Counted(s)]
      BY <1>4, <1>6, <2>2, <2>3, <2>4, <3>2
    <3> QED BY <1>1, <1>4, <1>6, <2>1, <2>4, <3>3, BalanceKeepsCover
  <2> QED BY <1>4, <2>4, CoverOfEach DEF CounterCoversStock, Covered, Covers
<1> QED BY <1>7, <1>8, <1>9, <1>10

\* The numbers a covered counter is compared in.
LEMMA CounterNumbers ==
  ASSUME TypeInv, NEW t \in Attempts, NEW s \in present
  PROVE  /\ s \in Scopes /\ Counted(s) \in Types /\ left[Counted(s)] \in Nat
         /\ counter[s] \in Nat /\ owed[s] \in Nat /\ Held(t, s) \in Nat
<1>1. s \in Scopes
  BY DEF TypeInv, TypeOK
<1>2. Counted(s) \in Types
  BY <1>1, TypesAssumption DEF Counted, Scopes
<1> QED BY <1>1, <1>2, HeldIsNat DEF TypeInv, TypeOK

\* Steps that move neither tickets nor counters.
LEMMA QuietStepsKeepCover ==
  ASSUME CounterInv, TypeInv', NEW t \in Attempts,
         \/ \E in \in Input, s \in Scopes \cup {NoScope} : Arrive(t, in, s)
         \/ SoldOut(t) \/ ReserveUnknown(t) \/ ReadAnchor(t) \/ NotDecided(t)
  PROVE  CounterCoversStock' /\ Offered' /\ Pending'
<1>1. TypeInv /\ Offered /\ Pending /\ \A s \in present : Covered(s)
  BY CoverOfEach DEF CounterInv
<1>2. UNCHANGED <<database, control, valkey>>
  BY DEF Arrive, SoldOut, ReserveUnknown, ReadAnchor, NotDecided
<1>3. OthersStill(t) /\ pc'[t] # "syncing" /\ \A s \in Scopes : Held(t, s)' = Held(t, s)
  <2>1. CASE \E in \in Input, s \in Scopes \cup {NoScope} : Arrive(t, in, s)
    BY <1>1, <2>1 DEF Arrive, Goto, OthersStill, Held, InFlight, TypeInv, TypeOK
  <2>2. CASE NotDecided(t)
    BY <1>1, <2>2, CompensateHolds DEF NotDecided
  <2>3. CASE SoldOut(t) /\ Leave(t, "refused")
    <3>1. ~reserved[t]
      BY <1>1, <2>3 DEF SoldOut, InFlight, TypeInv
    <3> QED BY <1>1, <2>3, <3>1, LeaveHolds DEF Held
  <2>4. CASE SoldOut(t) /\ ~Leave(t, "refused")
    BY <1>1, <2>4 DEF SoldOut, Goto, OthersStill, Held, TypeInv, TypeOK
  <2>5. CASE ReserveUnknown(t) \/ ReadAnchor(t)
    BY <1>1, <2>5 DEF ReserveUnknown, ReadAnchor, Goto, OthersStill, Held, TypeInv, TypeOK
  <2> QED BY <2>1, <2>2, <2>3, <2>4, <2>5
<1>4. Offered'
  BY <1>1, <1>2 DEF Offered, database, control, valkey
<1>5. Pending'
  BY <1>1, <1>2, <1>3 DEF Pending, Covers, Counted, OthersStill, database
<1>6. ASSUME NEW s \in present PROVE Covered(s)'
  <2>1. /\ s \in Scopes /\ Counted(s) \in Types /\ left[Counted(s)] \in Nat
        /\ counter[s] \in Nat /\ owed[s] \in Nat /\ Held(t, s) \in Nat
    BY <1>1, CounterNumbers
  <2>2. counter'[s] + Held(t, s)' + owed'[s] + left[Counted(s)]
          >= counter[s] + Held(t, s) + owed[s] + left'[Counted(s)]
    BY <1>2, <1>3, <2>1 DEF database, valkey
  <2> QED BY <1>1, <1>2, <1>3, <1>6, <2>1, <2>2, BalanceKeepsCover DEF database
<1>7. CounterCoversStock'
  BY <1>2, <1>6, CoverOfEach DEF CounterCoversStock, Covered, Covers, valkey
<1> QED BY <1>4, <1>5, <1>7

\* The other steps that touch a counter leave what is offered and pending alone.
LEMMA ReserveAndReleaseKeepPending ==
  ASSUME CounterInv, TypeInv', NEW t \in Attempts,
         Reserve(t) \/ ReserveUnanswered(t) \/ Release(t) \/ ReleaseUnanswered(t)
           \/ ReleaseFails(t)
  PROVE  Offered' /\ Pending'
<1>1. TypeInv /\ Offered /\ Pending
  BY DEF CounterInv
<1>2. UNCHANGED <<database, control>> /\ present' = present
  BY DEF Reserve, ReserveUnanswered, Release, ReleaseUnanswered, ReleaseFails, Reserves,
         Releases
<1>3. OthersStill(t) /\ pc'[t] # "syncing"
  <2>1. CASE Reserve(t)
    BY <1>1, <2>1 DEF Reserve, Goto, OthersStill, TypeInv, TypeOK
  <2>2. CASE ReserveUnanswered(t) \/ ReleaseUnanswered(t)
    BY <2>2 DEF ReserveUnanswered, ReleaseUnanswered, OthersStill
  <2>3. CASE Release(t) \/ ReleaseFails(t)
    BY <1>1, <2>3, LeaveHolds DEF Release, ReleaseFails
  <2> QED BY <2>1, <2>2, <2>3
<1>4. Offered'
  BY <1>1, <1>2 DEF Offered, database, control
<1>5. Pending'
  BY <1>1, <1>2, <1>3 DEF Pending, Covers, Counted, OthersStill, database
<1> QED BY <1>4, <1>5

\* A decision shrinks the stock by what its attempt held or by what the counter
\* never lost, and what it reports covers the stock.
LEMMA DecisionKeepsCover ==
  ASSUME CounterInv, TypeInv', NEW t \in Attempts, NEW y \in Types,
         NEW status \in {"confirmed", "rejected"},
         Decide(t, y, status) \/ DecideReplyLost(t, y, status)
  PROVE  CounterCoversStock' /\ Offered' /\ Pending'
<1>1. TypeInv /\ Offered /\ Pending /\ \A s \in present : Covered(s)
  BY CoverOfEach DEF CounterInv
<1>2. pc[t] = "anchored" /\ Decides(t, y, status) /\ UNCHANGED <<control, valkey>>
  BY DEF Decide, DecideReplyLost
<1>3. /\ onSale' = onSale /\ y \in onSale
      /\ left' \in [Types -> Nat]
      /\ \/ /\ status = "confirmed"
            /\ left'[y] + request[t].quantity = left[y]
            /\ \A z \in Types \ {y} : left'[z] = left[z]
         \/ /\ status = "rejected"
            /\ left' = left
  BY <1>1, <1>2, DecisionTypes
<1>4. request[t].quantity \in Nat /\ left \in [Types -> Nat]
  BY <1>1, <1>2, QuantityIsNat DEF TypeInv, TypeOK, InFlight
<1>5. \A z \in Types : left'[z] <= left[z] /\ left'[z] \in Nat /\ left[z] \in Nat
  BY <1>3, <1>4
<1>6. \A u \in Attempts, s \in Scopes : Held(u, s) # 0 => Held(u, s) = request[u].quantity
  BY DEF Held
<1>7. /\ OthersStill(t)
      /\ \/ pc'[t] # "syncing" /\ \A s \in Scopes : Held(t, s)' = Held(t, s)
         \/ /\ pc'[t] # "syncing" /\ \A s \in Scopes : Held(t, s)' = 0
            /\ status = "confirmed" /\ ~(scope[t] \in Types /\ scope[t] # y)
         \/ /\ pc'[t] = "syncing" /\ MaySync(t, y) /\ \A s \in Scopes : Held(t, s)' = Held(t, s)
            /\ scope'[t] = scope[t]
            /\ remaining'[t] = IF scope[t] = EventScope THEN EventLeft' ELSE left'[y]
  <2>1. CASE Compensate(t)
    BY <1>1, <2>1, CompensateHolds
  <2>2. CASE ~Compensate(t)
    <3>1. CASE /\ status = "confirmed" /\ ~(scope[t] \in Types /\ scope[t] # y)
               /\ Leave(t, "ended")
      BY <1>1, <3>1, LeaveHolds
    <3>2. CASE /\ MaySync(t, y)
               /\ remaining' = [remaining EXCEPT ![t] = IF scope[t] = EventScope
                                                        THEN EventLeft' ELSE left'[y]]
               /\ Goto(t, "syncing")
               /\ UNCHANGED <<request, scope, reserved, anchor, resent>>
      BY <1>1, <3>2 DEF Goto, OthersStill, Held, TypeInv, TypeOK
    <3> QED BY <2>2, <3>1, <3>2 DEF Decide, DecideReplyLost
  <2> QED BY <2>1, <2>2
<1>8. Offered'
  <2>1. \A z \in Types : left'[z] <= Capacity[z]
    BY <1>1, <1>5, CapacityAssumption DEF Offered
  <2> QED BY <1>1, <1>2, <1>3, <2>1 DEF Offered, control, valkey
<1>9. Pending'
  <2>1. ASSUME NEW u \in Attempts \ {t}, pc'[u] = "syncing"
        PROVE  /\ onSale' # {}
               /\ scope'[u] \in Types => scope'[u] \in onSale'
               /\ Covers(remaining[u], scope[u])'
    <3>1. /\ scope[u] \in Types => scope[u] \in onSale
          /\ Covers(remaining[u], scope[u])
          /\ scope'[u] = scope[u] /\ remaining'[u] = remaining[u]
          /\ onSale # {} /\ scope[u] \in Scopes /\ remaining[u] \in Nat
      BY <1>1, <1>7, <2>1 DEF Pending, OthersStill, TypeInv, TypeOK, InFlight
    <3>2. Counted(scope[u]) \in Types
      BY <3>1, TypesAssumption DEF Counted, Scopes
    <3> QED BY <1>3, <1>5, <3>1, <3>2 DEF Covers, Counted
  <2>2. ASSUME pc'[t] = "syncing"
        PROVE  /\ onSale' # {}
               /\ scope'[t] \in Types => scope'[t] \in onSale'
               /\ Covers(remaining[t], scope[t])'
    <3>1. /\ MaySync(t, y) /\ scope'[t] = scope[t]
          /\ remaining'[t] = IF scope[t] = EventScope THEN EventLeft' ELSE left'[y]
      BY <1>7, <2>2
    <3>2. scope[t] \in Types => scope[t] = y
      BY <3>1 DEF MaySync
    <3>3. CASE scope[t] = EventScope
      <4>1. onSale' \in SUBSET Types /\ left' \in [Types -> Nat]
        BY <1>3 DEF TypeInv, TypeOK
      <4>2. \A z \in onSale' : EventLeft' >= left'[z]
        BY <4>1, EventLeftCovers DEF EventLeft
      <4>3. DefaultType \in onSale'
        BY <1>1, <1>3 DEF Offered
      <4> QED BY <1>3, <3>1, <3>3, <4>2, <4>3, ScopesAssumption DEF Covers, Counted
    <3>4. CASE scope[t] # EventScope
      <4>1. scope[t] = y
        BY <1>1, <3>1, <3>2, <3>4 DEF MaySync, TypeInv, TypeOK, Scopes
      <4> QED BY <1>3, <1>5, <3>1, <3>4, <4>1 DEF Covers, Counted
    <3> QED BY <3>3, <3>4
  <2> QED BY <2>1, <2>2 DEF Pending
<1>10. ASSUME NEW s \in present PROVE Covered(s)'
  <2>1. /\ s \in Scopes /\ Counted(s) \in Types /\ left[Counted(s)] \in Nat
        /\ counter[s] \in Nat /\ owed[s] \in Nat /\ Held(t, s) \in Nat
    BY <1>1, CounterNumbers
  <2>2. counter' = counter /\ owed' = owed
    BY <1>2 DEF valkey
  <2>3. ASSUME s = EventScope => onSale \subseteq {DefaultType}
        PROVE  counter'[s] + Held(t, s)' + owed'[s] + left[Counted(s)]
                 >= counter[s] + Held(t, s) + owed[s] + left'[Counted(s)]
    <3>1. CASE \A r \in Scopes : Held(t, r)' = Held(t, r)
      BY <1>5, <2>1, <2>2, <3>1
    <3>2. CASE /\ \A r \in Scopes : Held(t, r)' = 0
               /\ status = "confirmed" /\ ~(scope[t] \in Types /\ scope[t] # y)
      <4>1. CASE Held(t, s) = 0
        BY <1>5, <2>1, <2>2, <3>2, <4>1
      <4>2. CASE Held(t, s) # 0
        <5>1. scope[t] = s /\ Held(t, s) = request[t].quantity
          BY <4>2 DEF Held
        <5>2. Counted(s) = y
          BY <1>3, <2>1, <2>3, <3>2, <5>1 DEF Counted, Scopes
        <5>3. left'[y] + request[t].quantity = left[y]
          BY <1>3, <3>2
        <5> QED BY <1>4, <1>5, <2>1, <2>2, <3>2, <5>1, <5>2, <5>3
      <4> QED BY <4>1, <4>2
    <3> QED BY <1>7, <3>1, <3>2
  <2> QED BY <1>1, <1>3, <1>7, <1>10, <2>1, <2>3, BalanceKeepsCover
<1>11. CounterCoversStock'
  BY <1>2, <1>10, CoverOfEach DEF CounterCoversStock, Covered, Covers, valkey
<1> QED BY <1>8, <1>9, <1>11

\* A sync writes a value that covers the stock, over whatever was there.
LEMMA SyncKeepsCover ==
  ASSUME CounterInv, TypeInv', NEW t \in Attempts, Sync(t) \/ SyncUnanswered(t)
  PROVE  CounterCoversStock' /\ Offered' /\ Pending'
<1> DEFINE c == scope[t]
           n == remaining[t]
<1>1. TypeInv /\ Offered /\ Pending /\ \A s \in present : Covered(s)
  BY CoverOfEach DEF CounterInv
<1>2. /\ pc[t] = "syncing" /\ c \in Scopes /\ n \in Nat
      /\ UNCHANGED <<database, control>>
      /\ onSale # {} /\ Covers(n, c)
  BY <1>1 DEF Sync, SyncUnanswered, TypeInv, TypeOK, InFlight, Pending
<1>3. OthersStill(t) /\ (pc'[t] = "syncing" => UNCHANGED <<pc, local>>)
  <2>1. CASE Sync(t)
    BY <1>1, <2>1, LeaveHolds, CompensateHolds DEF Sync
  <2>2. CASE SyncUnanswered(t)
    BY <2>2 DEF SyncUnanswered, OthersStill, local
  <2> QED BY <2>1, <2>2
<1>4. Pending'
  BY <1>1, <1>2, <1>3 DEF Pending, Covers, Counted, OthersStill, database, local
<1>5. CASE Compensate(t) /\ UNCHANGED valkey
  <2>1. \A s \in Scopes : Held(t, s)' = Held(t, s)
    BY <1>1, <1>5, CompensateHolds
  <2>2. ASSUME NEW s \in present PROVE Covered(s)'
    <3>1. /\ s \in Scopes /\ Counted(s) \in Types /\ left[Counted(s)] \in Nat
          /\ counter[s] \in Nat /\ owed[s] \in Nat /\ Held(t, s) \in Nat
      BY <1>1, CounterNumbers
    <3>2. counter'[s] + Held(t, s)' + owed'[s] + left[Counted(s)]
            >= counter[s] + Held(t, s) + owed[s] + left'[Counted(s)]
      BY <1>2, <1>5, <2>1, <3>1 DEF database, valkey
    <3> QED BY <1>1, <1>2, <1>3, <2>2, <3>1, <3>2, BalanceKeepsCover DEF database
  <2>3. Offered'
    BY <1>1, <1>2, <1>5 DEF Offered, database, control, valkey
  <2> QED BY <1>4, <1>5, <2>2, <2>3, CoverOfEach
          DEF CounterCoversStock, Covered, Covers, valkey
<1>6. CASE CanSync(c, anchor[t]) /\ Sets(c, n)
  <2> PICK d \in Scopes : d = c
    BY <1>2
  <2>1. /\ present' = present \cup {d} /\ owed' = owed
        /\ counter'[d] = n
        /\ \A r \in Scopes \ {d} : counter'[r] = counter[r]
    BY <1>1, <1>2, <1>6, ScriptEffects
  <2>2. Offered'
    <3>1. present' \subseteq {EventScope, DefaultType}
      BY <1>1, <1>2, <1>6, <2>1 DEF CanSync, Scopes, Offered
    <3> QED BY <1>1, <1>2, <3>1 DEF Offered, database, control
  <2>3. \A s \in Scopes : Held(t, s)' <= Held(t, s) /\ Held(t, s)' \in Nat
                          /\ Held(t, s) \in Nat
    <3>1. \A s \in Scopes : Held(t, s) \in Nat
      BY <1>1, HeldIsNat
    <3>2. \A s \in Scopes : Held(t, s)' = 0 \/ Held(t, s)' = Held(t, s)
      <4>1. CASE Sync(t)
        BY <1>1, <4>1, LeaveHolds, CompensateHolds DEF Sync
      <4>2. CASE SyncUnanswered(t)
        BY <4>2 DEF SyncUnanswered, Held, local
      <4> QED BY <4>1, <4>2
    <3> QED BY <3>1, <3>2
  <2>4. Covered(d)'
    <3>1. PICK rest \in Nat : Outstanding(d)' = rest + Held(t, d)'
      BY <1>1, <1>2, <1>3, OutstandingOfOthers
    <3>2. owed'[d] \in Nat /\ Held(t, d)' \in Nat
      BY <1>2, <2>3 DEF TypeInv, TypeOK
    <3>3. Counted(d) \in Types /\ left[Counted(d)] \in Nat
      BY <1>1, <1>2, TypesAssumption DEF Counted, Scopes, TypeInv, TypeOK
    <3>4. Outstanding(d)' \in Nat
      BY <3>1, <3>2
    <3>5. (d = EventScope => onSale \subseteq {DefaultType})
            => n + Outstanding(d)' + owed'[d] >= left[Counted(d)]
      BY <1>2, <3>2, <3>3, <3>4 DEF Covers
    <3> QED BY <1>2, <2>1, <3>5 DEF Covered, Covers, Counted, database
  <2>5. ASSUME NEW s \in present \ {d} PROVE Covered(s)'
    <3>1. /\ s \in Scopes /\ Counted(s) \in Types /\ left[Counted(s)] \in Nat
          /\ counter[s] \in Nat /\ owed[s] \in Nat /\ Held(t, s) \in Nat
      BY <1>1, CounterNumbers
    <3>2. Held(t, s)' = Held(t, s)
      <4>1. CASE Sync(t) /\ reserved[t]
        BY <1>1, <2>5, <3>1, <4>1, LeaveHolds, CompensateHolds DEF Sync, Held
      <4>2. CASE Sync(t) /\ ~reserved[t]
        BY <1>1, <3>1, <4>2, LeaveHolds, CompensateHolds DEF Sync, Held
      <4>3. CASE SyncUnanswered(t)
        BY <4>3 DEF SyncUnanswered, Held, local
      <4> QED BY <4>1, <4>2, <4>3
    <3>3. counter'[s] + Held(t, s)' + owed'[s] + left[Counted(s)]
            >= counter[s] + Held(t, s) + owed[s] + left'[Counted(s)]
      BY <1>2, <2>1, <2>5, <3>1, <3>2 DEF database
    <3> QED BY <1>1, <1>2, <1>3, <2>5, <3>1, <3>3, BalanceKeepsCover DEF database
  <2>6. \A s \in present' : Covered(s)'
    BY <2>1, <2>4, <2>5
  <2> QED BY <1>4, <2>2, <2>6, CoverOfEach DEF CounterCoversStock, Covered, Covers
<1> QED BY <1>5, <1>6 DEF Sync, SyncUnanswered

\* The Event's creation, its further types, the mode and Valkey itself.
LEMMA OtherKeepsCover ==
  ASSUME CounterInv, TypeInv', Other
  PROVE  CounterCoversStock' /\ Offered' /\ Pending'
<1>1. TypeInv /\ Offered /\ Pending /\ \A s \in present : Covered(s)
  BY CoverOfEach DEF CounterInv
<1>2. UNCHANGED <<pc, local>>
  BY DEF Other, CreateEvent, InitCounter, InitFails, AddTicketType, SwitchMode,
         PlansExpire, Forget
<1>3. \A s \in Scopes : Outstanding(s)' = Outstanding(s)
  BY <1>2 DEF Outstanding, Held, local
<1>4. ASSUME NEW t \in Attempts, pc[t] = "syncing"
      PROVE  /\ onSale # {} /\ Covers(remaining[t], scope[t])
             /\ scope[t] \in Scopes
             /\ scope[t] \in Types => scope[t] \in onSale
  BY <1>1, <1>4 DEF Pending, TypeInv, InFlight
<1>5. CASE CreateEvent
  <2>1. /\ onSale = {} /\ onSale' = {DefaultType}
        /\ left' = [left EXCEPT ![DefaultType] = Capacity[DefaultType]]
        /\ toInit' \in {EventScope, DefaultType}
        /\ present' = present
    BY <1>5 DEF CreateEvent, Sale!Offer, valkey
  <2>2. present = {} /\ present' = {}
    BY <1>1, <2>1 DEF Offered
  <2>3. Offered'
    BY <1>1, <2>1, <2>2, CapacityAssumption DEF Offered, TypeInv, TypeOK
  <2>4. Pending'
    BY <1>2, <1>4, <2>1 DEF Pending, local
  <2> QED BY <2>2, <2>3, <2>4 DEF CounterCoversStock
<1>6. CASE InitCounter
  <2>1. /\ toInit \in {EventScope, DefaultType} /\ onSale # {}
        /\ Sets(toInit, Capacity[DefaultType]) /\ toInit' = NoScope
        /\ UNCHANGED database
    BY <1>1, <1>6 DEF InitCounter, Offered
  <2> PICK d \in {EventScope, DefaultType} : d = toInit
    BY <2>1
  <2>2. Capacity[DefaultType] \in Nat /\ d \in Scopes
    BY <2>1, CapacityAssumption, TypesAssumption DEF Scopes
  <2>3. /\ present' = present \cup {d} /\ owed' = owed
        /\ counter'[d] = Capacity[DefaultType]
        /\ \A r \in Scopes \ {d} : counter'[r] = counter[r]
    BY <1>1, <2>1, <2>2, ScriptEffects
  <2>4. Offered'
    BY <1>1, <2>1, <2>3 DEF Offered, database
  <2>5. Pending'
    BY <1>1, <1>2, <2>1 DEF Pending, Covers, Counted, local, database
  <2>6. Covered(d)'
    <3>1. Counted(d) = DefaultType
      BY <2>1 DEF Counted
    <3>2. left[DefaultType] <= Capacity[DefaultType] /\ left[DefaultType] \in Nat
      BY <1>1, TypesAssumption DEF Offered, TypeInv, TypeOK
    <3>3. owed[d] \in Nat /\ Outstanding(d) \in Nat
      <4> DEFINE f == [u \in Attempts |-> Held(u, d)]
      <4>1. f \in [Attempts -> Nat]
        BY <1>1, <2>2, HeldIsNat
      <4>2. SumFunction(f) \in Nat
        <5> HIDE DEF f
        <5> QED BY <4>1, FinitelyMany, SumTakeOut
      <4> QED BY <1>1, <2>2, <4>2 DEF TypeInv, TypeOK, Outstanding
    <3>4. Capacity[DefaultType] + Outstanding(d) + owed[d] >= left[DefaultType]
      BY <2>2, <3>2, <3>3
    <3>5. counter'[d] + Outstanding(d)' + owed'[d] >= left'[DefaultType]
      BY <1>3, <2>1, <2>2, <2>3, <3>4 DEF database
    <3> QED BY <2>1, <2>3, <3>1, <3>5 DEF Covered, Covers, Counted
  <2>7. ASSUME NEW s \in present \ {d} PROVE Covered(s)'
    <3>1. s \in Scopes /\ Covered(s)
      BY <1>1 DEF TypeInv, TypeOK
    <3> QED BY <1>3, <2>1, <2>3, <2>7, <3>1 DEF Covered, Covers, Counted, database
  <2> QED BY <2>3, <2>4, <2>5, <2>6, <2>7 DEF CounterCoversStock, Covered, Covers
<1>7. CASE InitFails \/ SwitchMode \/ PlansExpire
  <2>1. UNCHANGED <<database, valkey>> /\ toInit' \in {toInit, NoScope}
    BY <1>7 DEF InitFails, SwitchMode, PlansExpire
  <2>2. Offered' /\ Pending'
    BY <1>1, <1>2, <2>1 DEF Offered, Pending, Covers, Counted, local, database, valkey
  <2>3. \A s \in present : Covered(s)'
    BY <1>1, <1>3, <2>1 DEF Covered, Covers, Counted, database, valkey, TypeInv, TypeOK
  <2> QED BY <2>1, <2>2, <2>3, CoverOfEach DEF CounterCoversStock, Covered, Covers, valkey
<1>8. ASSUME NEW y \in Types, AddTicketType(y)
      PROVE  CounterCoversStock' /\ Offered' /\ Pending'
  <2>1. /\ onSale # {} /\ y \notin onSale /\ DefaultType \in onSale
        /\ onSale' = onSale \cup {y}
        /\ left' = [left EXCEPT ![y] = Capacity[y]]
        /\ UNCHANGED <<control, valkey>>
    BY <1>1, <1>8 DEF AddTicketType, Sale!Offer, Offered
  <2>2. ~(onSale' \subseteq {DefaultType}) /\ y # DefaultType
    BY <2>1
  <2>3. \A z \in Types \ {y} : left'[z] = left[z]
    BY <1>1, <2>1 DEF TypeInv, TypeOK
  <2>4. Offered'
    BY <1>1, <2>1, CapacityAssumption DEF Offered, control, valkey, TypeInv, TypeOK
  <2>5. Pending'
    <3>1. ASSUME NEW t \in Attempts, pc'[t] = "syncing"
          PROVE  Covers(remaining[t], scope[t])' /\ (scope'[t] \in Types => scope'[t] \in onSale')
      <4>1. /\ pc[t] = "syncing" /\ scope'[t] = scope[t] /\ remaining'[t] = remaining[t]
        BY <1>2, <3>1 DEF local
      <4>2. CASE scope[t] = EventScope
        BY <2>2, <4>1, <4>2, ScopesAssumption DEF Covers
      <4>3. CASE scope[t] # EventScope
        <5>1. scope[t] \in Types \ {y}
          BY <1>4, <2>1, <4>1, <4>3 DEF Scopes
        <5> QED BY <1>4, <2>1, <2>3, <4>1, <4>3, <5>1 DEF Covers, Counted
      <4> QED BY <4>2, <4>3
    <3> QED BY <2>1, <3>1 DEF Pending
  <2>6. ASSUME NEW s \in present PROVE Covered(s)'
    <3>1. CASE s = EventScope
      BY <2>2, <3>1 DEF Covered, Covers
    <3>2. CASE s # EventScope
      <4>1. s = DefaultType
        BY <1>1, <3>2 DEF Offered
      <4>2. s \in Scopes /\ Counted(s) = DefaultType /\ left'[DefaultType] = left[DefaultType]
        BY <2>2, <2>3, <3>2, <4>1, TypesAssumption DEF Counted, Scopes
      <4> QED BY <1>1, <1>3, <2>1, <2>6, <3>2, <4>2 DEF Covered, Covers, Counted, valkey
    <3> QED BY <3>1, <3>2
  <2> QED BY <2>1, <2>4, <2>5, <2>6, CoverOfEach DEF CounterCoversStock, Covered, Covers, valkey
<1>9. ASSUME NEW r \in Scopes, Forget(r)
      PROVE  CounterCoversStock' /\ Offered' /\ Pending'
  <2>1. /\ present' = present \ {r} /\ UNCHANGED <<database, control>>
        /\ \A s \in Scopes \ {r} : counter'[s] = counter[s] /\ owed'[s] = owed[s]
    BY <1>1, <1>9 DEF Forget, TypeInv, TypeOK
  <2>2. Offered' /\ Pending'
    BY <1>1, <1>2, <2>1 DEF Offered, Pending, Covers, Counted, local, database, control
  <2>3. ASSUME NEW s \in present \ {r} PROVE Covered(s)'
    <3>1. s \in Scopes /\ Covered(s)
      BY <1>1 DEF TypeInv, TypeOK
    <3> QED BY <1>3, <2>1, <2>3, <3>1 DEF Covered, Covers, Counted, database
  <2> QED BY <2>1, <2>2, <2>3 DEF CounterCoversStock, Covered, Covers
<1> QED BY <1>5, <1>6, <1>7, <1>8, <1>9 DEF Other

\* The invariant is inductive.
LEMMA CounterInvNext == CounterInv /\ [Next]_vars => CounterInv'
<1> SUFFICES ASSUME CounterInv, [Next]_vars PROVE CounterInv'
  OBVIOUS
<1>1. TypeInv'
  BY TypeInvNext DEF CounterInv
<1>2. CASE UNCHANGED vars
  <2>1. CounterCoversStock'
    BY <1>2 DEF CounterInv, vars, database, control, valkey, local, CounterCoversStock,
                Outstanding, Held, Counted
  <2>2. Offered' /\ Pending'
    BY <1>2 DEF CounterInv, vars, database, control, valkey, local, Offered, Pending,
                Covers, Counted
  <2> QED BY <1>1, <2>1, <2>2 DEF CounterInv
<1>3. ASSUME NEW t \in Attempts, Purchase(t) \/ Fault(t)
      PROVE  CounterCoversStock' /\ Offered' /\ Pending'
  BY <1>1, <1>3, ReserveAndReleaseKeepCover, ReserveAndReleaseKeepPending, QuietStepsKeepCover,
     DecisionKeepsCover, SyncKeepsCover DEF Purchase, Fault
<1>4. CASE Other
  BY <1>1, <1>4, OtherKeepsCover DEF CounterInv
<1> QED BY <1>1, <1>2, <1>3, <1>4 DEF Next, CounterInv

\* It holds at first.
LEMMA CounterInvInit == Init => CounterInv
<1> SUFFICES ASSUME Init PROVE CounterInv
  OBVIOUS
<1>1. TypeInv
  BY TypeInvInit
<1>2. Offered /\ Pending /\ CounterCoversStock
  BY CapacityAssumption DEF Init, Sale!Init, Offered, Pending, CounterCoversStock
<1> QED BY <1>1, <1>2 DEF CounterInv

\* No buyer is turned away by a counter that is short for no reason: in every
\* reachable state the stock is covered by the counter, the reservations in
\* flight and the tickets lost with a reply.
THEOREM CountersCoverStock == Spec => []CounterCoversStock
<1>1. CounterInv => CounterCoversStock
  BY DEF CounterInv
<1> QED BY <1>1, CounterInvInit, CounterInvNext, PTL DEF Spec

-----------------------------------------------------------------------------
(* Reservations and later syncs.                                           *)

HoldsFrom(u, s) == reserved[u] /\ scope[u] = s

\* A reservation's anchor is a revision its counter has had since it exists, so
\* a sync that finds the counter at a revision finds no reservation beyond it.
\* It takes that a Ticket Type's counter is made once: nobody holds tickets from
\* one that createEvent has yet to initialise, and no sync makes it up.
Anchored ==
  /\ \A u \in Attempts : reserved[u] /\ scope[u] \in Types =>
       /\ pc[u] # "gated" /\ anchor[u] \in Nat
       /\ scope[u] \in present => anchor[u] <= revision[scope[u]]
  /\ toInit \in Types => /\ toInit \notin present
                         /\ \A u \in Attempts : ~HoldsFrom(u, toInit)
  /\ onSale = {} => \A u \in Attempts : ~reserved[u]

\* What an attempt's step leaves of the counters of the types.
LEMMA AttemptMovesUp ==
  ASSUME TypeInv, NEW t \in Attempts, Purchase(t) \/ Fault(t)
  PROVE  /\ onSale' = onSale /\ toInit' = toInit
         /\ \A s \in Types : s \in present' => s \in present /\ revision'[s] >= revision[s]
<1>1. onSale' = onSale /\ toInit' = toInit
  <2>1. ASSUME NEW y \in Types, NEW status \in {"confirmed", "rejected"}, Decides(t, y, status)
        PROVE  onSale' = onSale
    BY <2>1 DEF Decides, Sale!Sell, Sale!TurnDown, Sale!Record
  <2> QED
    BY <2>1 DEF Purchase, Fault, Arrive, Reserve, SoldOut, ReserveUnknown, ReadAnchor,
                NotDecided, Decide, Sync, Release, ReserveUnanswered, SyncUnanswered,
                ReleaseUnanswered, ReleaseFails, DecideReplyLost, database, control
<1>2. CASE UNCHANGED <<present, revision>>
  BY <1>1, <1>2 DEF TypeInv, TypeOK, Scopes
<1>3. CASE Reserve(t) \/ ReserveUnanswered(t) \/ Release(t) \/ ReleaseUnanswered(t)
  <2>1. PICK c : c = scope[t]
    OBVIOUS
  <2>2. /\ present' = present
        /\ revision' = [revision EXCEPT ![c] = @ + 1] \/ revision' = revision
    BY <1>3, <2>1 DEF Reserve, ReserveUnanswered, Release, ReleaseUnanswered, Reserves,
                      Releases
  <2> QED BY <1>1, <2>2 DEF TypeInv, TypeOK, Scopes
<1>4. CASE Sync(t) \/ SyncUnanswered(t)
  <2>1. CASE UNCHANGED valkey
    BY <1>2, <2>1 DEF valkey
  <2>2. CASE CanSync(scope[t], anchor[t]) /\ Sets(scope[t], remaining[t])
    <3>1. PICK c : c = scope[t]
      OBVIOUS
    <3>2. /\ c \in Types => c \in present
          /\ present' = present \cup {c}
          /\ revision' = [revision EXCEPT ![c] = @ + 1]
      BY <2>2, <3>1 DEF CanSync, Sets
    <3> QED BY <1>1, <3>2 DEF TypeInv, TypeOK, Scopes
  <2> QED BY <1>4, <2>1, <2>2 DEF Sync, SyncUnanswered
<1> QED
  BY <1>2, <1>3, <1>4
  DEF Purchase, Fault, Arrive, SoldOut, ReserveUnknown, ReadAnchor, NotDecided, Decide,
      ReleaseFails, DecideReplyLost, valkey

\* The other attempts keep what they hold, and its anchor; this one either keeps
\* its own, or holds nothing of a type, or has just reserved.
LEMMA AttemptHolds ==
  ASSUME TypeInv, NEW t \in Attempts, Purchase(t) \/ Fault(t)
  PROVE  /\ \A u \in Attempts \ {t} : /\ pc'[u] = pc[u] /\ scope'[u] = scope[u]
                                     /\ reserved'[u] = reserved[u] /\ anchor'[u] = anchor[u]
         /\ \/ ~reserved'[t]
            \/ /\ reserved[t] /\ scope'[t] = scope[t]
               /\ scope[t] \in Types /\ pc[t] # "gated"
                    => anchor'[t] = anchor[t] /\ pc'[t] # "gated"
            \/ /\ scope'[t] = scope[t] /\ scope[t] \in present /\ onSale' = onSale
               /\ scope[t] \in Types => /\ pc'[t] # "gated"
                                        /\ anchor'[t] = revision[scope[t]] + 1
                                        /\ revision'[scope[t]] = revision[scope[t]] + 1
<1> USE DEF TypeInv, TypeOK
<1>1. ASSUME NEW how, Leave(t, how)
      PROVE  /\ \A u \in Attempts \ {t} : /\ pc'[u] = pc[u] /\ scope'[u] = scope[u]
                                         /\ reserved'[u] = reserved[u]
                                         /\ anchor'[u] = anchor[u]
             /\ ~reserved'[t]
  BY <1>1 DEF Leave, Goto
<1>2. CASE \E how : Leave(t, how)
  BY <1>1, <1>2
<1>3. CASE reserved[t] /\ Goto(t, "releasing") /\ UNCHANGED local
  BY <1>3 DEF Goto, local
<1>4. CASE Compensate(t)
  BY <1>2, <1>3, <1>4 DEF Compensate
<1>5. CASE \E in \in Input, s \in Scopes \cup {NoScope} : Arrive(t, in, s)
  <2>1. ~reserved[t]
    BY <1>5 DEF Arrive, InFlight
  <2>2. ~reserved'[t]
    BY <1>5, <2>1 DEF Arrive
  <2> QED BY <1>5, <2>2 DEF Arrive, Goto
<1>6. CASE Reserve(t)
  <2>1. PICK c \in Scopes : c = scope[t]
    BY <1>6 DEF Reserve, InFlight
  <2>2. /\ c \in present
        /\ revision' = [revision EXCEPT ![c] = @ + 1]
        /\ reserved' = [reserved EXCEPT ![t] = TRUE]
        /\ scope' = scope /\ onSale' = onSale
    BY <1>6, <2>1 DEF Reserve, CanReserve, Reserves, database
  <2>3. CASE c \in Types
    <3>1. /\ pc' = [pc EXCEPT ![t] = "anchored"]
          /\ anchor' = [anchor EXCEPT ![t] = revision[c] + 1]
      BY <1>6, <2>1, <2>3 DEF Reserve, Goto
    <3> QED BY <2>1, <2>2, <3>1
  <2>4. CASE c \notin Types
    <3>1. /\ pc' = [pc EXCEPT ![t] = "gated"]
          /\ anchor' = [anchor EXCEPT ![t] = NoAnchor]
      BY <1>6, <2>1, <2>4 DEF Reserve, Goto
    <3> QED BY <2>1, <2>2, <2>4, <3>1
  <2> QED BY <2>3, <2>4
<1>7. CASE /\ SoldOut(t) \/ ReserveUnknown(t)
           /\ Goto(t, "gated") /\ UNCHANGED <<scope, reserved, anchor>>
  <2>1. ~reserved[t]
    BY <1>7 DEF SoldOut, ReserveUnknown, InFlight
  <2> QED BY <1>7, <2>1 DEF Goto
<1>8. CASE ReadAnchor(t)
  <2>1. /\ pc[t] = "gated" /\ pc' = [pc EXCEPT ![t] = "anchored"]
        /\ UNCHANGED <<scope, reserved>>
    BY <1>8 DEF ReadAnchor, Goto
  <2>2. \A u \in Attempts \ {t} : anchor'[u] = anchor[u]
    BY <1>8 DEF ReadAnchor
  <2> QED BY <2>1, <2>2
<1>9. CASE Goto(t, "syncing") /\ UNCHANGED <<scope, reserved, anchor>>
  BY <1>9 DEF Goto
<1>10. CASE UNCHANGED <<pc, scope, reserved, anchor>>
  BY <1>10
<1> QED
  BY <1>2, <1>4, <1>5, <1>6, <1>7, <1>8, <1>9, <1>10
  DEF Purchase, Fault, SoldOut, ReserveUnknown, NotDecided, Decide, Sync, Release,
      ReserveUnanswered, SyncUnanswered, ReleaseUnanswered, ReleaseFails,
      DecideReplyLost, local

\* Every step keeps the anchors behind the revisions.
LEMMA AnchoredNext == CounterInv /\ Anchored /\ [Next]_vars => Anchored'
<1> SUFFICES ASSUME CounterInv, Anchored, [Next]_vars PROVE Anchored'
  OBVIOUS
<1>1. TypeInv /\ Offered
  BY DEF CounterInv
<1>2. CASE UNCHANGED vars
  BY <1>2 DEF vars, database, control, valkey, local, Anchored, HoldsFrom
<1>3. ASSUME NEW t \in Attempts, Purchase(t) \/ Fault(t) PROVE Anchored'
  <2>1. /\ onSale' = onSale /\ toInit' = toInit
        /\ \A s \in Types : s \in present' => s \in present /\ revision'[s] >= revision[s]
    BY <1>1, <1>3, AttemptMovesUp
  <2>2. /\ \A u \in Attempts \ {t} : /\ pc'[u] = pc[u] /\ scope'[u] = scope[u]
                                    /\ reserved'[u] = reserved[u] /\ anchor'[u] = anchor[u]
        /\ \/ ~reserved'[t]
           \/ /\ reserved[t] /\ scope'[t] = scope[t]
              /\ scope[t] \in Types /\ pc[t] # "gated"
                   => anchor'[t] = anchor[t] /\ pc'[t] # "gated"
           \/ /\ scope'[t] = scope[t] /\ scope[t] \in present /\ onSale' = onSale
              /\ scope[t] \in Types => /\ pc'[t] # "gated"
                                       /\ anchor'[t] = revision[scope[t]] + 1
                                       /\ revision'[scope[t]] = revision[scope[t]] + 1
    BY <1>1, <1>3, AttemptHolds
  <2>3. \A s \in Types : revision[s] \in Nat /\ revision'[s] \in Nat
    <3>1. TypeInv'
      BY <1>1, TypeInvNext
    <3> QED BY <1>1, <3>1 DEF TypeInv, TypeOK, Scopes
  <2>4. ASSUME NEW u \in Attempts, reserved'[u], scope'[u] \in Types
        PROVE  /\ pc'[u] # "gated" /\ anchor'[u] \in Nat
               /\ scope'[u] \in present' => anchor'[u] <= revision'[scope'[u]]
    <3>1. PICK s \in Types : s = scope'[u]
      BY <2>4
    <3>2. CASE reserved[u] /\ scope[u] = s /\ anchor'[u] = anchor[u] /\ pc'[u] # "gated"
      <4>1. anchor[u] \in Nat /\ (s \in present => anchor[u] <= revision[s])
        BY <3>2 DEF Anchored
      <4> QED BY <2>1, <2>3, <3>1, <3>2, <4>1
    <3>3. CASE anchor'[u] = revision[s] + 1 /\ revision'[s] = revision[s] + 1 /\ pc'[u] # "gated"
      BY <2>3, <3>1, <3>3
    <3> QED BY <2>2, <2>4, <3>1, <3>2, <3>3 DEF Anchored
  <2>5. ASSUME toInit' \in Types
        PROVE  toInit' \notin present' /\ \A u \in Attempts : ~HoldsFrom(u, toInit)'
    BY <2>1, <2>2, <2>5 DEF Anchored, HoldsFrom
  <2>6. ASSUME onSale' = {} PROVE \A u \in Attempts : ~reserved'[u]
    BY <1>1, <2>1, <2>2, <2>6 DEF Anchored, Offered
  <2> QED BY <2>4, <2>5, <2>6 DEF Anchored
<1>4. CASE Other
  <2>1. UNCHANGED <<pc, local>>
    BY <1>4 DEF Other, CreateEvent, InitCounter, InitFails, AddTicketType, SwitchMode,
                PlansExpire, Forget
  <2>2. UNCHANGED <<pc, scope, reserved, anchor>>
    BY <2>1 DEF local
  <2>3. CASE CreateEvent
    <3>1. /\ onSale = {} /\ UNCHANGED <<present, revision>>
          /\ toInit' \in {EventScope, DefaultType} /\ onSale' # {}
      BY <2>3 DEF CreateEvent, Sale!Offer, valkey
    <3>2. present = {}
      BY <1>1, <3>1 DEF Offered
    <3> QED BY <2>2, <3>1, <3>2 DEF Anchored, HoldsFrom
  <2>4. CASE InitCounter
    <3>1. PICK c : c = toInit
      OBVIOUS
    <3>2. /\ present' = present \cup {c} /\ UNCHANGED onSale
          /\ revision' = [revision EXCEPT ![c] = @ + 1]
          /\ toInit' = NoScope
      BY <2>4, <3>1 DEF InitCounter, Sets, database
    <3>3. \A s \in Types \ {c} : revision'[s] = revision[s]
      BY <1>1, <3>2 DEF TypeInv, TypeOK, Scopes
    <3>4. \A u \in Attempts : reserved[u] /\ scope[u] \in Types => scope[u] # c
      BY <3>1 DEF Anchored, HoldsFrom
    <3>5. toInit' \notin Types
      BY <3>2, ScopesAssumption DEF Scopes
    <3> QED BY <2>2, <3>2, <3>3, <3>4, <3>5 DEF Anchored
  <2>5. CASE InitFails \/ SwitchMode \/ PlansExpire
    <3>1. UNCHANGED <<onSale, present, revision>> /\ toInit' \in {toInit, NoScope}
      BY <2>5 DEF InitFails, SwitchMode, PlansExpire, database, valkey
    <3>2. toInit' \in Types => toInit' = toInit
      BY <3>1, ScopesAssumption DEF Scopes
    <3> QED BY <2>2, <3>1, <3>2 DEF Anchored, HoldsFrom
  <2>6. ASSUME NEW y \in Types, AddTicketType(y) PROVE Anchored'
    <3>1. UNCHANGED <<toInit, present, revision>> /\ onSale' # {}
      BY <2>6 DEF AddTicketType, Sale!Offer, control, valkey
    <3> QED BY <2>2, <3>1 DEF Anchored, HoldsFrom
  <2>7. ASSUME NEW r \in Scopes, Forget(r) PROVE Anchored'
    <3>1. /\ present' = present \ {r} /\ UNCHANGED <<onSale, toInit>>
          /\ \A s \in Types \ {r} : revision'[s] = revision[s]
      BY <1>1, <2>7 DEF Forget, database, control, TypeInv, TypeOK, Scopes
    <3> QED BY <2>2, <3>1 DEF Anchored, HoldsFrom
  <2> QED BY <1>4, <2>3, <2>4, <2>5, <2>6, <2>7 DEF Other
<1> QED BY <1>2, <1>3, <1>4 DEF Next

\* A Ticket Type's counter is never synced over a reservation made after the
\* revision was taken that the sync is anchored at: over replies lost, counters
\* forgotten and made anew, and any number of purchases in between.
THEOREM LaterReservesStay == Spec => LaterReservesKept
<1>1. Init => CounterInv /\ Anchored
  <2> SUFFICES ASSUME Init PROVE CounterInv /\ Anchored
    OBVIOUS
  <2>1. CounterInv
    BY CounterInvInit
  <2>2. Anchored
    BY ScopesAssumption DEF Init, Anchored, Scopes
  <2> QED BY <2>1, <2>2
<1>2. CounterInv /\ Anchored /\ [Next]_vars
        => \A t, u \in Attempts :
             Syncs(t) /\ scope[t] \in Types /\ u # t /\ Held(u, scope[t]) > 0
             => anchor[u] <= anchor[t]
  <2> SUFFICES ASSUME CounterInv, Anchored,
                      NEW t \in Attempts, NEW u \in Attempts, Syncs(t),
                      scope[t] \in Types, u # t, Held(u, scope[t]) > 0
               PROVE  anchor[u] <= anchor[t]
    OBVIOUS
  <2>1. CanSync(scope[t], anchor[t])
    BY DEF Syncs, Sync, SyncUnanswered, valkey
  <2>2. scope[t] \in present /\ revision[scope[t]] = anchor[t]
    BY <2>1 DEF CanSync
  <2>3. reserved[u] /\ scope[u] = scope[t]
    BY DEF Held
  <2> QED BY <2>2, <2>3 DEF Anchored
<1> QED BY <1>1, <1>2, CounterInvNext, AnchoredNext, PTL DEF Spec, LaterReservesKept

-----------------------------------------------------------------------------
(* The seed and reconcile tool (CounterSeed).                              *)

\* The rows the cursor has passed, and the steps of the listing transaction.
Behind == {s \in DOMAIN snapshot : Rank[s] <= cursor}
Listing == step \in {"waiting", "paging", "seeding", "listed"}

\* Types of what the tool knows; the rows of its snapshot are still there.
ToolTypes ==
  /\ namespace \in Namespaces /\ job \in {"seed", "reconcile"}
  /\ DOMAIN snapshot \subseteq DOMAIN Rows(namespace)
  /\ \A s \in DOMAIN snapshot : snapshot[s] \in Nat
  /\ page \subseteq DOMAIN snapshot
  /\ cursor \in Nat /\ known \in Nat /\ fresh \in Nat
  /\ lost \subseteq Scopes

\* A page in hand comes next after the cursor, and a short one is the last.
PageInv ==
  /\ \E s \in page : Rank[s] > cursor
  /\ \A s \in DOMAIN snapshot \ page :
       Rank[s] > cursor => /\ \A u \in page : Rank[u] < Rank[s]
                           /\ ~LastPage(page)

\* What the job has done of its snapshot.
JobInv ==
  /\ step = "seeding" => job = "seed" /\ PageInv
  /\ step = "listed" => job = "reconcile" /\ PageInv
  /\ Listing => IF job = "seed" THEN handled = Behind ELSE targets = Behind /\ handled = {}
  /\ step \in {"targets", "read", "compare"} =>
       job = "reconcile" /\ targets \cup handled = DOMAIN snapshot
  /\ step \in {"read", "compare"} => target \in targets
  /\ step = "done" => handled = DOMAIN snapshot
  /\ job = "seed" => handled \subseteq present \cup lost

\* The mode a seed has seen is the mode as long as no switch overtook it.
SeedModeInv ==
  /\ HoldsBarrier => ~exclusive
  /\ Listing /\ ~waited => snapMode = mode /\ ~exclusive
  /\ job = "seed" /\ step \in {"paging", "seeding"} => snapMode = RequiredMode(namespace)

\* A counter that stays has its revision moved by whoever reserves from it.
CompareInv ==
  step \in {"read", "compare"} /\ target \notin lost =>
    /\ revision[target] >= known
    /\ step = "compare" /\ since # {} => revision[target] > known

SeedInv == TypeInv /\ ToolTypes /\ JobInv /\ SeedModeInv /\ CompareInv

\* The rows of a page have a first and a last.
LEMMA EndsOfRows ==
  ASSUME NEW S \in SUBSET Scopes, S # {}
  PROVE  /\ First(S) \in S /\ \A u \in S : Rank[First(S)] <= Rank[u]
         /\ Last(S) \in S /\ \A u \in S : Rank[Last(S)] >= Rank[u]
<1>1. IsFiniteSet(S)
  <2>1. IsFiniteSet(Types \cup {EventScope})
    BY FinitelyMany, FS_AddElement
  <2> QED BY <2>1, FS_Subset DEF Scopes
<1>2. \A u \in S : Rank[u] \in Nat
  BY RankAssumption
<1>3. \E s \in S : \A u \in S : Rank[s] <= Rank[u]
  <2> DEFINE Below(s) == {u \in S : Rank[u] < Rank[s]}
             B == {Below(s) : s \in S}
  <2>1. PICK w \in B : \A v \in B : v \subseteq w => v = w
    <3>1. B \subseteq SUBSET S /\ B # {}
      OBVIOUS
    <3> HIDE DEF B
    <3> QED BY <1>1, <3>1, MinimalSubset
  <2>2. PICK s \in S : w = Below(s)
    OBVIOUS
  <2>3. ASSUME NEW u \in S, Rank[u] < Rank[s] PROVE FALSE
    <3>1. Below(u) \subseteq Below(s) /\ u \in Below(s) /\ u \notin Below(u)
      BY <1>2, <2>3
    <3> QED BY <2>1, <2>2, <3>1
  <2> QED BY <1>2, <2>3
<1>4. \E s \in S : \A u \in S : Rank[s] >= Rank[u]
  <2> DEFINE Above(s) == {u \in S : Rank[u] > Rank[s]}
             B == {Above(s) : s \in S}
  <2>1. PICK w \in B : \A v \in B : v \subseteq w => v = w
    <3>1. B \subseteq SUBSET S /\ B # {}
      OBVIOUS
    <3> HIDE DEF B
    <3> QED BY <1>1, <3>1, MinimalSubset
  <2>2. PICK s \in S : w = Above(s)
    OBVIOUS
  <2>3. ASSUME NEW u \in S, Rank[u] > Rank[s] PROVE FALSE
    <3>1. Above(u) \subseteq Above(s) /\ u \in Above(s) /\ u \notin Above(u)
      BY <1>2, <2>3
    <3> QED BY <2>1, <2>2, <3>1
  <2> QED BY <1>2, <2>3
<1> QED BY <1>3, <1>4 DEF First, Last

\* A page is what comes next; a short page, as one without rows, is the last.
LEMMA NextPageFacts ==
  ASSUME NEW ahead \in SUBSET Scopes, ahead = {s \in DOMAIN snapshot : Rank[s] > cursor}
  PROVE  /\ NextPage \subseteq ahead
         /\ \A s \in ahead \ NextPage : /\ \A u \in NextPage : Rank[u] < Rank[s]
                                        /\ ~LastPage(NextPage)
         /\ NextPage = {} => ahead = {}
<1> DEFINE Below(s) == {u \in ahead : Rank[u] < Rank[s]}
<1>1. /\ \A S \in SUBSET ahead : IsFiniteSet(S) /\ Cardinality(S) \in Nat
      /\ \A S \in SUBSET ahead : \A T \in SUBSET S : Cardinality(T) <= Cardinality(S)
  <2>1. IsFiniteSet(Types \cup {EventScope})
    BY FinitelyMany, FS_AddElement
  <2> QED BY <2>1, FS_Subset, FS_CardinalityType DEF Scopes
<1>2. \A u \in ahead : Rank[u] \in Nat
  BY RankAssumption
<1>3. NextPage = {s \in ahead : Cardinality(Below(s)) < PageSize}
  BY DEF NextPage
<1>4. NextPage \subseteq ahead
  BY <1>3
<1>5. ASSUME NEW s \in ahead \ NextPage, NEW u \in NextPage PROVE Rank[u] < Rank[s]
  <2> SUFFICES ASSUME Rank[s] <= Rank[u] PROVE FALSE
    BY <1>2, <1>4
  <2>1. Below(s) \subseteq Below(u)
    BY <1>2, <1>4
  <2>2. /\ Cardinality(Below(s)) <= Cardinality(Below(u))
        /\ Cardinality(Below(s)) \in Nat /\ Cardinality(Below(u)) \in Nat
    BY <1>1, <2>1
  <2>3. Cardinality(Below(u)) < PageSize /\ ~(Cardinality(Below(s)) < PageSize)
    BY <1>3, <1>4
  <2> QED BY <2>2, <2>3, PageSizeAssumption
<1>6. ASSUME ahead \ NextPage # {} PROVE ~LastPage(NextPage)
  <2> DEFINE beyond == ahead \ NextPage
             s == First(beyond)
  <2>1. s \in beyond /\ \A u \in beyond : Rank[s] <= Rank[u]
    BY <1>6, EndsOfRows
  <2> HIDE DEF s
  <2>2. Below(s) \subseteq NextPage
    BY <1>2, <2>1
  <2>3. /\ Cardinality(Below(s)) <= Cardinality(NextPage)
        /\ Cardinality(Below(s)) \in Nat /\ Cardinality(NextPage) \in Nat
    BY <1>1, <1>4, <2>2
  <2>4. ~(Cardinality(Below(s)) < PageSize)
    BY <1>3, <2>1
  <2> QED BY <2>3, <2>4, PageSizeAssumption DEF LastPage
<1>7. NextPage = {} => ahead = {}
  BY <1>6, FS_EmptySet, PageSizeAssumption DEF LastPage
<1> QED BY <1>4, <1>5, <1>6, <1>7

\* The rows a namespace counts have counters, and go on existing.
LEMMA RowsAreCounters ==
  ASSUME TypeInv, NEW ns \in Namespaces
  PROVE  DOMAIN Rows(ns) \subseteq Scopes /\ \A s \in DOMAIN Rows(ns) : Rows(ns)[s] \in Nat
<1>1. onSale \subseteq Types /\ left \in [Types -> Nat]
  BY DEF TypeInv, TypeOK
<1>2. EventLeft \in Nat
  BY <1>1, EventLeftCovers DEF EventLeft
<1> QED BY <1>1, <1>2 DEF Rows, Scopes

LEMMA RowsRemain ==
  ASSUME NEW ns \in Namespaces, onSale \subseteq onSale'
  PROVE  DOMAIN Rows(ns) \subseteq DOMAIN Rows(ns)'
BY DEF Rows

\* What an attempt does to the counters of all scopes.
LEMMA AttemptRevises ==
  ASSUME TypeInv, NEW t \in Attempts, Purchase(t) \/ Fault(t)
  PROVE  /\ mode' = mode /\ onSale' = onSale /\ present \subseteq present'
         /\ \A s \in Scopes : revision'[s] >= revision[s]
         /\ \A u \in Attempts : reserved'[u] /\ ~reserved[u] =>
              scope[u] \in Scopes /\ revision'[scope[u]] > revision[scope[u]]
<1> USE DEF TypeInv, TypeOK
<1>1. onSale' = onSale
  BY AttemptMovesUp
<1>2. mode' = mode
  BY DEF Purchase, Fault, Arrive, Reserve, SoldOut, ReserveUnknown, ReadAnchor,
         NotDecided, Decide, Sync, Release, ReserveUnanswered, SyncUnanswered,
         ReleaseUnanswered, ReleaseFails, DecideReplyLost, control
<1>3. CASE Reserve(t)
  <2>1. PICK c \in Scopes : c = scope[t]
    BY <1>3 DEF Reserve, InFlight
  <2>2. /\ present' = present
        /\ revision' = [revision EXCEPT ![c] = @ + 1]
        /\ reserved' = [reserved EXCEPT ![t] = TRUE]
    BY <1>3, <2>1 DEF Reserve, Reserves
  <2> QED BY <1>1, <1>2, <2>1, <2>2
<1>4. CASE ~Reserve(t)
  <2>1. \A u \in Attempts : reserved'[u] => reserved[u]
    <3>1. CASE reserved' = reserved
      BY <3>1
    <3>2. CASE reserved' = [reserved EXCEPT ![t] = FALSE]
      BY <3>2
    <3> QED
      BY <1>4, <3>1, <3>2
      DEF Purchase, Fault, Arrive, SoldOut, ReserveUnknown, ReadAnchor, NotDecided, Decide,
          Sync, Release, ReserveUnanswered, SyncUnanswered, ReleaseUnanswered,
          ReleaseFails, DecideReplyLost, Compensate, Leave, local
  <2>2. present \subseteq present' /\ \A s \in Scopes : revision'[s] >= revision[s]
    <3>1. CASE UNCHANGED <<present, revision>>
      BY <3>1
    <3>2. CASE ReserveUnanswered(t) \/ Release(t) \/ ReleaseUnanswered(t)
      <4>1. PICK c : c = scope[t]
        OBVIOUS
      <4>2. /\ present' = present
            /\ revision' = [revision EXCEPT ![c] = @ + 1] \/ revision' = revision
        BY <3>2, <4>1 DEF ReserveUnanswered, Release, ReleaseUnanswered, Reserves, Releases
      <4> QED BY <4>2
    <3>3. CASE Sync(t) \/ SyncUnanswered(t)
      <4>1. PICK c : c = scope[t]
        OBVIOUS
      <4>2. CASE UNCHANGED valkey
        BY <3>1, <4>2 DEF valkey
      <4>3. CASE Sets(c, remaining[t])
        <5>1. present' = present \cup {c} /\ revision' = [revision EXCEPT ![c] = @ + 1]
          BY <4>3 DEF Sets
        <5> QED BY <5>1
      <4> QED BY <3>3, <4>1, <4>2, <4>3 DEF Sync, SyncUnanswered
    <3> QED
      BY <1>4, <3>1, <3>2, <3>3
      DEF Purchase, Fault, Arrive, SoldOut, ReserveUnknown, ReadAnchor, NotDecided, Decide,
          ReleaseFails, DecideReplyLost, valkey
  <2> QED BY <1>1, <1>2, <2>1, <2>2
<1> QED BY <1>3, <1>4

\* What happens elsewhere: a counter that stays never has its revision fall, and has
\* it moved by whoever reserves from it.
LEMMA ElsewhereMoves ==
  ASSUME TypeInv, Elsewhere
  PROVE  /\ TypeInv' /\ mode' = mode /\ onSale \subseteq onSale'
         /\ \A s \in Scopes : s \in present \ present' \/ revision'[s] >= revision[s]
         /\ \A u \in Attempts : reserved'[u] /\ ~reserved[u] =>
              scope[u] \in Scopes /\ revision'[scope[u]] > revision[scope[u]]
<1> USE DEF TypeInv, TypeOK
<1>1. (\E t \in Attempts : Purchase(t) \/ Fault(t)) \/ Other
  BY DEF Elsewhere, Other
<1>2. TypeInv'
  BY <1>1, AttemptKeepsTypes, OtherKeepsTypes
<1>3. CASE \E t \in Attempts : Purchase(t) \/ Fault(t)
  <2> HIDE DEF TypeInv
  <2> QED BY <1>2, <1>3, AttemptRevises
<1>4. CASE \/ CreateEvent \/ InitCounter \/ InitFails \/ PlansExpire
           \/ \E y \in Types : AddTicketType(y)
           \/ \E s \in Scopes : Forget(s)
  <2>1. reserved' = reserved /\ mode' = mode
    BY <1>4 DEF CreateEvent, InitCounter, InitFails, PlansExpire, AddTicketType, Forget,
                local, control
  <2>2. onSale \subseteq onSale'
    BY <1>4 DEF CreateEvent, InitCounter, InitFails, PlansExpire, AddTicketType, Forget,
                database, Sale!Offer
  <2>3. \A s \in Scopes : s \in present \ present' \/ revision'[s] >= revision[s]
    <3>1. CASE UNCHANGED valkey
      BY <3>1 DEF valkey
    <3>2. CASE InitCounter
      <4>1. PICK c : c = toInit
        OBVIOUS
      <4>2. present' = present \cup {c} /\ revision' = [revision EXCEPT ![c] = @ + 1]
        BY <3>2, <4>1 DEF InitCounter, Sets
      <4> QED BY <4>2
    <3>3. ASSUME NEW c \in Scopes, Forget(c)
          PROVE  \A s \in Scopes : s \in present \ present' \/ revision'[s] >= revision[s]
      BY <3>3 DEF Forget
    <3> QED
      BY <1>4, <3>1, <3>2, <3>3 DEF CreateEvent, InitFails, PlansExpire, AddTicketType
  <2> QED BY <1>2, <2>1, <2>2, <2>3
<1> QED BY <1>3, <1>4 DEF Elsewhere

\* A counter that the tool sets.
LEMMA SetKeepsTypes ==
  ASSUME TypeInv, NEW s \in Scopes, NEW n \in Nat, Sets(s, n),
         UNCHANGED <<database, control, pc, local>>
  PROVE  TypeInv' /\ present' = present \cup {s}
BY DEF TypeInv, TypeOK, InFlight, Sets, database, control, local

\* Types need no more than that the tool's steps leave the purchases alone.
LEMMA TypeInvStays == TypeInv /\ UNCHANGED vars => TypeInv'
BY TypeInvNext

\* A new job starts with the rows and the mode of its snapshot.
LEMMA BeginKeepsInv ==
  ASSUME SeedInv, NEW ns \in Namespaces, NEW j \in {"seed", "reconcile"}, Begin(ns, j)
  PROVE  SeedInv'
<1>1. TypeInv /\ TypeInv'
  BY TypeInvStays DEF SeedInv, Begin
<1>2. /\ step' = "waiting" /\ namespace' = ns /\ job' = j /\ snapshot' = Rows(ns)
      /\ snapMode' = mode /\ cursor' = 0 /\ page' = {} /\ targets' = {} /\ handled' = {}
      /\ waited' = exclusive /\ lost' = {} /\ Rows(ns)' = Rows(ns)
      /\ UNCHANGED <<mode, exclusive, known, fresh>>
  BY DEF Begin, vars, database, control, Rows, EventLeft
<1>3. DOMAIN Rows(ns) \subseteq Scopes /\ \A s \in DOMAIN Rows(ns) : Rows(ns)[s] \in Nat
  BY <1>1, RowsAreCounters
<1>4. Rows(namespace)' = Rows(ns)
  BY <1>2 DEF Rows
<1>5. ToolTypes'
  BY <1>2, <1>3, <1>4 DEF SeedInv, ToolTypes
<1>6. Behind' = {}
  BY <1>2, <1>3, RankAssumption DEF Behind
<1>7. JobInv'
  BY <1>2, <1>6 DEF JobInv, Listing
<1>8. SeedModeInv' /\ CompareInv'
  BY <1>2 DEF SeedModeInv, CompareInv, HoldsBarrier, Listing
<1> QED BY <1>1, <1>5, <1>7, <1>8 DEF SeedInv

\* Steps of the tool that only move on, or stop.
LEMMA MovesOnKeepInv ==
  ASSUME SeedInv, GetBarrier \/ NoTargets \/ Fail \/ Exit PROVE SeedInv'
<1>1. TypeInv'
  BY TypeInvStays DEF SeedInv, GetBarrier, NoTargets, Fail, Exit
<1>2. /\ UNCHANGED <<present, revision, onSale, mode, exclusive>>
      /\ UNCHANGED <<listing, comparing, history>>
  BY DEF GetBarrier, NoTargets, Fail, Exit, vars, database, control, valkey
<1>3. ToolTypes'
  BY <1>2 DEF SeedInv, ToolTypes, listing, comparing, history, Rows
<1>4. Behind' = Behind
  BY <1>2 DEF Behind, listing
<1>5. CASE GetBarrier
  <2>1. step = "waiting" /\ ~exclusive /\ step' \in {"refused", "paging"}
    BY <1>5 DEF GetBarrier
  <2>2. JobInv'
    BY <1>2, <1>4, <2>1 DEF SeedInv, JobInv, Listing, listing, comparing, history
  <2>3. SeedModeInv'
    BY <1>2, <1>5, <2>1 DEF GetBarrier, SeedInv, SeedModeInv, Listing, HoldsBarrier, listing,
                            history, RequiredMode
  <2>4. CompareInv'
    BY <2>1 DEF CompareInv
  <2> QED BY <1>1, <1>3, <2>2, <2>3, <2>4 DEF SeedInv
<1>6. CASE NoTargets \/ Fail \/ Exit
  <2>1. /\ step' \in {"done", "failed", "idle"}
        /\ step' = "done" => step = "targets" /\ targets = {}
    BY <1>6 DEF NoTargets, Fail, Exit
  <2>2. JobInv'
    BY <1>2, <2>1 DEF SeedInv, JobInv, Listing, listing, comparing, history
  <2>3. SeedModeInv' /\ CompareInv'
    BY <2>1 DEF SeedModeInv, CompareInv, HoldsBarrier, Listing
  <2> QED BY <1>1, <1>3, <2>2, <2>3 DEF SeedInv
<1> QED BY <1>5, <1>6

\* The next page, or none.
LEMMA ReadPageKeepsInv == ASSUME SeedInv, ReadPage PROVE SeedInv'
<1> DEFINE ahead == {s \in DOMAIN snapshot : Rank[s] > cursor}
<1>1. TypeInv /\ TypeInv' /\ DOMAIN snapshot \subseteq Scopes /\ cursor \in Nat
  BY TypeInvStays, RowsAreCounters DEF SeedInv, ReadPage, ToolTypes
<1>2. /\ step = "paging" /\ page' = NextPage
      /\ step' = IF NextPage = {} THEN AfterCommit
                 ELSE IF job = "seed" THEN "seeding" ELSE "listed"
      /\ UNCHANGED <<present, onSale, mode, exclusive, namespace, job, snapshot, snapMode,
                     cursor, targets, target, known, fresh, handled, history>>
  BY DEF ReadPage, vars, database, control, valkey, comparing
<1>3. /\ NextPage \subseteq ahead
      /\ \A s \in ahead \ NextPage : /\ \A u \in NextPage : Rank[u] < Rank[s]
                                     /\ ~LastPage(NextPage)
      /\ NextPage = {} => ahead = {}
  BY <1>1, NextPageFacts
<1>4. ToolTypes'
  BY <1>2, <1>3 DEF SeedInv, ToolTypes, history, Rows
<1>5. Behind' = Behind
  BY <1>2 DEF Behind
<1>6. CASE NextPage = {}
  <2>1. Behind = DOMAIN snapshot
    BY <1>1, <1>3, <1>6, RankAssumption DEF Behind
  <2>2. step' = IF job = "seed" THEN "done" ELSE "targets"
    BY <1>2, <1>6 DEF AfterCommit
  <2>3. JobInv'
    BY <1>2, <2>1, <2>2 DEF SeedInv, ToolTypes, JobInv, Listing, history
  <2>4. SeedModeInv' /\ CompareInv'
    BY <2>2 DEF SeedModeInv, CompareInv, HoldsBarrier, Listing
  <2> QED BY <1>1, <1>4, <2>3, <2>4 DEF SeedInv
<1>7. CASE NextPage # {}
  <2>1. step' = IF job = "seed" THEN "seeding" ELSE "listed"
    BY <1>2, <1>7
  <2>2. PageInv'
    <3>1. page' # {} /\ page' \subseteq ahead /\ cursor' = cursor /\ snapshot' = snapshot
      BY <1>2, <1>3, <1>7
    <3>2. \A s \in ahead \ page' : (\A u \in page' : Rank[u] < Rank[s]) /\ ~LastPage(page')
      BY <1>2, <1>3
    <3> QED BY <3>1, <3>2 DEF PageInv, LastPage
  <2>3. JobInv'
    BY <1>2, <1>5, <2>1, <2>2 DEF SeedInv, ToolTypes, JobInv, Listing, history
  <2>4. SeedModeInv'
    BY <1>2, <2>1 DEF SeedInv, SeedModeInv, JobInv, Listing, HoldsBarrier, history, RequiredMode
  <2>5. CompareInv'
    BY <2>1 DEF CompareInv
  <2> QED BY <1>1, <1>4, <2>3, <2>4, <2>5 DEF SeedInv
<1> QED BY <1>6, <1>7

\* What turning a page leaves: the rows up to its last one are behind the cursor,
\* and they are all when the page was short.
LEMMA TurnPageFacts ==
  ASSUME SeedInv, PageInv, TurnPage(page), snapshot' = snapshot
  PROVE  /\ cursor' = Rank[Last(page)] /\ cursor' \in Nat
         /\ Behind' = Behind \cup page
         /\ step' \in {AfterCommit, "paging"}
         /\ step' = AfterCommit => Behind' = DOMAIN snapshot
<1>1. page \subseteq DOMAIN snapshot /\ DOMAIN snapshot \subseteq Scopes /\ cursor \in Nat
  BY RowsAreCounters DEF SeedInv, ToolTypes
<1>2. \A s \in Scopes : Rank[s] \in Nat
  BY RankAssumption
<1>3. Last(page) \in page /\ \A u \in page : Rank[Last(page)] >= Rank[u]
  BY <1>1, EndsOfRows DEF PageInv
<1>4. cursor' = Rank[Last(page)] /\ cursor' \in Nat /\ cursor <= cursor'
  BY <1>1, <1>2, <1>3 DEF TurnPage, PageInv
<1>5. ASSUME NEW s \in DOMAIN snapshot
      PROVE  Rank[s] <= cursor' <=> Rank[s] <= cursor \/ s \in page
  BY <1>1, <1>2, <1>3, <1>4 DEF PageInv
<1>6. Behind' = Behind \cup page
  BY <1>1, <1>5 DEF Behind
<1>7. step' = IF LastPage(page) THEN AfterCommit ELSE "paging"
  BY DEF TurnPage
<1>8. LastPage(page) => Behind' = DOMAIN snapshot
  BY <1>1, <1>2, <1>6 DEF PageInv, Behind
<1>9. AfterCommit # "paging"
  BY DEF AfterCommit
<1> QED BY <1>4, <1>6, <1>7, <1>8, <1>9

\* Reconcile notes the rows of the page.
LEMMA ListPageKeepsInv == ASSUME SeedInv, ListPage PROVE SeedInv'
<1>1. TypeInv' /\ step = "listed" /\ job = "reconcile" /\ PageInv
  BY TypeInvStays DEF SeedInv, ListPage, JobInv
<1>2. /\ targets' = targets \cup page /\ TurnPage(page)
      /\ UNCHANGED <<present, onSale, mode, exclusive, namespace, job, snapshot, snapMode,
                     page, target, known, fresh, handled, history>>
  BY DEF ListPage, vars, database, control, valkey
<1>3. /\ cursor' \in Nat /\ Behind' = Behind \cup page
      /\ step' \in {"targets", "paging"}
      /\ step' = "targets" => Behind' = DOMAIN snapshot
  BY <1>1, <1>2, TurnPageFacts DEF AfterCommit
<1>4. ToolTypes'
  BY <1>2, <1>3 DEF SeedInv, ToolTypes, history, Rows
<1>5. targets' = Behind' /\ handled' = {}
  BY <1>1, <1>2, <1>3 DEF SeedInv, JobInv, Listing
<1>6. JobInv'
  BY <1>1, <1>2, <1>3, <1>5 DEF JobInv, Listing
<1>7. SeedModeInv'
  BY <1>1, <1>2, <1>3 DEF SeedInv, SeedModeInv, Listing, HoldsBarrier, history
<1>8. CompareInv'
  BY <1>3 DEF CompareInv
<1> QED BY <1>1, <1>4, <1>6, <1>7, <1>8 DEF SeedInv

\* The row that is seeded next.
LEMMA SeedsFacts ==
  ASSUME SeedInv, NEW s \in Scopes, Seeds(s)
  PROVE  /\ s \in page /\ s \in DOMAIN snapshot /\ s \in Scopes
         /\ TypeInv' /\ present' = present \cup {s}
         /\ step = "seeding" /\ job = "seed" /\ PageInv
         /\ Rank[s] > cursor /\ \A u \in page : Rank[u] > cursor => Rank[s] <= Rank[u]
         /\ UNCHANGED <<onSale, mode, exclusive>>
<1>1. /\ step = "seeding" /\ s \in page /\ s = First(page \ {u \in page : Rank[u] <= cursor})
      /\ Sets(s, snapshot[s]) /\ UNCHANGED <<database, control, pc, local, exclusive>>
  BY DEF Seeds
<1>2. /\ page \subseteq DOMAIN snapshot /\ DOMAIN snapshot \subseteq Scopes /\ cursor \in Nat
      /\ snapshot[s] \in Nat /\ job = "seed" /\ PageInv
  BY <1>1, RowsAreCounters DEF SeedInv, ToolTypes, JobInv
<1>3. TypeInv' /\ present' = present \cup {s}
  BY <1>1, <1>2, SetKeepsTypes DEF SeedInv
<1>4. Rank[s] > cursor /\ \A u \in page : Rank[u] > cursor => Rank[s] <= Rank[u]
  <2> DEFINE S == page \ {u \in page : Rank[u] <= cursor}
  <2>1. S \in SUBSET Scopes /\ S = {u \in page : Rank[u] > cursor}
    BY <1>2, RankAssumption
  <2>2. S # {}
    BY <1>2, <2>1 DEF PageInv
  <2>3. First(S) \in S /\ \A u \in S : Rank[First(S)] <= Rank[u]
    BY <2>1, <2>2, EndsOfRows
  <2> HIDE DEF S
  <2>4. s = First(S)
    BY <1>1 DEF S
  <2> QED BY <2>1, <2>3, <2>4
<1> QED BY <1>1, <1>2, <1>3, <1>4 DEF database, control

\* Seed writes a row, and turns the page at its last one.
LEMMA SeedRowKeepsInv == ASSUME SeedInv, NEW s \in Scopes, SeedRow(s) PROVE SeedInv'
<1>1. /\ s \in page /\ s \in DOMAIN snapshot
      /\ TypeInv' /\ present' = present \cup {s}
      /\ step = "seeding" /\ job = "seed" /\ PageInv
      /\ Rank[s] > cursor /\ \A u \in page : Rank[u] > cursor => Rank[s] <= Rank[u]
      /\ UNCHANGED <<onSale, mode, exclusive>>
  BY SeedsFacts DEF SeedRow
<1>2. /\ IF s = Last(page) THEN TurnPage(page) ELSE cursor' = Rank[s] /\ step' = step
      /\ handled' = handled \cup {s} /\ lost' = lost \ {s}
      /\ UNCHANGED <<namespace, job, snapshot, snapMode, page, targets, target, known,
                     fresh, waited, since>>
  BY DEF SeedRow
<1>3. /\ page \subseteq DOMAIN snapshot /\ DOMAIN snapshot \subseteq Scopes /\ cursor \in Nat
      /\ Last(page) \in page /\ \A u \in page : Rank[Last(page)] >= Rank[u]
  <2>1. page \subseteq DOMAIN snapshot /\ DOMAIN snapshot \subseteq Scopes /\ cursor \in Nat
    BY RowsAreCounters DEF SeedInv, ToolTypes
  <2> QED BY <1>1, <2>1, EndsOfRows
<1>4. \A u, v \in Scopes : /\ Rank[u] \in Nat /\ Rank[v] \in Nat
                           /\ Rank[u] = Rank[v] => u = v
  BY RankAssumption
<1>5. cursor' = Rank[s]
  BY <1>1, <1>2 DEF TurnPage
<1>6. Behind' = Behind \cup {s}
  <2>1. ASSUME NEW u \in DOMAIN snapshot
        PROVE  Rank[u] <= Rank[s] <=> Rank[u] <= cursor \/ u = s
    <3>1. CASE u \in page
      BY <1>1, <1>3, <1>4, <3>1
    <3>2. CASE u \notin page
      BY <1>1, <1>3, <1>4, <3>2 DEF PageInv
    <3> QED BY <3>1, <3>2
  <2> QED BY <1>1, <1>2, <1>5, <2>1 DEF Behind
<1>7. ToolTypes'
  BY <1>1, <1>2, <1>3, <1>4, <1>5 DEF SeedInv, ToolTypes, Rows
<1>8. handled' = Behind' /\ handled' \subseteq present' \cup lost'
  BY <1>1, <1>2, <1>6 DEF SeedInv, JobInv, Listing
<1>9. CASE s = Last(page)
  <2>1. /\ step' \in {"done", "paging"}
        /\ step' = "done" => Behind' = DOMAIN snapshot
    BY <1>1, <1>2, <1>9, TurnPageFacts DEF AfterCommit
  <2>2. JobInv'
    BY <1>1, <1>2, <1>8, <2>1 DEF JobInv, Listing
  <2>3. SeedModeInv'
    BY <1>1, <1>2, <2>1 DEF SeedInv, SeedModeInv, Listing, HoldsBarrier, RequiredMode
  <2>4. CompareInv'
    BY <2>1 DEF CompareInv
  <2> QED BY <1>1, <1>7, <2>2, <2>3, <2>4 DEF SeedInv
<1>10. CASE s # Last(page)
  <2>1. step' = "seeding"
    BY <1>1, <1>2, <1>10
  <2>2. PageInv'
    <3>1. \E u \in page : Rank[u] > Rank[s]
      BY <1>1, <1>3, <1>4, <1>10
    <3>2. \A u \in DOMAIN snapshot \ page :
            Rank[u] > Rank[s] => (\A v \in page : Rank[v] < Rank[u]) /\ ~LastPage(page)
      BY <1>1, <1>3, <1>4 DEF PageInv
    <3> QED BY <1>2, <1>5, <3>1, <3>2 DEF PageInv, LastPage
  <2>3. JobInv'
    BY <1>1, <1>2, <1>8, <2>1, <2>2 DEF JobInv, Listing
  <2>4. SeedModeInv'
    BY <1>1, <1>2, <2>1 DEF SeedInv, SeedModeInv, Listing, HoldsBarrier, RequiredMode
  <2>5. CompareInv'
    BY <2>1 DEF CompareInv
  <2> QED BY <1>1, <1>7, <2>3, <2>4, <2>5 DEF SeedInv
<1> QED BY <1>9, <1>10

\* The counter being reconciled is one.
LEMMA TargetIsScope ==
  ASSUME SeedInv, step \in {"read", "compare"}
  PROVE  target \in targets /\ target \in DOMAIN snapshot /\ target \in Scopes
BY RowsAreCounters DEF SeedInv, JobInv, ToolTypes

\* A script ran without an answer: the tool ends.
LEMMA UnansweredKeepsInv ==
  ASSUME SeedInv, (\E s \in Scopes : SeedUnanswered(s)) \/ CompareUnanswered PROVE SeedInv'
<1>1. TypeInv' /\ present \subseteq present' /\ UNCHANGED <<onSale, mode>>
  <2>1. ASSUME NEW s \in Scopes, SeedUnanswered(s)
        PROVE  TypeInv' /\ present \subseteq present' /\ UNCHANGED <<onSale, mode>>
    BY <2>1, SeedsFacts DEF SeedUnanswered
  <2>2. CASE CompareUnanswered
    BY <2>2, TargetIsScope, SetKeepsTypes
    DEF CompareUnanswered, Reconciles, SeedInv, ToolTypes, database, control
  <2> QED BY <2>1, <2>2
<1>2. step' = "failed" /\ UNCHANGED <<listing, comparing, history>>
  BY DEF SeedUnanswered, CompareUnanswered
<1>3. ToolTypes'
  BY <1>1, <1>2 DEF SeedInv, ToolTypes, listing, comparing, history, Rows
<1>4. JobInv'
  BY <1>1, <1>2 DEF SeedInv, JobInv, Listing, listing, comparing, history
<1>5. SeedModeInv' /\ CompareInv'
  BY <1>2 DEF SeedModeInv, CompareInv, HoldsBarrier, Listing
<1> QED BY <1>1, <1>3, <1>4, <1>5 DEF SeedInv

\* The revision, then the row.
LEMMA ReadsKeepInv ==
  ASSUME SeedInv, (\E s \in Scopes : ReadRevision(s)) \/ FreshRead PROVE SeedInv'
<1>1. TypeInv /\ TypeInv' /\ UNCHANGED vars
  BY TypeInvStays DEF SeedInv, ReadRevision, FreshRead
<1>2. UNCHANGED <<present, revision, onSale, left, mode>>
  BY <1>1 DEF vars, database, control, valkey
<1>3. ASSUME NEW s \in Scopes, ReadRevision(s) PROVE SeedInv'
  <2>1. /\ step = "targets" /\ s \in targets /\ step' = "read"
        /\ target' = s /\ known' = revision[s] /\ lost' = {}
        /\ UNCHANGED <<exclusive, namespace, job, snapshot, snapMode, cursor, page, targets,
                       fresh, handled, waited, since>>
    BY <1>3 DEF ReadRevision, listing
  <2>2. revision[s] \in Nat
    BY <1>1 DEF TypeInv, TypeOK
  <2>3. ToolTypes'
    BY <1>2, <2>1, <2>2 DEF SeedInv, ToolTypes, Rows
  <2>4. JobInv'
    BY <1>2, <2>1 DEF SeedInv, JobInv, Listing
  <2>5. SeedModeInv'
    BY <2>1 DEF SeedModeInv, HoldsBarrier, Listing
  <2>6. CompareInv'
    BY <1>2, <2>1, <2>2 DEF CompareInv
  <2> QED BY <1>1, <2>3, <2>4, <2>5, <2>6 DEF SeedInv
<1>4. CASE FreshRead
  <2>1. /\ step = "read" /\ step' = "compare"
        /\ fresh' = Rows(namespace)[target] /\ since' = {}
        /\ UNCHANGED <<exclusive, namespace, job, snapshot, snapMode, cursor, page, targets,
                       target, known, handled, waited, lost>>
    BY <1>4 DEF FreshRead, listing
  <2>2. target \in DOMAIN snapshot /\ target \in targets
    BY <2>1, TargetIsScope
  <2>3. Rows(namespace)[target] \in Nat
    BY <1>1, <2>2, RowsAreCounters DEF SeedInv, ToolTypes
  <2>4. Rows(namespace)' = Rows(namespace)
    BY <1>2, <2>1 DEF Rows, EventLeft
  <2>5. ToolTypes'
    BY <2>1, <2>3, <2>4 DEF SeedInv, ToolTypes
  <2>6. JobInv'
    BY <1>2, <2>1, <2>2 DEF SeedInv, JobInv, Listing
  <2>7. SeedModeInv'
    BY <2>1 DEF SeedModeInv, HoldsBarrier, Listing
  <2>8. CompareInv'
    BY <1>2, <2>1 DEF SeedInv, CompareInv
  <2> QED BY <1>1, <2>5, <2>6, <2>7, <2>8 DEF SeedInv
<1> QED BY <1>3, <1>4

\* Compare and set; the row is dealt with either way.
LEMMA CompareKeepsInv == ASSUME SeedInv, CompareAndSet PROVE SeedInv'
<1>1. /\ step = "compare" /\ target \in targets /\ target \in DOMAIN snapshot
      /\ target \in Scopes
  BY TargetIsScope DEF CompareAndSet
<1>2. TypeInv' /\ UNCHANGED <<onSale, mode, exclusive>>
  <2>1. CASE Reconciles
    BY <1>1, <2>1, SetKeepsTypes DEF Reconciles, SeedInv, ToolTypes, database, control
  <2>2. CASE UNCHANGED <<vars, exclusive>>
    BY <2>2, TypeInvStays DEF SeedInv, vars, database, control
  <2> QED BY <2>1, <2>2 DEF CompareAndSet
<1>3. /\ targets' = targets \ {target} /\ handled' = handled \cup {target}
      /\ step' = IF targets = {target} THEN "done" ELSE "targets"
      /\ UNCHANGED <<namespace, job, snapshot, snapMode, cursor, page, target, known,
                     fresh, lost>>
  BY DEF CompareAndSet, listing, history
<1>4. ToolTypes'
  BY <1>2, <1>3 DEF SeedInv, ToolTypes, Rows
<1>5. job = "reconcile" /\ targets \cup handled = DOMAIN snapshot
  BY <1>1 DEF SeedInv, JobInv
<1>6. JobInv'
  BY <1>1, <1>3, <1>5 DEF JobInv, Listing
<1>7. SeedModeInv' /\ CompareInv'
  BY <1>3 DEF SeedModeInv, CompareInv, HoldsBarrier, Listing
<1> QED BY <1>2, <1>4, <1>6, <1>7 DEF SeedInv

\* A switch comes between the tool's transactions, or overtakes one that waits.
LEMMA SwitchKeepsSeedInv ==
  ASSUME SeedInv, SwitchBegins \/ SwitchCommits \/ SwitchFails PROVE SeedInv'
<1>1. TypeInv'
  <2>1. CASE SwitchCommits
    BY <2>1, OtherKeepsTypes DEF SeedInv, SwitchCommits, Other
  <2> QED BY <2>1, TypeInvStays DEF SeedInv, SwitchBegins, SwitchFails
<1>2. UNCHANGED <<present, revision, onSale, tool, lost, since>>
  BY DEF SwitchBegins, SwitchCommits, SwitchFails, SwitchMode, vars, database, valkey, history
<1>3. ToolTypes' /\ JobInv' /\ CompareInv'
  BY <1>2 DEF SeedInv, ToolTypes, JobInv, CompareInv, PageInv, LastPage, Behind, Listing,
              Rows, tool, listing, comparing
<1>4. SeedModeInv'
  <2>1. CASE SwitchBegins
    <3>1. ~HoldsBarrier /\ mode' = mode /\ waited' = (waited \/ step = "waiting")
      BY <2>1 DEF SwitchBegins, vars, control
    <3> QED BY <1>2, <3>1 DEF SeedInv, SeedModeInv, Listing, HoldsBarrier, RequiredMode,
                             tool, listing
  <2>2. CASE SwitchCommits \/ SwitchFails
    <3>1. exclusive /\ ~exclusive' /\ waited' = waited
      BY <2>2 DEF SwitchCommits, SwitchFails, history
    <3> QED BY <1>2, <3>1 DEF SeedInv, SeedModeInv, Listing, HoldsBarrier, RequiredMode,
                             tool, listing
  <2> QED BY <2>1, <2>2
<1> QED BY <1>1, <1>3, <1>4 DEF SeedInv

\* Purchases and the rest.
LEMMA ElsewhereKeepsInv == ASSUME SeedInv, Elsewhere PROVE SeedInv'
<1>1. /\ TypeInv' /\ mode' = mode /\ onSale \subseteq onSale'
      /\ \A s \in Scopes : s \in present \ present' \/ revision'[s] >= revision[s]
      /\ \A u \in Attempts : reserved'[u] /\ ~reserved[u] =>
           scope[u] \in Scopes /\ revision'[scope[u]] > revision[scope[u]]
  BY ElsewhereMoves DEF SeedInv
<1>2. /\ lost' = lost \cup (present \ present')
      /\ since' = since \cup {t \in Attempts : /\ scope[t] = target
                                              /\ reserved'[t] /\ ~reserved[t]}
      /\ UNCHANGED <<exclusive, step, namespace, job, snapshot, snapMode, cursor, page,
                     targets, target, known, fresh, handled, waited>>
  BY DEF Elsewhere, tool, listing, comparing
<1>3. /\ present \subseteq Scopes
      /\ \A s \in Scopes : revision[s] \in Nat /\ revision'[s] \in Nat
  BY <1>1 DEF SeedInv, TypeInv, TypeOK
<1>4. ToolTypes'
  <2>1. PICK ns \in Namespaces : ns = namespace
    BY DEF SeedInv, ToolTypes
  <2>2. DOMAIN Rows(ns) \subseteq DOMAIN Rows(ns)'
    BY <1>1, RowsRemain
  <2>3. Rows(namespace)' = Rows(ns)'
    BY <1>2, <2>1 DEF Rows
  <2> QED BY <1>2, <1>3, <2>1, <2>2, <2>3 DEF SeedInv, ToolTypes
<1>5. JobInv'
  BY <1>2 DEF SeedInv, JobInv, PageInv, LastPage, Behind, Listing
<1>6. SeedModeInv'
  BY <1>1, <1>2 DEF SeedInv, SeedModeInv, Listing, HoldsBarrier, RequiredMode
<1>7. CompareInv'
  <2> SUFFICES ASSUME step \in {"read", "compare"}, target \notin lost'
               PROVE  /\ revision'[target] >= known
                      /\ step = "compare" /\ since' # {} => revision'[target] > known
    BY <1>2 DEF CompareInv
  <2>1. target \in Scopes /\ known \in Nat
    BY TargetIsScope DEF SeedInv, ToolTypes
  <2>2. target \notin lost /\ revision'[target] >= revision[target]
    BY <1>1, <1>2, <2>1
  <2>3. /\ revision[target] >= known
        /\ step = "compare" /\ since # {} => revision[target] > known
    BY <2>2 DEF SeedInv, CompareInv
  <2>4. CASE since' = since
    BY <1>3, <2>1, <2>2, <2>3, <2>4
  <2>5. ASSUME NEW u \in Attempts, scope[u] = target, reserved'[u], ~reserved[u]
        PROVE  revision'[target] > revision[target]
    BY <1>1, <2>5
  <2> QED BY <1>2, <1>3, <2>1, <2>2, <2>3, <2>4, <2>5
<1> QED BY <1>1, <1>4, <1>5, <1>6, <1>7 DEF SeedInv

\* It holds at first, and after every step.
LEMMA SeedInvInit == SeedInit => SeedInv
<1> SUFFICES ASSUME SeedInit PROVE SeedInv
  OBVIOUS
<1>1. TypeInv
  BY TypeInvInit DEF SeedInit
<1>2. ToolTypes
  BY DEF SeedInit, ToolTypes, NoRows
<1>3. JobInv /\ SeedModeInv /\ CompareInv
  BY DEF SeedInit, JobInv, SeedModeInv, CompareInv, HoldsBarrier, Listing
<1> QED BY <1>1, <1>2, <1>3 DEF SeedInv

LEMMA SeedInvNext == SeedInv /\ [SeedNext]_allVars => SeedInv'
<1> SUFFICES ASSUME SeedInv, [SeedNext]_allVars PROVE SeedInv'
  OBVIOUS
<1>1. CASE UNCHANGED allVars
  <2>1. TypeInv'
    BY <1>1, TypeInvStays DEF SeedInv, allVars
  <2>2. UNCHANGED <<present, revision, onSale, mode, exclusive, tool, history>>
    BY <1>1 DEF allVars, vars, database, control, valkey
  <2> QED
    BY <2>1, <2>2 DEF SeedInv, ToolTypes, JobInv, SeedModeInv, CompareInv, PageInv, LastPage,
                      Behind, Listing, HoldsBarrier, Rows, RequiredMode, tool, listing,
                      comparing, history
<1>2. CASE Tool
  BY <1>2, BeginKeepsInv, MovesOnKeepInv, ReadPageKeepsInv, ListPageKeepsInv,
     SeedRowKeepsInv, UnansweredKeepsInv, ReadsKeepInv, CompareKeepsInv DEF Tool
<1> QED BY <1>1, <1>2, SwitchKeepsSeedInv, ElsewhereKeepsInv DEF SeedNext

\* A job that reports success has dealt with every row of its snapshot, however the
\* rows fall into pages; a seed has left each of them a counter, unless Valkey
\* dropped it.
THEOREM JobsAreWhole == SeedSpec => []JobIsWhole
<1>1. SeedInv => JobIsWhole
  BY DEF SeedInv, JobInv, JobIsWhole
<1> QED BY <1>1, SeedInvInit, SeedInvNext, PTL DEF SeedSpec

\* A seed that no switch overtook while it waited for the barrier writes none of the
\* counters that the active writer uses, over all its pages.
THEOREM SeedsStayInactive == SeedSpec => SeedsInactive
<1>1. SeedInv => (Seeding /\ ~waited => namespace # Active)
  <2> SUFFICES ASSUME SeedInv, Seeding, ~waited PROVE namespace # Active
    OBVIOUS
  <2>1. step = "seeding" /\ job = "seed"
    BY DEF Seeding, Seeds, SeedInv, JobInv
  <2>2. mode = RequiredMode(namespace)
    BY <2>1 DEF SeedInv, SeedModeInv, Listing
  <2> QED BY <2>2 DEF RequiredMode, Active
<1> QED BY <1>1, SeedInvInit, SeedInvNext, PTL DEF SeedSpec, SeedsInactive

\* Reconcile overwrites no reservation made after it read the database, as long as
\* Valkey keeps the counter: whatever purchases run between its read and its script.
THEOREM ReconcileKeepsReserves == SeedSpec => ReconcileKeepsLater
<1>1. SeedInv => (Reconciles /\ target \notin lost => since = {})
  <2> SUFFICES ASSUME SeedInv, Reconciles, target \notin lost, since # {} PROVE FALSE
    OBVIOUS
  <2>1. step = "compare" /\ revision[target] = known
    BY DEF Reconciles, MaySet
  <2>2. revision[target] > known /\ known \in Nat
    BY <2>1 DEF SeedInv, CompareInv, ToolTypes
  <2> QED BY <2>1, <2>2
<1> QED BY <1>1, SeedInvInit, SeedInvNext, PTL DEF SeedSpec, ReconcileKeepsLater
=============================================================================
