----------------------------- MODULE TicketSale -----------------------------
(***************************************************************************)
(* What buyers are promised about one Event, with no database in sight:    *)
(* every Ticket Type on sale has a number of tickets left, a purchase is   *)
(* decided once, in one step, and the decision is written to a ledger that *)
(* only grows.  A request key (buyer, event, requestId) is decided at most *)
(* once, tickets leave the stock only together with the ledger row that    *)
(* sells them, and a request is turned down only when the stock of its     *)
(* type really cannot serve it.                                            *)
(***************************************************************************)
EXTENDS Naturals

CONSTANTS Types,      \* the Ticket Types the Event may sell
          Buys,       \* identities of ledger rows
          Keys,       \* request keys
          NoKey,      \* a request that carries no requestId
          Quantities, \* quantities a request may ask for
          Amounts     \* numbers of tickets a type may start with

VARIABLES onSale,  \* the Ticket Types sold so far
          left,    \* tickets left, per Ticket Type
          ledger   \* decided purchases

saleVars == <<onSale, left, ledger>>

\* A ledger row: who bought what, under which key, and the decision.
LedgerRow == [id: Buys, key: Keys \cup {NoKey}, type: Types,
              quantity: Quantities, status: {"confirmed", "rejected"}]

\* The key is free: NoKey never blocks, any other key is used by one row.
KeyFree(k) == k = NoKey \/ \A r \in ledger : r.key # k

Init == /\ onSale = {}
        /\ left = [y \in Types |-> 0]
        /\ ledger = {}

\* A type goes on sale with n tickets.
Offer(y, n) == /\ y \notin onSale
               /\ onSale' = onSale \cup {y}
               /\ left' = [left EXCEPT ![y] = n]
               /\ UNCHANGED ledger

\* A purchase is decided and recorded under a fresh id and a free key.
Record(r) == /\ \A s \in ledger : s.id # r.id
             /\ KeyFree(r.key)
             /\ r.type \in onSale
             /\ ledger' = ledger \cup {r}
             /\ UNCHANGED onSale

\* Sold: the stock can serve it and shrinks by exactly the quantity.
Sell(r) == /\ r.status = "confirmed"
           /\ r.quantity <= left[r.type]
           /\ Record(r)
           /\ left' = [left EXCEPT ![r.type] = @ - r.quantity]

\* Turned down: at that moment the stock of the type cannot serve it.
TurnDown(r) == /\ r.status = "rejected"
               /\ r.quantity > left[r.type]
               /\ Record(r)
               /\ UNCHANGED left

Next == \/ \E y \in Types, n \in Amounts : Offer(y, n)
        \/ \E r \in LedgerRow : Sell(r) \/ TurnDown(r)

Spec == Init /\ [][Next]_saleVars
=============================================================================
