------------------------- MODULE RefreshTokens_proofs -------------------------
(***************************************************************************)
(* Theorems about refresh tokens, for any number of requests, users and    *)
(* tokens.  A family is a chain with one end (Chain); the transactions on  *)
(* its tokens exclude each other by their row locks (TxInv, LocksExclude); *)
(* and no transaction that could extend a family is open when the family   *)
(* is old enough for the cleanup (SweepInv).                               *)
(*                                                                         *)
(* Then theorems about the browser in front of them, with any number of    *)
(* tabs, calls and forms: it is never taken for a thief, and never left    *)
(* with a dead cookie, unless a reply was lost or two tabs refreshed with  *)
(* one token (BrowserInv).                                                 *)
(***************************************************************************)
EXTENDS BrowserSession, TLAPS

-----------------------------------------------------------------------------
(* The inductive invariant.                                                *)

\* The end of a family's chain: its youngest token.
Last(t) == t \in present /\ row[t].replacedBy = NoToken

\* The links of LineageIntact, and one end for each family.
Chain ==
  /\ LineageIntact
  /\ \A s, t \in present : Last(s) /\ Last(t) /\ row[s].family = row[t].family => s = t
  /\ \A t \in present : row[t].family \in 1..made

\* A rotation that has passed the checks of LockToken.
Rotating(r) == tx[r].pc \in {"locked", "replaced"}

\* The row Replace has inserted.
IsSuccessor(new, t, begun) ==
  row[new] = [user |-> row[t].user, family |-> row[t].family, parent |-> t,
              replacedBy |-> NoToken, expires |-> begun + TTL,
              used |-> FALSE, revoked |-> "no"]

\* What a request knows of the rows, thanks to the locks it holds.
TxInv(r) ==
  /\ Open(r) => /\ tx[r].token \in 1..made
                /\ tx[r].begun <= now /\ now <= tx[r].begun + MaxOpen
  /\ Rotating(r) => /\ Live(tx[r].token)
                    /\ tx[r].begun < row[tx[r].token].expires
  /\ tx[r].pc = "replaced" => /\ tx[r].new \in (1..made) \ present
                              /\ IsSuccessor(tx[r].new, tx[r].token, tx[r].begun)
  /\ tx[r].pc # "revoking" => tx[r].todo = {} /\ tx[r].done = {}
  /\ \A t \in tx[r].done : t \in present /\ row[t].revoked = "no"

\* Two rotations have inserted different rows.
OwnSuccessors ==
  \A r, q \in Requests :
    r # q /\ tx[r].pc = "replaced" /\ tx[q].pc = "replaced" => tx[r].new # tx[q].new

LocksExclude ==
  /\ \A r, q \in Requests : r # q => Locks(r) \cap Locks(q) = {}
  /\ \A r \in Requests : Locks(r) \cap sweep.done = {}

\* The rows the DELETE takes: whole families, all of them old.
Swept == sweep.todo \cup sweep.done

SweepInv ==
  /\ sweep.pc # "deleting" => Swept = {}
  /\ Swept \subseteq present
  /\ \A t \in Swept : row[t].expires + Retention < now
  /\ \A t \in Swept, s \in present : row[s].family = row[t].family => s \in Swept

IInv ==
  /\ TypeOK
  /\ Chain
  /\ \A r \in Requests : TxInv(r)
  /\ OwnSuccessors
  /\ LocksExclude
  /\ SweepInv

-----------------------------------------------------------------------------
(* Types.                                                                  *)

\* Goto changes the step of one request, and drops its rows.
LEMMA GotoEffect ==
  ASSUME tx \in [Requests -> Transaction], NEW r \in Requests, NEW step \in Steps,
         Goto(r, step)
  PROVE  /\ tx' \in [Requests -> Transaction]
         /\ \A q \in Requests \ {r} : tx'[q] = tx[q]
         /\ tx'[r].pc = step /\ tx'[r].todo = {} /\ tx'[r].done = {}
         /\ tx'[r].kind = tx[r].kind /\ tx'[r].user = tx[r].user
         /\ tx'[r].token = tx[r].token /\ tx'[r].new = tx[r].new
         /\ tx'[r].begun = tx[r].begun
<1>1. tx[r] \in Transaction
  OBVIOUS
<1>2. [tx[r] EXCEPT !.pc = step, !.todo = {}, !.done = {}] \in Transaction
  BY <1>1 DEF Transaction
<1>3. tx' = [tx EXCEPT ![r] = [tx[r] EXCEPT !.pc = step, !.todo = {}, !.done = {}]]
  BY DEF Goto
<1> QED BY <1>1, <1>2, <1>3 DEF Transaction

LEMMA Placeholders ==
  /\ AnyUser \in Users /\ NoRequest \in Transaction
  /\ \A t \in Tokens : NoRow(t) \in Row
<1>1. AnyUser \in Users
  BY UsersAssumption DEF AnyUser
<1>2. NoRequest \in Transaction
  BY <1>1 DEF NoRequest, Transaction, Steps, Kinds, Link
<1>3. \A t \in Tokens : NoRow(t) \in Row
  BY <1>1 DEF NoRow, Row, Link
<1> QED BY <1>1, <1>2, <1>3

LEMMA NumberTypes ==
  ASSUME TypeOK
  PROVE  /\ now \in Nat /\ made \in Nat
         /\ present \subseteq Tokens /\ 1..made \subseteq Tokens
         /\ \A t \in Tokens : /\ row[t] \in Row /\ row[t].expires \in Nat
                             /\ row[t].family \in Tokens
         /\ \A r \in Requests : tx[r] \in Transaction /\ tx[r].begun \in Nat
<1>1. /\ now \in Nat /\ made \in Nat
      /\ present \subseteq Tokens /\ 1..made \subseteq Tokens
  BY BoundsAssumption DEF TypeOK, Tokens
<1>2. \A t \in Tokens : row[t] \in Row
  BY DEF TypeOK
<1>3. \A r \in Requests : tx[r] \in Transaction
  BY DEF TypeOK
<1> QED BY <1>1, <1>2, <1>3 DEF Row, Transaction

LEMMA InitTypes == Init => TypeOK
BY Placeholders, BoundsAssumption DEF Init, TypeOK

LEMMA ArriveTypes ==
  ASSUME TypeOK, NEW r \in Requests, Arrive(r)
  PROVE  TypeOK'
<1> USE DEF TypeOK
<1>1. tx[r] \in Transaction
  OBVIOUS
<1>2. ASSUME NEW u \in Users, SignUp(r, u) \/ LogIn(r, u)
      PROVE  TypeOK'
  <2>1. tx' \in [Requests -> Transaction]
    BY <1>1, <1>2 DEF SignUp, LogIn, Transaction, Steps, Kinds
  <2>2. users' \subseteq Users
    BY <1>2 DEF SignUp, LogIn
  <2> QED BY <1>2, <2>1, <2>2 DEF SignUp, LogIn
<1>3. ASSUME NEW t \in Presentable, Send(r, "refresh", t) \/ Send(r, "logout", t)
      PROVE  TypeOK'
  <2>1. t \in Link
    BY BoundsAssumption DEF Presentable, Link, Tokens
  <2>2. now \in Nat
    BY BoundsAssumption
  <2>3. tx' \in [Requests -> Transaction]
    BY <1>1, <1>3, <2>1, <2>2 DEF Send, Transaction, Steps, Kinds, Link
  <2> QED BY <1>3, <2>3 DEF Send
<1> QED BY <1>2, <1>3 DEF Arrive

LEMMA ServeTypes ==
  ASSUME TypeOK, NEW r \in Requests, TxInv(r), Serve(r) \/ Abort(r) \/ Finish(r)
  PROVE  TypeOK'
<1> USE DEF TypeOK
<1>1. /\ tx[r] \in Transaction /\ tx[r].user \in Users /\ tx[r].begun \in Nat
      /\ tx[r].token \in Link /\ tx[r].new \in Link
  BY DEF Transaction
<1>2. /\ now + TTL \in Nat /\ tx[r].begun + TTL \in Nat
      /\ present \subseteq Tokens /\ Tokens \subseteq Link /\ NoToken \in Link
  BY <1>1, BoundsAssumption, LifetimesAssumption DEF Tokens, Link
<1>3. ASSUME Issue(r) PROVE TypeOK'
  <2>1. made + 1 \in Tokens /\ made' \in 0..MaxTokens /\ present' \subseteq 1..made'
    BY <1>3, BoundsAssumption DEF Issue, Tokens
  <2>2. NewRow(tx[r].user, made + 1, NoToken) \in Row
    BY <1>1, <1>2, <2>1 DEF NewRow, Row
  <2>3. row' \in [Tokens -> Row]
    BY <1>3, <2>1, <2>2 DEF Issue
  <2>4. tx' \in [Requests -> Transaction]
    BY <1>1, <1>2, <1>3, <2>1 DEF Issue, Transaction, Steps
  <2> QED BY <1>3, <2>1, <2>3, <2>4 DEF Issue
<1>4. ASSUME IssueFails(r) \/ LockToken(r) PROVE TypeOK'
  <2>1. \E step \in Steps : Goto(r, step)
    BY <1>4 DEF IssueFails, LockToken, Steps
  <2> QED BY <1>4, <2>1, GotoEffect DEF IssueFails, LockToken
<1>5. ASSUME Replace(r) PROVE TypeOK'
  <2> DEFINE t == tx[r].token
             new == [NewRow(row[t].user, row[t].family, t) EXCEPT !.expires = tx[r].begun + TTL]
  <2>1. made + 1 \in Tokens /\ made' \in 0..MaxTokens /\ present' \subseteq 1..made'
    BY <1>5, BoundsAssumption DEF Replace, Tokens
  <2>2. t \in Tokens
    BY <1>2, <1>5 DEF Replace, TxInv, Rotating, Live
  <2>3. new \in Row
    BY <1>1, <1>2, <2>2 DEF NewRow, Row
  <2>4. row' \in [Tokens -> Row]
    BY <1>5, <2>1, <2>3 DEF Replace
  <2>5. tx' \in [Requests -> Transaction]
    BY <1>1, <1>2, <1>5, <2>1 DEF Replace, Transaction, Steps
  <2> QED BY <1>5, <2>1, <2>4, <2>5 DEF Replace
<1>6. ASSUME CommitRotation(r) PROVE TypeOK'
  <2>1. tx[r].token \in Tokens /\ tx[r].new \in 1..made
    BY <1>2, <1>6 DEF CommitRotation, TxInv, Rotating, Live
  <2>2. [row[tx[r].token] EXCEPT !.used = TRUE, !.replacedBy = tx[r].new] \in Row
    <3>1. row[tx[r].token] \in Row
      BY <2>1
    <3> HIDE DEF TypeOK
    <3> QED BY <1>1, <3>1 DEF Row
  <2>3. row' \in [Tokens -> Row]
    BY <1>6, <2>1, <2>2 DEF CommitRotation
  <2>4. tx' \in [Requests -> Transaction]
    BY <1>6, GotoEffect DEF CommitRotation, Steps
  <2>5. present' \subseteq 1..made
    BY <1>6, <2>1 DEF CommitRotation
  <2> QED BY <1>6, <2>3, <2>4, <2>5 DEF CommitRotation
<1>7. ASSUME StartRevoke(r) PROVE TypeOK'
  <2> DEFINE rows == IF tx[r].token \in present
                     THEN {s \in Family(row[tx[r].token].family) : row[s].revoked = "no"}
                     ELSE {}
  <2>1. rows \subseteq Tokens
    BY <1>2 DEF Family
  <2>2. [tx[r] EXCEPT !.pc = "revoking", !.todo = rows] \in Transaction
    BY <1>1, <2>1 DEF Transaction, Steps
  <2>3. tx' = [tx EXCEPT ![r] = [tx[r] EXCEPT !.pc = "revoking", !.todo = rows]]
    BY <1>7 DEF StartRevoke
  <2> HIDE DEF rows
  <2>4. tx' \in [Requests -> Transaction]
    BY <2>2, <2>3
  <2> QED BY <1>7, <2>4 DEF StartRevoke
<1>8. ASSUME NEW t \in Tokens, RevokeRow(r, t) PROVE TypeOK'
  <2> DEFINE rows == IF t \in present /\ row[t].revoked = "no"
                     THEN tx[r].done \cup {t} ELSE tx[r].done
  <2>1. [tx[r] EXCEPT !.todo = @ \ {t}, !.done = rows] \in Transaction
    BY <1>1, <1>8 DEF Transaction
  <2>2. tx' = [tx EXCEPT ![r] = [tx[r] EXCEPT !.todo = @ \ {t}, !.done = rows]]
    BY <1>8 DEF RevokeRow
  <2> QED BY <1>8, <2>1, <2>2 DEF RevokeRow
<1>9. ASSUME CommitRevoke(r) PROVE TypeOK'
  <2>1. \A t \in Tokens : [row[t] EXCEPT !.revoked = Reason(r)] \in Row
    BY DEF Row, Reason
  <2>2. row' \in [Tokens -> Row]
    BY <1>9, <2>1 DEF CommitRevoke
  <2>3. tx' \in [Requests -> Transaction]
    BY <1>9, GotoEffect DEF CommitRevoke, Steps
  <2> QED BY <1>9, <2>2, <2>3 DEF CommitRevoke
<1>10. ASSUME Abort(r) PROVE TypeOK'
  <2>1. row' \in [Tokens -> Row]
    BY <1>10, <1>1, Placeholders DEF Abort, Link, NoToken, Open
  <2>2. tx' \in [Requests -> Transaction]
    BY <1>10, GotoEffect DEF Abort, Steps
  <2> QED BY <1>10, <2>1, <2>2 DEF Abort
<1>11. ASSUME Finish(r) PROVE TypeOK'
  BY <1>11, Placeholders DEF Finish
<1> QED BY <1>3, <1>4, <1>5, <1>6, <1>7, <1>8, <1>9, <1>10, <1>11 DEF Serve

LEMMA SweepTypes ==
  ASSUME TypeOK, Sweep
  PROVE  TypeOK'
<1> USE DEF TypeOK
<1>1. present \subseteq Tokens
  BY BoundsAssumption DEF Tokens
<1>2. ASSUME StartSweep PROVE TypeOK'
  <2>1. \E fs : sweep' = [pc |-> "deleting", todo |-> Targets(fs), done |-> {}]
    BY <1>2 DEF StartSweep
  <2>2. \A fs : Targets(fs) \subseteq Tokens
    BY <1>1 DEF Targets
  <2>3. sweep' \in [pc: {"idle", "deleting", "violated"},
                    todo: SUBSET Tokens, done: SUBSET Tokens]
    BY <2>1, <2>2
  <2> QED BY <1>2, <2>3 DEF StartSweep
<1>3. ASSUME NEW t \in Tokens, SweepRow(t) PROVE TypeOK'
  BY <1>3 DEF SweepRow
<1>4. ASSUME FinishSweep PROVE TypeOK'
  <2>1. row' \in [Tokens -> Row]
    BY <1>4, Placeholders DEF FinishSweep
  <2>2. present' \subseteq 1..made
    BY <1>4 DEF FinishSweep
  <2>3. sweep' \in [pc: {"idle", "deleting", "violated"},
                    todo: SUBSET Tokens, done: SUBSET Tokens]
    BY <1>4 DEF FinishSweep
  <2> QED BY <1>4, <2>1, <2>2, <2>3 DEF FinishSweep
<1>5. ASSUME AbortSweep PROVE TypeOK'
  BY <1>5 DEF AbortSweep
<1> QED BY <1>2, <1>3, <1>4, <1>5 DEF Sweep

-----------------------------------------------------------------------------
(* Steps that change one request and no row.                               *)

LEMMA OtherUntouched ==
  ASSUME NEW q \in Requests, tx'[q] = tx[q], TxInv(q),
         UNCHANGED <<now, made, present, row>>
  PROVE  TxInv(q)'
BY DEF TxInv, Open, Rotating, Live, Spent, IsSuccessor

LEMMA OneRequest ==
  ASSUME IInv, TypeOK', NEW r \in Requests,
         UNCHANGED <<now, made, present, row, sweep>>,
         \A q \in Requests \ {r} : tx'[q] = tx[q],
         TxInv(r)', tx'[r].pc # "replaced",
         \A t \in Locks(r)' : t \in Locks(r) \/ LockFree(r, t)
  PROVE  IInv'
<1>1. Chain'
  BY DEF IInv, Chain, LineageIntact, Last
<1>2. ASSUME NEW q \in Requests PROVE TxInv(q)'
  BY <1>2, OtherUntouched DEF IInv
<1>3. OwnSuccessors'
  BY DEF IInv, OwnSuccessors
<1>4. \A q \in Requests \ {r} : Locks(q)' = Locks(q)
  BY DEF Locks
<1>5. LocksExclude'
  BY <1>4 DEF IInv, LocksExclude, LockFree
<1>6. SweepInv'
  BY DEF IInv, SweepInv, Swept
<1> QED BY <1>1, <1>2, <1>3, <1>5, <1>6 DEF IInv

LEMMA ArriveKeepsInv ==
  ASSUME IInv, NEW r \in Requests, Arrive(r)
  PROVE  IInv'
<1>1. TypeOK'
  BY ArriveTypes DEF IInv
<1> DEFINE Arrived ==
             /\ UNCHANGED <<now, made, present, row, sweep>>
             /\ \A q \in Requests \ {r} : tx'[q] = tx[q]
             /\ tx[r].pc = "idle" /\ tx'[r].todo = tx[r].todo /\ tx'[r].done = tx[r].done
             /\ \/ tx'[r].pc \in {"failed", "identified"}
                \/ tx'[r].pc = "sent" /\ tx'[r].token \in 1..made /\ tx'[r].begun = now
<1>2. Arrived
  <2>1. tx \in [Requests -> Transaction] /\ tx[r] \in Transaction
    BY DEF IInv, TypeOK
  <2>2. ASSUME NEW u \in Users, SignUp(r, u) \/ LogIn(r, u) PROVE Arrived
    BY <2>1, <2>2 DEF SignUp, LogIn, Transaction
  <2>3. ASSUME NEW t \in Presentable, Send(r, "refresh", t) \/ Send(r, "logout", t)
        PROVE  Arrived
    BY <2>1, <2>3 DEF Send, Presentable, Transaction
  <2> QED BY <2>2, <2>3 DEF Arrive
<1>3. tx[r].todo = {} /\ tx[r].done = {}
  BY <1>2 DEF IInv, TxInv
<1>4. TxInv(r)'
  BY <1>1, <1>2, <1>3, LifetimesAssumption, BoundsAssumption DEF TxInv, Open, Rotating, TypeOK
<1>5. Locks(r)' = {}
  BY <1>2, <1>3 DEF Locks
<1> QED BY <1>1, <1>2, <1>4, <1>5, OneRequest

\* A request that ends gives back its locks.
LEMMA EndKeepsInv ==
  ASSUME IInv, TypeOK', NEW r \in Requests,
         UNCHANGED <<now, made, present, row, sweep>>,
         \A q \in Requests \ {r} : tx'[q] = tx[q],
         tx'[r].pc \in {"idle", "granted", "failed", "closed"},
         tx'[r].todo = {}, tx'[r].done = {}
  PROVE  IInv'
<1>1. TxInv(r)'
  BY DEF TxInv, Open, Rotating
<1>2. Locks(r)' = {}
  BY DEF Locks
<1> QED BY <1>1, <1>2, OneRequest

LEMMA LockTokenKeepsInv ==
  ASSUME IInv, NEW r \in Requests, LockToken(r)
  PROVE  IInv'
<1> DEFINE t == tx[r].token
<1>1. TypeOK'
  BY ServeTypes DEF IInv, Serve
<1>2. PICK step \in {"failed", "spent", "locked"} :
        /\ Goto(r, step)
        /\ step = "locked" => t \in present /\ ~Spent(t) /\ ~(row[t].expires <= now)
  BY DEF LockToken
<1>3. /\ \A q \in Requests \ {r} : tx'[q] = tx[q]
      /\ tx'[r].pc = step /\ tx'[r].todo = {} /\ tx'[r].done = {}
      /\ tx'[r].token = t /\ tx'[r].begun = tx[r].begun
  BY <1>2, GotoEffect DEF IInv, TypeOK, Steps
<1>4. /\ UNCHANGED <<now, made, present, row, sweep>> /\ Open(r) /\ LockFree(r, t)
  BY DEF LockToken, Open
<1>5. TxInv(r)'
  <2>1. /\ t \in 1..made /\ tx[r].begun <= now /\ now <= tx[r].begun + MaxOpen
    BY <1>4 DEF IInv, TxInv
  <2>2. step = "locked" => /\ Live(t) /\ tx[r].begun < row[t].expires
    <3>1. t \in present => row[t].expires \in Nat /\ now \in Nat /\ tx[r].begun \in Nat
      BY NumberTypes DEF IInv, Row
    <3> QED BY <1>2, <2>1, <3>1 DEF Live
  <2> QED BY <1>3, <1>4, <2>1, <2>2 DEF TxInv, Open, Rotating, Live, Spent
<1>6. Locks(r)' \subseteq {t}
  BY <1>3 DEF Locks
<1> QED BY <1>1, <1>3, <1>4, <1>5, <1>6, OneRequest

LEMMA StartRevokeKeepsInv ==
  ASSUME IInv, NEW r \in Requests, StartRevoke(r)
  PROVE  IInv'
<1>1. TypeOK'
  BY ServeTypes DEF IInv, Serve
<1>2. /\ \A q \in Requests \ {r} : tx'[q] = tx[q]
      /\ tx'[r].pc = "revoking" /\ tx'[r].done = tx[r].done
      /\ tx'[r].token = tx[r].token /\ tx'[r].begun = tx[r].begun
      /\ tx'[r].kind = tx[r].kind
      /\ tx[r].pc = "spent" \/ (tx[r].pc = "sent" /\ tx[r].kind = "logout")
      /\ UNCHANGED <<now, made, present, row, sweep>> /\ Open(r)
  BY DEF StartRevoke, Open, IInv, TypeOK, Transaction
<1>3. tx[r].done = {}
  BY <1>2 DEF IInv, TxInv
<1>4. TxInv(r)'
  BY <1>2, <1>3 DEF IInv, TxInv, Open, Rotating
<1>5. Locks(r)' \subseteq Locks(r)
  BY <1>2, <1>3 DEF Locks
<1> QED BY <1>1, <1>2, <1>4, <1>5, OneRequest

LEMMA RevokeRowKeepsInv ==
  ASSUME IInv, NEW r \in Requests, NEW t \in Tokens, RevokeRow(r, t)
  PROVE  IInv'
<1>1. TypeOK'
  BY ServeTypes DEF IInv, Serve
<1>2. /\ \A q \in Requests \ {r} : tx'[q] = tx[q]
      /\ tx'[r].pc = "revoking" /\ tx[r].pc = "revoking"
      /\ tx'[r].done = IF t \in present /\ row[t].revoked = "no"
                       THEN tx[r].done \cup {t} ELSE tx[r].done
      /\ tx'[r].token = tx[r].token /\ tx'[r].begun = tx[r].begun
      /\ tx'[r].kind = tx[r].kind
      /\ UNCHANGED <<now, made, present, row, sweep>>
      /\ LockFree(r, t)
  BY DEF RevokeRow, IInv, TypeOK, Transaction
<1>3. TxInv(r)'
  BY <1>2 DEF IInv, TxInv, Open, Rotating
<1>4. Locks(r)' \subseteq Locks(r) \cup {t}
  BY <1>2 DEF Locks
<1> QED BY <1>1, <1>2, <1>3, <1>4, OneRequest

-----------------------------------------------------------------------------
(* Steps that write rows.                                                  *)

\* Another request is not disturbed: the rows it knows are locked by it, or are
\* not committed.
LEMMA OtherKeepsInv ==
  ASSUME NEW q \in Requests, TxInv(q), tx'[q] = tx[q], now' = now,
         1..made \subseteq 1..made',
         \A t \in Locks(q) : t \in present => t \in present' /\ row'[t] = row[t],
         tx[q].pc = "replaced" => tx[q].new \notin present' /\ row'[tx[q].new] = row[tx[q].new]
  PROVE  TxInv(q)'
<1>1. \A t \in tx[q].done : t \in present' /\ row'[t].revoked = "no"
  BY DEF TxInv, Locks
<1>2. CASE Rotating(q)
  <2>1. /\ tx[q].token \in Locks(q) /\ tx[q].token \in present
    BY <1>2 DEF Rotating, Locks, TxInv, Live
  <2>2. tx[q].token \in present' /\ row'[tx[q].token] = row[tx[q].token]
    BY <2>1
  <2> QED BY <1>1, <1>2, <2>1, <2>2 DEF TxInv, Open, Rotating, Live, Spent, IsSuccessor
<1>3. CASE ~Rotating(q)
  BY <1>1, <1>3 DEF TxInv, Open, Rotating
<1> QED BY <1>2, <1>3

LEMMA ChainUntouched ==
  ASSUME Chain, present' = present, sweep' = sweep, 1..made \subseteq 1..made',
         present \subseteq Tokens, NoToken \notin present,
         \A t \in present : row'[t] = row[t]
  PROVE  Chain'
BY DEF Chain, LineageIntact, Last

LEMMA SweepUntouched ==
  ASSUME SweepInv, present' = present, sweep' = sweep, now' = now,
         \A t \in present : row'[t] = row[t]
  PROVE  SweepInv'
BY DEF SweepInv, Swept

\* A row that is written anew is in no lock, no chain and no transaction.
LEMMA NewToken ==
  ASSUME IInv, made' = made + 1
  PROVE  /\ made + 1 \notin present /\ 1..made \subseteq 1..made'
         /\ \A t \in present : t # made + 1 /\ row[t].family # made + 1
         /\ \A q \in Requests : made + 1 \notin Locks(q) \cap present
         /\ \A q \in Requests : tx[q].pc = "replaced" => tx[q].new # made + 1
         /\ NoToken \notin present
<1>1. made \in Nat /\ present \subseteq 1..made
  BY NumberTypes DEF IInv, TypeOK
<1>2. \A t \in present : row[t].family \in 1..made
  BY DEF IInv, Chain
<1>3. \A q \in Requests : tx[q].pc = "replaced" => tx[q].new \in 1..made
  BY DEF IInv, TxInv
<1> QED BY <1>1, <1>2, <1>3 DEF NoToken

LEMMA ReplaceKeepsInv ==
  ASSUME IInv, NEW r \in Requests, Replace(r)
  PROVE  IInv'
<1> DEFINE t == tx[r].token
           n == made + 1
<1>1. TypeOK'
  BY ServeTypes DEF IInv, Serve
<1>2. /\ made' = n /\ now' = now /\ present' = present /\ sweep' = sweep
      /\ tx[r].pc = "locked"
      /\ \A q \in Requests \ {r} : tx'[q] = tx[q]
      /\ tx'[r].pc = "replaced" /\ tx'[r].new = n
      /\ tx'[r].todo = tx[r].todo /\ tx'[r].done = tx[r].done
      /\ tx'[r].token = t /\ tx'[r].begun = tx[r].begun /\ tx'[r].kind = tx[r].kind
  BY DEF Replace, IInv, TypeOK, Transaction
<1>3. Live(t) /\ t \in present
  BY <1>2 DEF IInv, TxInv, Rotating, Live
<1>4. /\ n \notin present /\ 1..made \subseteq 1..made'
      /\ \A q \in Requests : n \notin Locks(q) \cap present
      /\ \A q \in Requests : tx[q].pc = "replaced" => tx[q].new # n
      /\ present \subseteq Tokens /\ NoToken \notin present
      /\ n \in Tokens /\ n \in 1..made'
  <2>1. /\ n \notin present /\ 1..made \subseteq 1..made' /\ NoToken \notin present
        /\ \A q \in Requests : n \notin Locks(q) \cap present
        /\ \A q \in Requests : tx[q].pc = "replaced" => tx[q].new # n
    BY <1>2, NewToken
  <2>2. made \in Nat /\ MaxTokens \in Nat /\ made < MaxTokens
    BY NumberTypes, BoundsAssumption DEF IInv, TypeOK, Replace
  <2>3. n \in Tokens /\ n \in 1..made'
    BY <1>2, <2>2 DEF Tokens
  <2>4. present \subseteq Tokens
    BY NumberTypes DEF IInv
  <2> QED BY <2>1, <2>3, <2>4
<1>5. /\ \A s \in Tokens : s # n => row'[s] = row[s]
      /\ row'[n] = [NewRow(row[t].user, row[t].family, t) EXCEPT !.expires = tx[r].begun + TTL]
  BY <1>4 DEF Replace, IInv, TypeOK
<1>6. Chain'
  BY <1>2, <1>4, <1>5, ChainUntouched DEF IInv
<1>7. SweepInv'
  BY <1>2, <1>4, <1>5, SweepUntouched DEF IInv
<1>8. ASSUME NEW q \in Requests \ {r} PROVE TxInv(q)'
  <2>1. \A s \in Locks(q) : s \in present => row'[s] = row[s]
    BY <1>4, <1>5
  <2>2. tx[q].pc = "replaced" =>
          tx[q].new \notin present' /\ row'[tx[q].new] = row[tx[q].new]
    BY <1>2, <1>4, <1>5, NumberTypes DEF IInv, TxInv
  <2> QED BY <1>2, <1>4, <2>1, <2>2, OtherKeepsInv DEF IInv
<1>9. TxInv(r)'
  <2>1. row'[t] = row[t]
    BY <1>3, <1>4, <1>5
  <2>2. IsSuccessor(tx[r].new, tx[r].token, tx[r].begun)'
    <3>1. row'[n] = [user |-> row[t].user, family |-> row[t].family, parent |-> t,
                     replacedBy |-> NoToken, expires |-> tx[r].begun + TTL,
                     used |-> FALSE, revoked |-> "no"]
      BY <1>5 DEF NewRow
    <3> QED BY <1>2, <2>1, <3>1 DEF IsSuccessor
  <2>3. t \in 1..made' /\ tx[r].begun <= now /\ now <= tx[r].begun + MaxOpen
    BY <1>2, <1>4 DEF IInv, TxInv, Open
  <2>4. tx[r].begun < row[t].expires /\ tx[r].todo = {} /\ tx[r].done = {}
    BY <1>2 DEF IInv, TxInv, Rotating
  <2> QED BY <1>2, <1>3, <1>4, <2>1, <2>2, <2>3, <2>4 DEF TxInv, Open, Rotating, Live, Spent
<1>10. OwnSuccessors'
  BY <1>2, <1>4 DEF IInv, OwnSuccessors
<1>11. LocksExclude'
  <2>1. \A q \in Requests : Locks(q)' = Locks(q)
    BY <1>2 DEF Locks
  <2> QED BY <1>2, <2>1 DEF IInv, LocksExclude
<1> QED BY <1>1, <1>6, <1>7, <1>8, <1>9, <1>10, <1>11 DEF IInv

LEMMA IssueKeepsInv ==
  ASSUME IInv, NEW r \in Requests, Issue(r)
  PROVE  IInv'
<1> DEFINE n == made + 1
<1>1. TypeOK'
  BY ServeTypes DEF IInv, Serve
<1>2. /\ made' = n /\ now' = now /\ present' = present \cup {n} /\ sweep' = sweep
      /\ tx[r].pc = "identified"
      /\ \A q \in Requests \ {r} : tx'[q] = tx[q]
      /\ tx'[r].pc = "granted"
      /\ tx'[r].todo = tx[r].todo /\ tx'[r].done = tx[r].done
  BY DEF Issue, IInv, TypeOK, Transaction
<1>3. /\ n \notin present /\ 1..made \subseteq 1..made'
      /\ \A s \in present : s # n /\ row[s].family # n
      /\ \A q \in Requests : tx[q].pc = "replaced" => tx[q].new # n
      /\ present \subseteq Tokens /\ NoToken \notin present
      /\ n \in Tokens /\ n \in 1..made' /\ n # NoToken
  BY <1>1, <1>2, NewToken, NumberTypes DEF IInv, Issue, TypeOK, Tokens, NoToken
<1>4. /\ \A s \in Tokens : s # n => row'[s] = row[s]
      /\ row'[n].family = n /\ row'[n].parent = NoToken /\ row'[n].replacedBy = NoToken
      /\ ~row'[n].used
  BY <1>3 DEF Issue, IInv, TypeOK, NewRow
<1>5. tx[r].done = {} /\ tx[r].todo = {}
  BY <1>2 DEF IInv, TxInv
<1>6. Chain'
  BY <1>2, <1>3, <1>4 DEF IInv, Chain, LineageIntact, Last
<1>7. SweepInv'
  BY <1>2, <1>3, <1>4 DEF IInv, SweepInv, Swept
<1>8. ASSUME NEW q \in Requests \ {r} PROVE TxInv(q)'
  <2>1. \A s \in Locks(q) : s \in present => s \in present' /\ row'[s] = row[s]
    BY <1>2, <1>3, <1>4
  <2>2. tx[q].pc = "replaced" =>
          tx[q].new \notin present' /\ row'[tx[q].new] = row[tx[q].new]
    BY <1>2, <1>3, <1>4, NumberTypes DEF IInv, TxInv
  <2> QED BY <1>2, <1>3, <2>1, <2>2, OtherKeepsInv DEF IInv
<1>9. TxInv(r)'
  BY <1>2, <1>5 DEF TxInv, Open, Rotating
<1>10. OwnSuccessors'
  BY <1>2 DEF IInv, OwnSuccessors
<1>11. LocksExclude'
  <2>1. Locks(r)' = {} /\ \A q \in Requests \ {r} : Locks(q)' = Locks(q)
    BY <1>2, <1>5 DEF Locks
  <2> QED BY <1>2, <2>1 DEF IInv, LocksExclude
<1> QED BY <1>1, <1>6, <1>7, <1>8, <1>9, <1>10, <1>11 DEF IInv

\* A rotation is under way in a family only while the cleanup leaves it alone.
LEMMA RotatingIsYoung ==
  ASSUME IInv, NEW r \in Requests, Rotating(r)
  PROVE  \A t \in Swept : row[t].family # row[tx[r].token].family
<1> DEFINE t == tx[r].token
<1>1. t \in present /\ tx[r].begun < row[t].expires /\ now <= tx[r].begun + MaxOpen
  BY DEF IInv, TxInv, Rotating, Open, Live
<1>2. /\ now \in Nat /\ tx[r].begun \in Nat /\ row[t].expires \in Nat
  BY <1>1, NumberTypes DEF IInv
<1>3. ~(row[t].expires + Retention < now)
  BY <1>1, <1>2, LifetimesAssumption
<1> QED BY <1>1, <1>3 DEF IInv, SweepInv

LEMMA CommitRotationKeepsInv ==
  ASSUME IInv, NEW r \in Requests, CommitRotation(r)
  PROVE  IInv'
<1> DEFINE t == tx[r].token
           n == tx[r].new
<1>1. TypeOK'
  BY ServeTypes DEF IInv, Serve
<1>2. /\ UNCHANGED <<now, made, sweep>> /\ tx[r].pc = "replaced"
      /\ present' = present \cup {n}
      /\ \A q \in Requests \ {r} : tx'[q] = tx[q]
      /\ tx'[r].pc \in {"granted", "failed"}
      /\ tx'[r].todo = {} /\ tx'[r].done = {}
  BY GotoEffect DEF CommitRotation, IInv, TypeOK, Steps
<1>3. /\ t \in present /\ ~Spent(t) /\ n \in (1..made) \ present
      /\ IsSuccessor(n, t, tx[r].begun)
  BY <1>2 DEF IInv, TxInv, Rotating, Live
<1>4. /\ present \subseteq Tokens /\ t \in Tokens /\ n \in Tokens
      /\ t # n /\ NoToken \notin Tokens
      /\ row[t].family \in 1..made
  BY <1>3, NumberTypes DEF IInv, Tokens, NoToken, Chain
<1>5. /\ \A s \in Tokens : s # t => row'[s] = row[s]
      /\ row'[t] = [row[t] EXCEPT !.used = TRUE, !.replacedBy = n]
  BY <1>4 DEF CommitRotation, IInv, TypeOK
<1>6. /\ row[n].user = row[t].user /\ row[n].family = row[t].family
      /\ row[n].parent = t /\ row[n].replacedBy = NoToken /\ ~row[n].used
  BY <1>3 DEF IsSuccessor
<1>7. /\ row'[t].used /\ row'[t].replacedBy = n
      /\ row'[t].user = row[t].user /\ row'[t].family = row[t].family
      /\ row'[t].parent = row[t].parent /\ row'[t].expires = row[t].expires
  <2>1. row[t] \in Row
    BY <1>4, NumberTypes DEF IInv
  <2> QED BY <1>5, <2>1 DEF Row
<1>8. LineageIntact'
  <2>1. ASSUME NEW s \in present'
        PROVE  /\ row'[s].used <=> row'[s].replacedBy # NoToken
               /\ row'[s].replacedBy # NoToken =>
                    row'[s].replacedBy \in present' /\ row'[row'[s].replacedBy].parent = s
               /\ row'[s].parent # NoToken =>
                    /\ row'[s].parent \in present' /\ row'[row'[s].parent].replacedBy = s
                    /\ row'[row'[s].parent].family = row'[s].family
                    /\ row'[row'[s].parent].user = row'[s].user
    <3>1. CASE s = n
      <4>1. /\ row'[n].parent = t /\ row'[n].replacedBy = NoToken /\ ~row'[n].used
            /\ row'[n].user = row[t].user /\ row'[n].family = row[t].family
        BY <1>4, <1>5, <1>6
      <4>2. t \in present' /\ row'[t].replacedBy = n
        BY <1>2, <1>3, <1>7
      <4>3. row'[t].family = row[t].family /\ row'[t].user = row[t].user
        BY <1>7
      <4> HIDE DEF t, n
      <4> QED BY <3>1, <4>1, <4>2, <4>3
    <3>2. row[t].replacedBy = NoToken
      BY <1>3 DEF Spent
    <3>3. LineageIntact /\ n \notin present /\ n # NoToken
      BY <1>3, <1>4 DEF IInv, Chain
    <3>4. CASE s = t
      <4>1. row[t].parent # t
        BY <3>2, <3>3, <1>3, <1>4 DEF LineageIntact
      <4>2. /\ n \in present' /\ n # NoToken /\ row'[n].parent = t
        BY <1>2, <1>4, <1>5, <1>6, <3>3
      <4>3. ASSUME row[t].parent # NoToken
            PROVE  /\ row[t].parent \in present /\ row'[row[t].parent] = row[row[t].parent]
                   /\ row[row[t].parent].replacedBy = t
                   /\ row[row[t].parent].family = row[t].family
                   /\ row[row[t].parent].user = row[t].user
        <5>1. /\ row[t].parent \in present /\ row[row[t].parent].replacedBy = t
              /\ row[row[t].parent].family = row[t].family
              /\ row[row[t].parent].user = row[t].user
          BY <1>3, <3>3, <4>3 DEF LineageIntact
        <5> QED BY <1>4, <1>5, <4>1, <5>1
      <4> HIDE DEF t, n
      <4> QED BY <1>2, <1>7, <3>4, <4>2, <4>3
    <3>5. CASE s \in present /\ s # t
      <4>1. row'[s] = row[s]
        BY <1>4, <1>5, <3>5
      <4>2. row[s].parent # t
        BY <3>2, <3>3, <3>5, <1>3, <1>4 DEF LineageIntact
      <4>3. /\ row[s].replacedBy \in present => row'[row[s].replacedBy].parent
                                              = row[row[s].replacedBy].parent
            /\ row[s].parent \in present => row'[row[s].parent] = row[row[s].parent]
        BY <1>4, <1>5, <1>7, <4>2
      <4> QED BY <1>2, <3>3, <3>5, <4>1, <4>3 DEF LineageIntact
    <3> QED BY <1>2, <3>1, <3>4, <3>5
  <2>2. sweep'.pc # "violated"
    BY <1>2 DEF IInv, Chain, LineageIntact
  <2> QED BY <2>1, <2>2 DEF LineageIntact
<1>9. Chain'
  <2> HIDE DEF t, n
  <2>1. ASSUME NEW s \in present, Last(s)' PROVE s # t /\ Last(s)
    <3>1. row'[s].replacedBy = NoToken
      BY <2>1 DEF Last
    <3>2. s # t
      BY <1>4, <1>7, <3>1
    <3>3. row'[s] = row[s]
      BY <1>4, <1>5, <3>2
    <3> QED BY <3>1, <3>2, <3>3 DEF Last
  <2>2. Last(t)
    BY <1>3 DEF Last, Spent
  <2>3. ASSUME NEW s \in present'
        PROVE  row'[s].family = IF s = n THEN row[t].family ELSE row[s].family
    <3>1. CASE s = t
      BY <1>4, <1>7, <3>1
    <3>2. CASE s # t
      <4>1. s \in Tokens
        BY <1>2, <1>4
      <4>2. row'[s] = row[s]
        BY <1>5, <3>2, <4>1
      <4> QED BY <1>6, <4>2
    <3> QED BY <3>1, <3>2
  <2>4. \A s, q \in present : Last(s) /\ Last(q) /\ row[s].family = row[q].family => s = q
    BY DEF IInv, Chain
  <2>5. ASSUME NEW s \in present', NEW q \in present', Last(s)', Last(q)',
               row'[s].family = row'[q].family
        PROVE  s = q
    <3>1. ASSUME NEW x \in present, Last(x)' PROVE row'[x].family # row'[n].family
      <4>1. x # t /\ Last(x) /\ x # n
        BY <1>3, <2>1, <3>1
      <4>2. row'[x].family = row[x].family /\ row'[n].family = row[t].family
        BY <1>2, <2>3, <4>1
      <4> QED BY <1>3, <2>2, <2>4, <4>1, <4>2
    <3>2. CASE s \in present /\ q \in present
      <4>1. /\ Last(s) /\ Last(q)
            /\ row'[s].family = row[s].family /\ row'[q].family = row[q].family
        BY <1>3, <2>1, <2>3, <2>5, <3>2
      <4> QED BY <2>4, <2>5, <3>2, <4>1
    <3>3. CASE ~(s \in present /\ q \in present)
      BY <1>2, <2>5, <3>1, <3>3
    <3> QED BY <3>2, <3>3
  <2>6. \A s \in present' : row'[s].family \in 1..made'
    BY <1>2, <1>4, <2>3 DEF IInv, Chain
  <2> QED BY <1>8, <2>5, <2>6 DEF Chain
<1>10. SweepInv'
  <2>1. \A s \in Swept : row[s].family # row[t].family
    BY <1>2, RotatingIsYoung DEF Rotating
  <2>2. \A s \in Swept : s # n /\ s # t /\ row'[s] = row[s]
    BY <1>3, <1>4, <1>5, <2>1 DEF IInv, SweepInv
  <2>3. \A s \in present : row'[s].family = row[s].family
    BY <1>4, <1>5, <1>7
  <2> QED BY <1>2, <1>3, <1>4, <1>5, <1>6, <2>1, <2>2, <2>3 DEF IInv, SweepInv, Swept
<1>11. ASSUME NEW q \in Requests \ {r} PROVE TxInv(q)'
  <2>1. t \notin Locks(q)
    BY <1>2 DEF IInv, LocksExclude, Locks
  <2>2. \A s \in Locks(q) : s \in present => s \in present' /\ row'[s] = row[s]
    BY <1>2, <1>4, <1>5, <2>1
  <2>3. tx[q].pc = "replaced" =>
          tx[q].new \notin present' /\ row'[tx[q].new] = row[tx[q].new]
    <3>1. tx[q].pc = "replaced" => tx[q].new \in Tokens /\ tx[q].new \notin present
      BY NumberTypes DEF IInv, TxInv
    <3>2. tx[q].pc = "replaced" => tx[q].new # n
      BY <1>2 DEF IInv, OwnSuccessors
    <3> QED BY <1>2, <1>3, <1>5, <3>1, <3>2
  <2> QED BY <1>2, <2>2, <2>3, OtherKeepsInv DEF IInv
<1>12. TxInv(r)'
  BY <1>2 DEF TxInv, Open, Rotating
<1>13. OwnSuccessors'
  BY <1>2 DEF IInv, OwnSuccessors
<1>14. LocksExclude'
  <2>1. Locks(r)' = {} /\ \A q \in Requests \ {r} : Locks(q)' = Locks(q)
    BY <1>2 DEF Locks
  <2> QED BY <1>2, <2>1 DEF IInv, LocksExclude
<1> QED BY <1>1, <1>9, <1>10, <1>11, <1>12, <1>13, <1>14 DEF IInv

LEMMA CommitRevokeKeepsInv ==
  ASSUME IInv, NEW r \in Requests, CommitRevoke(r)
  PROVE  IInv'
<1>1. TypeOK'
  BY ServeTypes DEF IInv, Serve
<1>2. /\ UNCHANGED <<now, made, present, sweep>> /\ tx[r].pc = "revoking"
      /\ \A q \in Requests \ {r} : tx'[q] = tx[q]
      /\ tx'[r].pc \in {"closed", "failed"}
      /\ tx'[r].todo = {} /\ tx'[r].done = {}
  BY GotoEffect DEF CommitRevoke, IInv, TypeOK, Steps
<1>3. /\ present \subseteq Tokens /\ 1..made \subseteq Tokens
      /\ \A t \in Tokens : row[t] \in Row
  BY NumberTypes DEF IInv
<1>4. \A t \in Tokens :
        /\ t \notin tx[r].done => row'[t] = row[t]
        /\ row'[t].user = row[t].user /\ row'[t].family = row[t].family
        /\ row'[t].parent = row[t].parent /\ row'[t].replacedBy = row[t].replacedBy
        /\ row'[t].expires = row[t].expires /\ row'[t].used = row[t].used
  BY <1>3 DEF CommitRevoke, Row
<1>5. Chain'
  <2>1. \A t \in present : row[t].parent \in present => row[t].parent \in Tokens
    BY <1>3
  <2>2. \A t \in present : row[t].replacedBy \in present => row[t].replacedBy \in Tokens
    BY <1>3
  <2> QED BY <1>2, <1>3, <1>4, <2>1, <2>2 DEF IInv, Chain, LineageIntact, Last
<1>6. SweepInv'
  BY <1>2, <1>3, <1>4 DEF IInv, SweepInv, Swept
<1>7. ASSUME NEW q \in Requests \ {r} PROVE TxInv(q)'
  <2>1. tx[r].done \cap Locks(q) = {}
    BY <1>2 DEF IInv, LocksExclude, Locks
  <2>2. \A s \in Locks(q) : s \in present => s \in present' /\ row'[s] = row[s]
    BY <1>2, <1>3, <1>4, <2>1
  <2>3. tx[q].pc = "replaced" =>
          tx[q].new \notin present' /\ row'[tx[q].new] = row[tx[q].new]
    BY <1>2, <1>3, <1>4 DEF IInv, TxInv
  <2> QED BY <1>2, <2>2, <2>3, OtherKeepsInv DEF IInv
<1>8. TxInv(r)'
  BY <1>2 DEF TxInv, Open, Rotating
<1>9. OwnSuccessors'
  BY <1>2 DEF IInv, OwnSuccessors
<1>10. LocksExclude'
  <2>1. Locks(r)' = {} /\ \A q \in Requests \ {r} : Locks(q)' = Locks(q)
    BY <1>2 DEF Locks
  <2> QED BY <1>2, <2>1 DEF IInv, LocksExclude
<1> QED BY <1>1, <1>5, <1>6, <1>7, <1>8, <1>9, <1>10 DEF IInv

LEMMA AbortKeepsInv ==
  ASSUME IInv, NEW r \in Requests, Abort(r)
  PROVE  IInv'
<1> DEFINE n == tx[r].new
<1>1. TypeOK'
  BY ServeTypes DEF IInv
<1>2. /\ UNCHANGED <<now, made, present, sweep>>
      /\ \A q \in Requests \ {r} : tx'[q] = tx[q]
      /\ tx'[r].pc = "failed" /\ tx'[r].todo = {} /\ tx'[r].done = {}
  BY GotoEffect DEF Abort, IInv, TypeOK, Steps
<1>3. CASE tx[r].pc # "replaced"
  <2>1. row' = row
    BY <1>3 DEF Abort
  <2> QED BY <1>1, <1>2, <2>1, EndKeepsInv
<1>4. CASE tx[r].pc = "replaced"
  <2>1. /\ present \subseteq Tokens /\ NoToken \notin present
        /\ n \notin present /\ n \in Tokens
    BY <1>4, NumberTypes DEF IInv, TxInv, Tokens, NoToken
  <2>2. \A s \in Tokens : s # n => row'[s] = row[s]
    BY <1>4, <2>1 DEF Abort, IInv, TypeOK
  <2>3. Chain'
    BY <1>2, <2>1, <2>2, ChainUntouched DEF IInv
  <2>4. SweepInv'
    BY <1>2, <2>1, <2>2, SweepUntouched DEF IInv
  <2>5. ASSUME NEW q \in Requests \ {r} PROVE TxInv(q)'
    <3>1. \A s \in Locks(q) : s \in present => s \in present' /\ row'[s] = row[s]
      BY <1>2, <2>1, <2>2
    <3>2. tx[q].pc = "replaced" =>
            tx[q].new \notin present' /\ row'[tx[q].new] = row[tx[q].new]
      <4>1. tx[q].pc = "replaced" => tx[q].new \in Tokens /\ tx[q].new \notin present
        BY NumberTypes DEF IInv, TxInv
      <4>2. tx[q].pc = "replaced" => tx[q].new # n
        BY <1>4 DEF IInv, OwnSuccessors
      <4> QED BY <1>2, <2>2, <4>1, <4>2
    <3> QED BY <1>2, <3>1, <3>2, OtherKeepsInv DEF IInv
  <2>6. TxInv(r)'
    BY <1>2 DEF TxInv, Open, Rotating
  <2>7. OwnSuccessors'
    BY <1>2 DEF IInv, OwnSuccessors
  <2>8. LocksExclude'
    <3>1. Locks(r)' = {} /\ \A q \in Requests \ {r} : Locks(q)' = Locks(q)
      BY <1>2 DEF Locks
    <3> QED BY <1>2, <3>1 DEF IInv, LocksExclude
  <2> QED BY <1>1, <2>3, <2>4, <2>5, <2>6, <2>7, <2>8 DEF IInv
<1> QED BY <1>3, <1>4

LEMMA IssueFailsKeepsInv ==
  ASSUME IInv, NEW r \in Requests, IssueFails(r)
  PROVE  IInv'
<1>1. TypeOK'
  BY ServeTypes DEF IInv, Serve
<1>2. /\ \A q \in Requests \ {r} : tx'[q] = tx[q]
      /\ tx'[r].pc = "failed" /\ tx'[r].todo = {} /\ tx'[r].done = {}
  BY GotoEffect DEF IssueFails, IInv, TypeOK, Steps
<1> QED BY <1>1, <1>2, EndKeepsInv DEF IssueFails

LEMMA FinishKeepsInv ==
  ASSUME IInv, NEW r \in Requests, Finish(r)
  PROVE  IInv'
<1>1. TypeOK'
  BY ServeTypes DEF IInv
<1>2. tx' = [tx EXCEPT ![r] = NoRequest] /\ tx \in [Requests -> Transaction]
  BY DEF Finish, IInv, TypeOK
<1>3. /\ \A q \in Requests \ {r} : tx'[q] = tx[q]
      /\ tx'[r].pc = "idle" /\ tx'[r].todo = {} /\ tx'[r].done = {}
  BY <1>2 DEF NoRequest
<1> QED BY <1>1, <1>3, EndKeepsInv DEF Finish

-----------------------------------------------------------------------------
(* The cleanup and the clock.                                              *)

\* Steps of the cleanup that change no row.
LEMMA SweepOnly ==
  ASSUME IInv, TypeOK', UNCHANGED <<now, users, made, present, row, tx>>,
         SweepInv', sweep'.pc # "violated",
         \A r \in Requests : Locks(r) \cap sweep'.done = {}
  PROVE  IInv'
<1>1. Chain'
  BY DEF IInv, Chain, LineageIntact, Last
<1>2. \A r \in Requests : TxInv(r)'
  BY OtherUntouched DEF IInv
<1>3. OwnSuccessors'
  BY DEF IInv, OwnSuccessors
<1>4. LocksExclude'
  <2>1. \A r \in Requests : Locks(r)' = Locks(r)
    BY DEF Locks
  <2> QED BY <2>1 DEF IInv, LocksExclude
<1> QED BY <1>1, <1>2, <1>3, <1>4 DEF IInv

LEMMA StartSweepKeepsInv ==
  ASSUME IInv, StartSweep
  PROVE  IInv'
<1>1. TypeOK'
  BY SweepTypes DEF IInv, Sweep
<1>2. PICK fs : /\ \A f \in fs : f \in Families /\ Dead(f)
                /\ sweep' = [pc |-> "deleting", todo |-> Targets(fs), done |-> {}]
  BY DEF StartSweep
<1>3. UNCHANGED <<now, users, made, present, row, tx>>
  BY DEF StartSweep
<1>4. SweepInv'
  <2>1. Swept' = Targets(fs) /\ sweep'.pc = "deleting"
    BY <1>2 DEF Swept
  <2>2. \A t \in Targets(fs) : row[t].expires + Retention < now
    BY <1>2 DEF Targets, Dead, Family
  <2>3. \A t \in Targets(fs), s \in present : row[s].family = row[t].family => s \in Targets(fs)
    BY DEF Targets
  <2>4. Targets(fs) \subseteq present
    BY DEF Targets
  <2> QED BY <1>3, <2>1, <2>2, <2>3, <2>4 DEF SweepInv
<1> QED BY <1>1, <1>2, <1>3, <1>4, SweepOnly

LEMMA SweepRowKeepsInv ==
  ASSUME IInv, NEW t \in Tokens, SweepRow(t)
  PROVE  IInv'
<1>1. TypeOK'
  BY SweepTypes DEF IInv, Sweep
<1>2. /\ UNCHANGED <<now, users, made, present, row, tx>>
      /\ sweep'.pc = sweep.pc /\ sweep'.todo = sweep.todo \ {t}
      /\ sweep'.done = sweep.done \cup {t} /\ t \in sweep.todo
      /\ \A r \in Requests : t \notin Locks(r)
  BY DEF SweepRow, IInv, TypeOK
<1>3. Swept' = Swept
  BY <1>2 DEF Swept
<1>4. SweepInv'
  BY <1>2, <1>3 DEF IInv, SweepInv
<1>5. \A r \in Requests : Locks(r) \cap sweep'.done = {}
  BY <1>2 DEF IInv, LocksExclude
<1>6. sweep'.pc # "violated"
  BY <1>2 DEF IInv, Chain, LineageIntact
<1> QED BY <1>1, <1>2, <1>4, <1>5, <1>6, SweepOnly

LEMMA AbortSweepKeepsInv ==
  ASSUME IInv, AbortSweep
  PROVE  IInv'
<1>1. TypeOK'
  BY SweepTypes DEF IInv, Sweep
<1>2. /\ UNCHANGED <<now, users, made, present, row, tx>>
      /\ sweep'.pc = "idle" /\ sweep'.todo = {} /\ sweep'.done = {}
  BY DEF AbortSweep
<1>3. SweepInv'
  BY <1>2 DEF SweepInv, Swept
<1> QED BY <1>1, <1>2, <1>3, SweepOnly

\* Whole families: no row that stays names one that goes.
LEMMA NothingReferenced ==
  ASSUME IInv, sweep.todo = {}
  PROVE  ~Referenced
<1>1. \A t \in sweep.done, s \in present : row[s].family = row[t].family => s \in sweep.done
  BY DEF IInv, SweepInv, Swept
<1>2. ASSUME NEW t \in present \ sweep.done, row[t].parent \in sweep.done
      PROVE  FALSE
  <2>1. row[t].parent \in present /\ row[t].parent # NoToken
    BY <1>2, NumberTypes DEF IInv, SweepInv, Swept, Tokens, NoToken
  <2>2. row[row[t].parent].family = row[t].family
    BY <2>1 DEF IInv, Chain, LineageIntact
  <2> QED BY <1>1, <1>2, <2>2
<1>3. ASSUME NEW t \in present \ sweep.done, row[t].replacedBy \in sweep.done
      PROVE  FALSE
  <2>1. row[t].replacedBy \in present /\ row[t].replacedBy # NoToken
    BY <1>3, NumberTypes DEF IInv, SweepInv, Swept, Tokens, NoToken
  <2>2. row[row[t].replacedBy].parent = t /\ t # NoToken
    BY <2>1, NumberTypes DEF IInv, Chain, LineageIntact, Tokens, NoToken
  <2>3. row[t].family = row[row[t].replacedBy].family
    BY <2>1, <2>2 DEF IInv, Chain, LineageIntact
  <2> QED BY <1>1, <1>3, <2>3
<1> QED BY <1>2, <1>3 DEF Referenced

LEMMA FinishSweepKeepsInv ==
  ASSUME IInv, FinishSweep
  PROVE  IInv'
<1>1. TypeOK'
  BY SweepTypes DEF IInv, Sweep
<1>2. ~Referenced
  BY NothingReferenced DEF FinishSweep
<1>3. /\ UNCHANGED <<now, made, tx>>
      /\ sweep'.pc = "idle" /\ sweep'.todo = {} /\ sweep'.done = {}
      /\ present' = present \ sweep.done
  BY <1>2 DEF FinishSweep
<1>4. present \subseteq Tokens /\ NoToken \notin Tokens
  BY NumberTypes DEF IInv, Tokens, NoToken
<1>5. \A s \in Tokens : s \notin sweep.done => row'[s] = row[s]
  BY <1>2 DEF FinishSweep
<1>6. sweep.done \subseteq present
  BY DEF IInv, SweepInv, Swept
<1>7. Chain'
  <2>1. \A s \in present' : /\ s \in present /\ row'[s] = row[s]
                            /\ row[s].parent \in present => row[s].parent \in present'
                            /\ row[s].replacedBy \in present => row[s].replacedBy \in present'
    BY <1>2, <1>3, <1>4, <1>5 DEF Referenced
  <2>2. LineageIntact'
    <3>1. \A s \in present' :
            /\ row'[s].used <=> row'[s].replacedBy # NoToken
            /\ row'[s].replacedBy # NoToken =>
                 row'[s].replacedBy \in present' /\ row'[row'[s].replacedBy].parent = s
            /\ row'[s].parent # NoToken =>
                 /\ row'[s].parent \in present' /\ row'[row'[s].parent].replacedBy = s
                 /\ row'[row'[s].parent].family = row'[s].family
                 /\ row'[row'[s].parent].user = row'[s].user
      BY <2>1 DEF IInv, Chain, LineageIntact
    <3> QED BY <1>3, <3>1 DEF LineageIntact
  <2>3. \A s \in present' : Last(s)' => Last(s)
    BY <2>1 DEF Last
  <2> QED BY <1>3, <2>1, <2>2, <2>3 DEF IInv, Chain
<1>8. ASSUME NEW q \in Requests PROVE TxInv(q)'
  <2>1. \A s \in Locks(q) : s \in present => s \in present' /\ row'[s] = row[s]
    BY <1>3, <1>4, <1>5 DEF IInv, LocksExclude
  <2>2. tx[q].pc = "replaced" =>
          tx[q].new \notin present' /\ row'[tx[q].new] = row[tx[q].new]
    <3>1. tx[q].pc = "replaced" => tx[q].new \in Tokens /\ tx[q].new \notin present
      BY NumberTypes DEF IInv, TxInv
    <3> QED BY <1>3, <1>5, <1>6, <3>1
  <2> QED BY <1>3, <2>1, <2>2, OtherKeepsInv DEF IInv
<1>9. OwnSuccessors'
  BY <1>3 DEF IInv, OwnSuccessors
<1>10. LocksExclude'
  <2>1. \A q \in Requests : Locks(q)' = Locks(q)
    BY <1>3 DEF Locks
  <2> QED BY <1>3, <2>1 DEF IInv, LocksExclude
<1>11. SweepInv'
  BY <1>3 DEF SweepInv, Swept
<1> QED BY <1>1, <1>7, <1>8, <1>9, <1>10, <1>11 DEF IInv

LEMMA TickKeepsInv ==
  ASSUME IInv, Tick
  PROVE  IInv'
<1>1. /\ UNCHANGED <<users, made, present, row, tx, sweep>> /\ now' = now + 1
      /\ \A r \in Requests : Open(r) => now - tx[r].begun < MaxOpen
  BY DEF Tick
<1>2. now \in Nat /\ now' \in Nat /\ TypeOK'
  BY <1>1, BoundsAssumption DEF IInv, TypeOK, Tick
<1>3. Chain'
  BY <1>1 DEF IInv, Chain, LineageIntact, Last
<1>4. ASSUME NEW r \in Requests PROVE TxInv(r)'
  <2>1. Open(r) => tx[r].begun <= now' /\ now' <= tx[r].begun + MaxOpen
    <3>1. tx[r].begun \in Nat
      BY NumberTypes DEF IInv
    <3>2. Open(r) => tx[r].begun <= now /\ now - tx[r].begun < MaxOpen
      BY <1>1 DEF IInv, TxInv
    <3> QED BY <1>1, <1>2, <3>1, <3>2, LifetimesAssumption
  <2> QED BY <1>1, <2>1 DEF IInv, TxInv, Open, Rotating, Live, Spent, IsSuccessor
<1>5. OwnSuccessors' /\ LocksExclude'
  BY <1>1 DEF IInv, OwnSuccessors, LocksExclude, Locks
<1>6. SweepInv'
  <2>1. \A t \in Swept : row[t].expires + Retention < now'
    <3>1. \A t \in Swept : row[t].expires \in Nat
      BY NumberTypes DEF IInv, SweepInv
    <3>2. \A t \in Swept : row[t].expires + Retention < now
      BY DEF IInv, SweepInv
    <3> QED BY <1>1, <1>2, <3>1, <3>2, LifetimesAssumption
  <2> QED BY <1>1, <2>1 DEF IInv, SweepInv, Swept
<1> QED BY <1>2, <1>3, <1>4, <1>5, <1>6 DEF IInv

-----------------------------------------------------------------------------
LEMMA InitInv == Init => IInv
<1> SUFFICES ASSUME Init PROVE IInv
  OBVIOUS
<1>1. TypeOK
  BY InitTypes
<1>2. Chain
  BY DEF Init, Chain, LineageIntact
<1>3. \A r \in Requests : tx[r] = NoRequest
  BY DEF Init
<1>4. \A r \in Requests : TxInv(r) /\ Locks(r) = {} /\ tx[r].pc = "idle"
  BY <1>3 DEF TxInv, Open, Rotating, Locks, NoRequest
<1>5. SweepInv /\ sweep.done = {}
  BY DEF Init, SweepInv, Swept
<1> QED BY <1>1, <1>2, <1>4, <1>5 DEF IInv, OwnSuccessors, LocksExclude

LEMMA NextInv == IInv /\ [Next]_vars => IInv'
<1> SUFFICES ASSUME IInv, [Next]_vars PROVE IInv'
  OBVIOUS
<1>1. CASE Tick
  BY <1>1, TickKeepsInv
<1>2. ASSUME NEW r \in Requests, Arrive(r) \/ Serve(r) \/ Abort(r) \/ Finish(r)
      PROVE  IInv'
  BY <1>2, ArriveKeepsInv, IssueKeepsInv, IssueFailsKeepsInv, LockTokenKeepsInv,
     ReplaceKeepsInv, CommitRotationKeepsInv, StartRevokeKeepsInv, CommitRevokeKeepsInv,
     RevokeRowKeepsInv, AbortKeepsInv, FinishKeepsInv
     DEF Serve
<1>3. CASE Sweep
  BY <1>3, StartSweepKeepsInv, FinishSweepKeepsInv, AbortSweepKeepsInv, SweepRowKeepsInv
     DEF Sweep
<1>4. CASE UNCHANGED vars
  <2>1. UNCHANGED <<now, users, made, present, row, tx, sweep>>
    BY <1>4 DEF vars
  <2>2. TypeOK' /\ SweepInv'
    BY <2>1 DEF IInv, TypeOK, SweepInv, Swept
  <2>3. sweep'.pc # "violated" /\ \A r \in Requests : Locks(r) \cap sweep'.done = {}
    BY <2>1 DEF IInv, Chain, LineageIntact, LocksExclude
  <2> QED BY <2>1, <2>2, <2>3, SweepOnly
<1> QED BY <1>1, <1>2, <1>3, <1>4 DEF Next

(* The row locks that rotations, revocations and the cleanup hold, what    *)
(* each has read under them, and the chain of each family stay consistent  *)
(* with each other in every reachable state.                               *)
THEOREM SessionInvariant == Spec => []IInv
BY InitInv, NextInv, PTL DEF Spec

(* Every variable keeps its type, and no more tokens are committed than    *)
(* were made.                                                              *)
THEOREM SessionTypes == Spec => []TypeOK
<1>1. IInv => TypeOK
  BY DEF IInv
<1> QED BY <1>1, SessionInvariant, PTL

(* A family has at most one token that can still be exchanged, for any     *)
(* number of concurrent rotations, logouts and cleanups: a live token is   *)
(* the end of its family's chain, and a chain has one end.                 *)
THEOREM OneTokenLives == Spec => []OneLiveToken
<1>1. IInv => OneLiveToken
  BY DEF IInv, Chain, Last, OneLiveToken, Live, Spent
<1> QED BY <1>1, SessionInvariant, PTL

(* The rows of a family stay one unbroken chain of one user, and the       *)
(* cleanup's DELETE never meets a foreign key.                             *)
THEOREM LineageStaysIntact == Spec => []LineageIntact
<1>1. IInv => LineageIntact
  BY DEF IInv, Chain
<1> QED BY <1>1, SessionInvariant, PTL

-----------------------------------------------------------------------------
(* What a step does to the committed rows.                                 *)

\* What HistoryKept and SuccessorsOfLive say of one step.
RecordKept ==
  \A t \in present :
    /\ t \in present' => /\ row[t].used => row'[t].used
                         /\ row[t].revoked # "no" => row'[t].revoked = row[t].revoked
    /\ t \notin present' => row[t].expires + Retention < now
ParentsLive ==
  \A t \in present' \ present : row'[t].parent # NoToken => Live(row'[t].parent)

LEMMA RowsOfNext == IInv /\ [Next]_vars => RecordKept /\ ParentsLive
<1> SUFFICES ASSUME IInv, [Next]_vars PROVE RecordKept /\ ParentsLive
  OBVIOUS
<1>1. /\ present \subseteq Tokens /\ \A t \in Tokens : row[t] \in Row
      /\ row \in [Tokens -> Row] /\ tx \in [Requests -> Transaction]
  BY NumberTypes DEF IInv, TypeOK
<1>2. CASE present' = present /\ \A t \in present : row'[t] = row[t]
  BY <1>2 DEF RecordKept, ParentsLive
<1>3. ASSUME NEW r \in Requests, Issue(r) PROVE RecordKept /\ ParentsLive
  <2>1. made + 1 \notin present
    BY <1>3, NewToken DEF Issue
  <2>2. /\ present' = present \cup {made + 1}
        /\ \A t \in Tokens : t # made + 1 => row'[t] = row[t]
    BY <1>1, <1>3 DEF Issue
  <2>3. row'[made + 1].parent = NoToken
    <3>1. made + 1 \in Tokens
      BY <1>3, BoundsAssumption DEF Issue, IInv, TypeOK, Tokens
    <3> QED BY <1>1, <1>3, <3>1 DEF Issue, NewRow
  <2> QED BY <1>1, <2>1, <2>2, <2>3 DEF RecordKept, ParentsLive
<1>4. ASSUME NEW r \in Requests, Replace(r)
      PROVE  present' = present /\ \A t \in present : row'[t] = row[t]
  <2>1. made + 1 \notin present /\ row' = [row EXCEPT ![made + 1] = row'[made + 1]]
    BY <1>1, <1>4, NewToken DEF Replace
  <2> QED BY <1>1, <1>4, <2>1 DEF Replace
<1>5. ASSUME NEW r \in Requests, CommitRotation(r) PROVE RecordKept /\ ParentsLive
  <2> DEFINE p == tx[r].token
             n == tx[r].new
  <2>1. /\ Live(p) /\ n \notin present /\ row[n].parent = p /\ n \in Tokens
    <3>1. tx[r].pc = "replaced" /\ TxInv(r)
      BY <1>5 DEF CommitRotation, IInv
    <3>2. n \in 1..made /\ 1..made \subseteq Tokens
      BY <3>1, NumberTypes DEF IInv, TxInv
    <3> QED BY <3>1, <3>2 DEF TxInv, Rotating, IsSuccessor
  <2>2. /\ present' = present \cup {n} /\ p \in Tokens /\ p # n
        /\ \A t \in Tokens : t # p => row'[t] = row[t]
        /\ row'[p].used /\ row'[p].revoked = row[p].revoked
    <3>1. p \in Tokens /\ row[p] \in Row /\ p # n
      BY <1>1, <2>1 DEF Live
    <3>2. row' = [row EXCEPT ![p] = [row[p] EXCEPT !.used = TRUE, !.replacedBy = n]]
      BY <1>5 DEF CommitRotation
    <3>3. row'[p] = [row[p] EXCEPT !.used = TRUE, !.replacedBy = n]
      BY <1>1, <3>1, <3>2
    <3>4. row'[p].used /\ row'[p].revoked = row[p].revoked
      BY <3>1, <3>3 DEF Row
    <3> QED BY <1>1, <1>5, <3>1, <3>2, <3>4 DEF CommitRotation
  <2>3. RecordKept
    BY <1>1, <2>2 DEF RecordKept
  <2>4. ParentsLive
    BY <2>1, <2>2 DEF ParentsLive
  <2> QED BY <2>3, <2>4
<1>6. ASSUME NEW r \in Requests, CommitRevoke(r) PROVE RecordKept /\ ParentsLive
  <2>1. \A t \in tx[r].done : row[t].revoked = "no"
    BY DEF IInv, TxInv
  <2>2. /\ present' = present
        /\ \A t \in Tokens : t \notin tx[r].done => row'[t] = row[t]
        /\ \A t \in Tokens : row'[t].used = row[t].used
    BY <1>1, <1>6 DEF CommitRevoke, Row
  <2> QED BY <1>1, <2>1, <2>2 DEF RecordKept, ParentsLive
<1>7. ASSUME NEW r \in Requests, Abort(r)
      PROVE  present' = present /\ \A t \in present : row'[t] = row[t]
  <2>1. tx[r].pc = "replaced" => tx[r].new \notin present
    BY DEF IInv, TxInv
  <2> QED BY <1>1, <1>7, <2>1 DEF Abort
<1>8. CASE FinishSweep
  <2>1. /\ present' = present \ sweep.done
        /\ \A t \in Tokens : t \notin sweep.done => row'[t] = row[t]
    BY <1>8, NothingReferenced DEF FinishSweep
  <2>2. \A t \in sweep.done : row[t].expires + Retention < now
    BY DEF IInv, SweepInv, Swept
  <2> QED BY <1>1, <2>1, <2>2 DEF RecordKept, ParentsLive
<1>9. CASE Tick \/ (\E r \in Requests : Arrive(r) \/ Finish(r)) \/ StartSweep \/ AbortSweep
           \/ (\E t \in Tokens : SweepRow(t)) \/ UNCHANGED vars
  <2>1. UNCHANGED <<present, row>>
    <3>1. CASE Tick \/ StartSweep \/ AbortSweep \/ UNCHANGED vars
      BY <3>1 DEF Tick, StartSweep, AbortSweep, vars
    <3>2. ASSUME NEW r \in Requests, Arrive(r) PROVE UNCHANGED <<present, row>>
      BY <3>2 DEF Arrive, SignUp, LogIn, Send
    <3>3. ASSUME NEW r \in Requests, Finish(r) PROVE UNCHANGED <<present, row>>
      BY <3>3 DEF Finish
    <3>4. ASSUME NEW t \in Tokens, SweepRow(t) PROVE UNCHANGED <<present, row>>
      BY <3>4 DEF SweepRow
    <3> QED BY <1>9, <3>1, <3>2, <3>3, <3>4
  <2> QED BY <1>2, <2>1
<1>10. ASSUME NEW r \in Requests, IssueFails(r) \/ LockToken(r) \/ StartRevoke(r)
                                 \/ \E t \in Tokens : RevokeRow(r, t)
       PROVE  RecordKept /\ ParentsLive
  BY <1>2, <1>10 DEF IssueFails, LockToken, StartRevoke, RevokeRow
<1> QED BY <1>2, <1>3, <1>4, <1>5, <1>6, <1>7, <1>8, <1>9, <1>10 DEF Next, Serve, Sweep

(* A used token stays used and a revoked one keeps its first reason, until *)
(* its family is deleted Retention after its last expiry.                  *)
THEOREM HistoryIsKept == Spec => HistoryKept
<1>1. IInv /\ [Next]_vars => [RecordKept]_vars
  BY RowsOfNext
<1>2. [][RecordKept]_vars <=> HistoryKept
  BY DEF RecordKept, HistoryKept
<1> QED BY <1>1, <1>2, SessionInvariant, PTL DEF Spec

(* Every successor is committed by the step that consumes its live parent: *)
(* a revocation that has reached the family is never outrun by a rotation. *)
THEOREM SuccessorsHaveLiveParents == Spec => SuccessorsOfLive
<1>1. IInv /\ [Next]_vars => [ParentsLive]_vars
  BY RowsOfNext
<1>2. [][ParentsLive]_vars <=> SuccessorsOfLive
  BY DEF ParentsLive, SuccessorsOfLive
<1> QED BY <1>1, <1>2, SessionInvariant, PTL DEF Spec
-----------------------------------------------------------------------------
(* The browser: steps of one request on the server.                        *)

\* The committed rows stay as they are.
RowsStill == present' = present /\ \A t \in present : row'[t] = row[t]

\* Nothing of a request but its step, its successor and its rows changes.
SameRequest(r) ==
  /\ \A q \in Requests \ {r} : tx'[q] = tx[q]
  /\ tx'[r].token = tx[r].token /\ tx'[r].kind = tx[r].kind

\* Statements that commit nothing.
LEMMA QuietServe ==
  ASSUME IInv, NEW r \in Requests
  PROVE  /\ IssueFails(r) \/ Abort(r) =>
              /\ RowsStill /\ SameRequest(r)
              /\ tx'[r].pc = "failed" /\ tx'[r].todo = {} /\ tx'[r].done = {}
         /\ LockToken(r) =>
              /\ RowsStill /\ SameRequest(r) /\ tx[r].pc = "sent" /\ tx[r].kind = "refresh"
              /\ tx'[r].pc \in {"failed", "spent", "locked"}
              /\ tx'[r].pc = "spent" => Spent(tx[r].token)
              /\ tx'[r].todo = {} /\ tx'[r].done = {}
         /\ Replace(r) =>
              /\ RowsStill /\ SameRequest(r) /\ tx[r].pc = "locked" /\ tx'[r].pc = "replaced"
              /\ tx'[r].todo = {} /\ tx'[r].done = {}
<1>1. /\ present \subseteq Tokens /\ row \in [Tokens -> Row]
      /\ tx \in [Requests -> Transaction] /\ tx[r] \in Transaction
  BY NumberTypes DEF IInv, TypeOK
<1>2. ASSUME NEW step \in Steps, Goto(r, step)
      PROVE  /\ SameRequest(r) /\ tx'[r].pc = step /\ tx'[r].todo = {} /\ tx'[r].done = {}
  BY <1>1, <1>2, GotoEffect DEF SameRequest
<1>3. ASSUME IssueFails(r) \/ Abort(r)
      PROVE  /\ RowsStill /\ SameRequest(r)
             /\ tx'[r].pc = "failed" /\ tx'[r].todo = {} /\ tx'[r].done = {}
  <2>1. RowsStill
    <3>1. tx[r].pc = "replaced" => tx[r].new \notin present
      BY DEF IInv, TxInv
    <3> QED BY <1>1, <1>3, <3>1 DEF IssueFails, Abort, RowsStill
  <2>2. Goto(r, "failed")
    BY <1>3 DEF IssueFails, Abort
  <2> QED BY <1>2, <2>1, <2>2 DEF Steps
<1>4. ASSUME LockToken(r)
      PROVE  /\ RowsStill /\ SameRequest(r) /\ tx[r].pc = "sent" /\ tx[r].kind = "refresh"
             /\ tx'[r].pc \in {"failed", "spent", "locked"}
             /\ tx'[r].pc = "spent" => Spent(tx[r].token)
             /\ tx'[r].todo = {} /\ tx'[r].done = {}
  <2>1. PICK step \in {"failed", "spent", "locked"} :
          Goto(r, step) /\ (step = "spent" => Spent(tx[r].token))
    BY <1>4 DEF LockToken
  <2> QED BY <1>2, <1>4, <2>1 DEF LockToken, RowsStill, Steps
<1>5. ASSUME Replace(r)
      PROVE  /\ RowsStill /\ SameRequest(r) /\ tx[r].pc = "locked" /\ tx'[r].pc = "replaced"
             /\ tx'[r].todo = {} /\ tx'[r].done = {}
  <2>1. made + 1 \notin present /\ row' = [row EXCEPT ![made + 1] = row'[made + 1]]
    BY <1>1, <1>5, NewToken DEF Replace
  <2>2. tx[r].todo = {} /\ tx[r].done = {}
    BY <1>5 DEF Replace, IInv, TxInv
  <2> QED BY <1>1, <1>5, <2>1, <2>2 DEF Replace, RowsStill, SameRequest, Transaction
<1> QED BY <1>3, <1>4, <1>5

\* A token of a new family.
LEMMA IssueRows ==
  ASSUME IInv, NEW r \in Requests, Issue(r)
  PROVE  LET n == made + 1 IN
         /\ SameRequest(r) /\ tx[r].pc = "identified" /\ tx'[r].pc = "granted"
         /\ tx'[r].new = n /\ tx'[r].todo = {} /\ tx'[r].done = {}
         /\ n \notin present /\ n # NoToken /\ present' = present \cup {n}
         /\ \A t \in present : row'[t] = row[t] /\ row[t].family # n
         /\ ~row'[n].used /\ row'[n].revoked = "no" /\ row'[n].family = n
         /\ row'[n].replacedBy = NoToken
<1>1. /\ present \subseteq Tokens /\ row \in [Tokens -> Row]
      /\ tx \in [Requests -> Transaction] /\ tx[r] \in Transaction /\ made \in Nat
  BY NumberTypes DEF IInv, TypeOK
<1>2. /\ made + 1 \notin present /\ \A t \in present : row[t].family # made + 1
      /\ made + 1 \in Tokens
  BY <1>1, NewToken, BoundsAssumption DEF Issue, Tokens
<1>3. tx[r].todo = {} /\ tx[r].done = {}
  BY DEF Issue, IInv, TxInv
<1>4. row'[made + 1] = NewRow(tx[r].user, made + 1, NoToken)
  BY <1>1, <1>2 DEF Issue
<1> QED BY <1>1, <1>2, <1>3, <1>4 DEF Issue, SameRequest, Transaction, NewRow, NoToken

\* A successor is committed, and consumes its parent.
LEMMA RotationRows ==
  ASSUME IInv, NEW r \in Requests, CommitRotation(r)
  PROVE  LET t == tx[r].token
             n == tx[r].new IN
         /\ SameRequest(r) /\ tx[r].pc = "replaced" /\ tx'[r].pc \in {"granted", "failed"}
         /\ tx'[r].new = n /\ tx'[r].todo = {} /\ tx'[r].done = {}
         /\ t \in present /\ Live(t)
         /\ n \notin present /\ n # NoToken /\ n # t /\ present' = present \cup {n}
         /\ \A s \in present \ {t} : row'[s] = row[s]
         /\ row'[t].used /\ row'[t].replacedBy = n
         /\ row'[t].revoked = row[t].revoked /\ row'[t].family = row[t].family
         /\ ~row'[n].used /\ row'[n].revoked = "no" /\ row'[n].family = row[t].family
         /\ row'[n].replacedBy = NoToken
<1> DEFINE t == tx[r].token
           n == tx[r].new
<1>1. /\ present \subseteq Tokens /\ row \in [Tokens -> Row]
      /\ tx \in [Requests -> Transaction] /\ tx[r] \in Transaction
      /\ 1..made \subseteq Tokens /\ NoToken \notin Tokens
  BY NumberTypes DEF IInv, TypeOK, Tokens, NoToken
<1>2. tx[r].pc = "replaced" /\ TxInv(r)
  BY DEF CommitRotation, IInv
<1>3. /\ Live(t) /\ t \in present /\ t \in Tokens
      /\ n \notin present /\ n \in Tokens /\ n # t /\ n # NoToken
  BY <1>1, <1>2 DEF TxInv, Rotating, Live
<1>4. /\ ~row[n].used /\ row[n].revoked = "no" /\ row[n].family = row[t].family
      /\ row[n].replacedBy = NoToken
  BY <1>2 DEF TxInv, IsSuccessor
<1>5. row' = [row EXCEPT ![t] = [row[t] EXCEPT !.used = TRUE, !.replacedBy = n]]
  BY DEF CommitRotation
<1>6. row'[t] = [row[t] EXCEPT !.used = TRUE, !.replacedBy = n] /\ row[t] \in Row
  BY <1>1, <1>3, <1>5
<1>7. /\ row'[t].used /\ row'[t].replacedBy = n
      /\ row'[t].revoked = row[t].revoked /\ row'[t].family = row[t].family
  BY <1>6 DEF Row
<1>8. row'[n] = row[n] /\ \A s \in present \ {t} : row'[s] = row[s]
  BY <1>1, <1>3, <1>5
<1>9. PICK outcome \in {"granted", "failed"} : Goto(r, outcome)
  BY DEF CommitRotation
<1>10. /\ SameRequest(r) /\ tx'[r].pc \in {"granted", "failed"} /\ tx'[r].new = n
       /\ tx'[r].todo = {} /\ tx'[r].done = {}
  BY <1>1, <1>9, GotoEffect DEF SameRequest, Steps
<1>11. present' = present \cup {n}
  BY DEF CommitRotation
<1> QED BY <1>2, <1>3, <1>4, <1>7, <1>8, <1>10, <1>11

\* The three steps of a revocation.
LEMMA RevokeRows ==
  ASSUME IInv, NEW r \in Requests
  PROVE  /\ StartRevoke(r) =>
              /\ RowsStill /\ SameRequest(r) /\ tx'[r].pc = "revoking" /\ tx'[r].done = {}
              /\ tx[r].pc = "spent" \/ (tx[r].pc = "sent" /\ tx[r].kind = "logout")
              /\ tx[r].token \notin present => tx'[r].todo = {}
              /\ tx[r].token \in present =>
                   tx'[r].todo = {s \in present : row[s].family = row[tx[r].token].family
                                                  /\ row[s].revoked = "no"}
         /\ \A t \in Tokens : RevokeRow(r, t) =>
              /\ RowsStill /\ SameRequest(r) /\ t \in tx[r].todo
              /\ tx[r].pc = "revoking" /\ tx'[r].pc = "revoking"
              /\ tx'[r].todo = tx[r].todo \ {t}
              /\ tx'[r].done = IF t \in present /\ row[t].revoked = "no"
                               THEN tx[r].done \cup {t} ELSE tx[r].done
         /\ CommitRevoke(r) =>
              /\ present' = present /\ SameRequest(r)
              /\ tx[r].pc = "revoking" /\ tx[r].todo = {}
              /\ tx'[r].pc = IF tx[r].kind = "logout" THEN "closed" ELSE "failed"
              /\ tx'[r].todo = {} /\ tx'[r].done = {}
              /\ \A t \in present : /\ t \notin tx[r].done => row'[t] = row[t]
                                    /\ row'[t].used = row[t].used
                                    /\ row'[t].family = row[t].family
                                    /\ row'[t].replacedBy = row[t].replacedBy
                                    /\ t \in tx[r].done => row'[t].revoked = Reason(r)
<1>1. /\ present \subseteq Tokens /\ row \in [Tokens -> Row]
      /\ tx \in [Requests -> Transaction] /\ tx[r] \in Transaction
      /\ \A t \in Tokens : row[t] \in Row
  BY NumberTypes DEF IInv, TypeOK
<1>2. ASSUME StartRevoke(r)
      PROVE  /\ RowsStill /\ SameRequest(r) /\ tx'[r].pc = "revoking" /\ tx'[r].done = {}
             /\ tx[r].pc = "spent" \/ (tx[r].pc = "sent" /\ tx[r].kind = "logout")
             /\ tx[r].token \notin present => tx'[r].todo = {}
             /\ tx[r].token \in present =>
                  tx'[r].todo = {s \in present : row[s].family = row[tx[r].token].family
                                                 /\ row[s].revoked = "no"}
  <2>1. tx[r].done = {}
    BY <1>2 DEF StartRevoke, IInv, TxInv
  <2>2. /\ RowsStill /\ SameRequest(r) /\ tx'[r].pc = "revoking" /\ tx'[r].done = tx[r].done
        /\ tx[r].pc = "spent" \/ (tx[r].pc = "sent" /\ tx[r].kind = "logout")
    BY <1>1, <1>2 DEF StartRevoke, RowsStill, SameRequest, Transaction
  <2>3. tx'[r].todo = IF tx[r].token \in present
                      THEN {s \in Family(row[tx[r].token].family) : row[s].revoked = "no"}
                      ELSE {}
    BY <1>1, <1>2 DEF StartRevoke, Transaction
  <2> QED BY <2>1, <2>2, <2>3 DEF Family
<1>3. ASSUME NEW t \in Tokens, RevokeRow(r, t)
      PROVE  /\ RowsStill /\ SameRequest(r) /\ t \in tx[r].todo
             /\ tx[r].pc = "revoking" /\ tx'[r].pc = "revoking"
             /\ tx'[r].todo = tx[r].todo \ {t}
             /\ tx'[r].done = IF t \in present /\ row[t].revoked = "no"
                              THEN tx[r].done \cup {t} ELSE tx[r].done
  BY <1>1, <1>3 DEF RevokeRow, RowsStill, SameRequest, Transaction
<1>4. ASSUME CommitRevoke(r)
      PROVE  /\ present' = present /\ SameRequest(r)
             /\ tx[r].pc = "revoking" /\ tx[r].todo = {}
             /\ tx'[r].pc = IF tx[r].kind = "logout" THEN "closed" ELSE "failed"
             /\ tx'[r].todo = {} /\ tx'[r].done = {}
             /\ \A t \in present : /\ t \notin tx[r].done => row'[t] = row[t]
                                   /\ row'[t].used = row[t].used
                                   /\ row'[t].family = row[t].family
                                   /\ row'[t].replacedBy = row[t].replacedBy
                                   /\ t \in tx[r].done => row'[t].revoked = Reason(r)
  <2>1. \A t \in Tokens : row'[t] = IF t \in tx[r].done
                                    THEN [row[t] EXCEPT !.revoked = Reason(r)] ELSE row[t]
    BY <1>4 DEF CommitRevoke
  <2>2. \A t \in present : /\ t \notin tx[r].done => row'[t] = row[t]
                           /\ row'[t].used = row[t].used
                           /\ row'[t].family = row[t].family
                           /\ row'[t].replacedBy = row[t].replacedBy
                           /\ t \in tx[r].done => row'[t].revoked = Reason(r)
    <3>1. SUFFICES ASSUME NEW t \in present
                   PROVE  /\ t \notin tx[r].done => row'[t] = row[t]
                          /\ row'[t].used = row[t].used
                          /\ row'[t].family = row[t].family
                          /\ row'[t].replacedBy = row[t].replacedBy
                          /\ t \in tx[r].done => row'[t].revoked = Reason(r)
      OBVIOUS
    <3>2. t \in Tokens /\ row[t] \in Row
      BY <1>1
    <3>3. CASE t \in tx[r].done
      <4>1. row'[t] = [row[t] EXCEPT !.revoked = Reason(r)]
        BY <2>1, <3>2, <3>3
      <4> QED BY <3>2, <3>3, <4>1 DEF Row
    <3>4. CASE t \notin tx[r].done
      BY <2>1, <3>2, <3>4
    <3> QED BY <3>3, <3>4
  <2>3. PICK step \in Steps : step = IF tx[r].kind = "logout" THEN "closed" ELSE "failed"
    BY DEF Steps
  <2>4. Goto(r, step)
    BY <1>4, <2>3 DEF CommitRevoke
  <2>5. /\ SameRequest(r) /\ tx'[r].pc = step /\ tx'[r].todo = {} /\ tx'[r].done = {}
    BY <1>1, <2>4, GotoEffect DEF SameRequest
  <2> QED BY <1>4, <2>2, <2>3, <2>5 DEF CommitRevoke
<1> QED BY <1>2, <1>3, <1>4
-----------------------------------------------------------------------------
(* A revocation that has the end of a chain has the whole chain.           *)

\* The rows a revocation has yet to reach, or holds.
Reached(r) == tx[r].todo \cup tx[r].done

\* A revoked end means that nothing of the family is left to revoke: the UPDATE
\* saw every row when it started, since the chain grows at its end only.
RevokedTogether ==
  /\ \A s, t \in present : Last(t) /\ row[s].family = row[t].family /\ row[t].revoked # "no"
                           => row[s].revoked # "no"
  /\ \A r \in Requests, t, s \in present :
        t \in Reached(r) /\ Last(t) /\ row[s].family = row[t].family
        => s \in Reached(r) \/ row[s].revoked # "no"
  /\ \A r \in Requests : Reached(r) \subseteq present

\* A request that has no rows does not matter.
LEMMA NothingReached ==
  ASSUME RevokedTogether, RowsStill, NEW r \in Requests, SameRequest(r),
         tx'[r].todo = {}, tx'[r].done = {}
  PROVE  RevokedTogether'
<1>1. \A q \in Requests : Reached(q)' = IF q = r THEN {} ELSE Reached(q)
  BY DEF Reached, SameRequest
<1>2. \A t \in present : Last(t)' <=> Last(t)
  BY DEF Last, RowsStill
<1> QED BY <1>1, <1>2 DEF RevokedTogether, RowsStill

\* It holds over every step on the server.
LEMMA ServeRevokesTogether ==
  ASSUME IInv, RevokedTogether, NEW r \in Requests, Serve(r) \/ Abort(r)
  PROVE  RevokedTogether'
<1>1. CASE IssueFails(r) \/ Abort(r) \/ LockToken(r) \/ Replace(r)
  BY <1>1, QuietServe, NothingReached
<1>2. CASE Issue(r)
  <2> DEFINE n == made + 1
  <2>1. /\ SameRequest(r) /\ tx'[r].todo = {} /\ tx'[r].done = {}
        /\ n \notin present /\ present' = present \cup {n}
        /\ \A t \in present : row'[t] = row[t] /\ row[t].family # n
        /\ row'[n].revoked = "no" /\ row'[n].family = n
    BY <1>2, IssueRows
  <2>2. \A q \in Requests : Reached(q)' = IF q = r THEN {} ELSE Reached(q)
    BY <2>1 DEF Reached, SameRequest
  <2>3. \A t \in present : Last(t)' <=> Last(t)
    BY <2>1 DEF Last
  <2> HIDE DEF n
  <2> QED BY <2>1, <2>2, <2>3 DEF RevokedTogether
<1>3. CASE CommitRotation(r)
  <2>1. PICK p, n : p = tx[r].token /\ n = tx[r].new
    OBVIOUS
  <2>2. /\ SameRequest(r) /\ tx'[r].todo = {} /\ tx'[r].done = {}
        /\ p \in present /\ n \notin present /\ n # NoToken
        /\ present' = present \cup {n}
        /\ \A s \in present \ {p} : row'[s] = row[s]
        /\ row'[p].replacedBy = n
        /\ row'[p].revoked = row[p].revoked /\ row'[p].family = row[p].family
        /\ row'[n].revoked = "no" /\ row'[n].family = row[p].family
    BY <1>3, <2>1, RotationRows
  <2>3. \A q \in Requests : Reached(q)' = IF q = r THEN {} ELSE Reached(q)
    BY <2>2 DEF Reached, SameRequest
  <2>4. \A t \in present : Last(t)' => Last(t) /\ t # p
    BY <2>2 DEF Last
  <2>5. Last(p)
    BY <1>3, <2>1, RotationRows DEF Live, Spent, Last
  <2>6. \A t \in present : Last(t)' => row[t].family # row[p].family
    BY <2>4, <2>5, <2>2 DEF IInv, Chain
  <2>7. \A t \in present : row'[t].family = row[t].family /\ row'[t].revoked = row[t].revoked
    BY <2>2
  <2>8. \A s, t \in present' : Last(t)' /\ row'[s].family = row'[t].family
                               /\ row'[t].revoked # "no" => row'[s].revoked # "no"
    BY <2>2, <2>4, <2>6, <2>7 DEF RevokedTogether
  <2>9. \A q \in Requests : Reached(q)' \subseteq present
    BY <2>3 DEF RevokedTogether
  <2>10. \A q \in Requests, t, s \in present' :
           t \in Reached(q)' /\ Last(t)' /\ row'[s].family = row'[t].family
           => s \in Reached(q)' \/ row'[s].revoked # "no"
    BY <2>2, <2>3, <2>4, <2>6, <2>7, <2>9 DEF RevokedTogether
  <2> QED BY <2>2, <2>8, <2>9, <2>10 DEF RevokedTogether
<1>4. CASE StartRevoke(r)
  <2>1. /\ RowsStill /\ SameRequest(r) /\ tx'[r].done = {}
        /\ \/ tx'[r].todo = {}
           \/ \E f : tx'[r].todo = {s \in present : row[s].family = f /\ row[s].revoked = "no"}
    BY <1>4, RevokeRows
  <2>2. CASE tx'[r].todo = {}
    BY <2>1, <2>2, NothingReached
  <2>3. ASSUME NEW f,
               tx'[r].todo = {s \in present : row[s].family = f /\ row[s].revoked = "no"}
        PROVE  RevokedTogether'
    <3>1. /\ \A q \in Requests \ {r} : Reached(q)' = Reached(q)
          /\ Reached(r)' = {s \in present : row[s].family = f /\ row[s].revoked = "no"}
      BY <2>1, <2>3 DEF Reached, SameRequest
    <3>2. \A t \in present : Last(t)' <=> Last(t)
      BY <2>1 DEF Last, RowsStill
    <3> QED BY <2>1, <3>1, <3>2 DEF RevokedTogether, RowsStill
  <2> QED BY <2>1, <2>2, <2>3
<1>5. ASSUME NEW t \in Tokens, RevokeRow(r, t) PROVE RevokedTogether'
  <2>1. /\ RowsStill /\ SameRequest(r) /\ t \in tx[r].todo
        /\ tx'[r].todo = tx[r].todo \ {t}
        /\ tx'[r].done = IF t \in present /\ row[t].revoked = "no"
                         THEN tx[r].done \cup {t} ELSE tx[r].done
    BY <1>5, RevokeRows
  <2>2. \A q \in Requests \ {r} : Reached(q)' = Reached(q)
    BY <2>1 DEF Reached, SameRequest
  <2>3. /\ Reached(r)' \subseteq Reached(r)
        /\ \A s \in Reached(r) : s \in Reached(r)' \/ row[s].revoked # "no" \/ s \notin present
    BY <2>1 DEF Reached
  <2>4. \A s \in present : Last(s)' <=> Last(s)
    BY <2>1 DEF Last, RowsStill
  <2> QED BY <2>1, <2>2, <2>3, <2>4 DEF RevokedTogether, RowsStill
<1>6. CASE CommitRevoke(r)
  <2>1. /\ present' = present /\ SameRequest(r) /\ tx[r].todo = {}
        /\ tx'[r].todo = {} /\ tx'[r].done = {}
        /\ \A s \in present : /\ s \notin tx[r].done => row'[s] = row[s]
                              /\ row'[s].family = row[s].family
                              /\ row'[s].replacedBy = row[s].replacedBy
                              /\ s \in tx[r].done => row'[s].revoked = Reason(r)
    BY <1>6, RevokeRows
  <2>2. \A q \in Requests : Reached(q)' = IF q = r THEN {} ELSE Reached(q)
    BY <2>1 DEF Reached, SameRequest
  <2>3. \A s \in present : /\ Last(s)' <=> Last(s)
                           /\ row'[s].revoked # "no" <=> row[s].revoked # "no" \/ s \in Reached(r)
    BY <2>1 DEF Last, Reason, Reached
  <2>4. \A s, t \in present : Last(t)' /\ row'[s].family = row'[t].family
                              /\ row'[t].revoked # "no" => row'[s].revoked # "no"
    BY <2>1, <2>3 DEF RevokedTogether
  <2> QED BY <2>1, <2>2, <2>3, <2>4 DEF RevokedTogether
<1> QED BY <1>1, <1>2, <1>3, <1>4, <1>5, <1>6 DEF Serve

-----------------------------------------------------------------------------
(* The browser.                                                            *)

\* No reply was lost, and no token was presented by two refreshes at a time.
Undisturbed == ~lost /\ ~crossed

\* Who does what: tabs refresh, forms log in and out.
Roles ==
  /\ \A tab \in Tabs : /\ tx[tab].pc \notin {"identified", "closed"}
                       /\ Open(tab) => tx[tab].kind = "refresh" /\ tx[tab].token \in present
                       /\ tx[tab].token \in present \cup {NoToken}
  /\ \A f \in Forms : /\ tx[f].pc \notin {"locked", "replaced", "spent"}
                      /\ tx[f].pc \in {"sent", "revoking"} => tx[f].kind = "logout"
  /\ jar \in present \cup {NoToken}

\* A token that has been granted and not yet delivered is nowhere else.
Undelivered ==
  \A r \in Requests : tx[r].pc = "granted" =>
    /\ tx[r].new \in present /\ ~row[tx[r].new].used /\ jar # tx[r].new
    /\ \A q \in Requests \ {r} : tx[q].pc = "granted" => tx[q].new # tx[r].new
    /\ \A tab \in Tabs : tx[tab].token # tx[r].new

\* A token is presented before it is used, and found spent after a logout only.
HonestTab(tab) ==
  /\ Open(tab) => ~row[tx[tab].token].used
  /\ tx[tab].pc = "spent" => row[tx[tab].token].revoked # "no"
  /\ Reached(tab) = {}

\* Tabs refresh with different tokens.
SoleTokens ==
  \A p, q \in Tabs : p # q /\ tx[p].token = tx[q].token => tx[p].token = NoToken

\* The cookie is used only while the refresh that used it is answered.
UsedIsAnswered ==
  jar # NoToken /\ row[jar].used =>
    \E tab \in Tabs : tx[tab].pc \in {"granted", "failed"} /\ tx[tab].token = jar

\* While nothing was disturbed, no token was revoked for reuse.
Honest ==
  /\ \A t \in present : row[t].revoked # "reuse_detected"
  /\ \A tab \in Tabs : HonestTab(tab)
  /\ SoleTokens /\ UsedIsAnswered

BrowserInv ==
  IInv /\ RevokedTogether /\ Roles /\ Undelivered /\ (Undisturbed => Honest)

\* A form's request commits rows of its own, or revokes for logout.
LEMMA FormServed ==
  ASSUME BrowserInv, UNCHANGED client, NEW f \in Forms, Serve(f) \/ Abort(f)
  PROVE  Roles' /\ Undelivered' /\ (Undisturbed => Honest')
<1>1. /\ f \in Requests /\ f \notin Tabs /\ Tabs \subseteq Requests /\ Forms \subseteq Requests
      /\ jar' = jar /\ Undisturbed' = Undisturbed
  BY RequestsAssumption DEF client, history, Undisturbed
<1>2. IInv /\ Roles /\ Undelivered
  BY DEF BrowserInv
<1>3. tx[f].pc \notin {"locked", "replaced", "spent"}
      /\ (tx[f].pc \in {"sent", "revoking"} => tx[f].kind = "logout")
  BY <1>2 DEF Roles
<1>4. NoToken \notin present
  BY <1>2, NumberTypes DEF IInv, Tokens, NoToken
<1>5. ASSUME RowsStill, SameRequest(f), tx'[f].pc \in {"failed", "revoking"},
             tx'[f].pc = "revoking" => tx[f].pc \in {"sent", "revoking"}
      PROVE  Roles' /\ Undelivered' /\ (Undisturbed => Honest')
  <2>1. Roles'
    BY <1>1, <1>2, <1>3, <1>5 DEF Roles, RowsStill, SameRequest, Open
  <2>2. Undelivered'
    BY <1>1, <1>2, <1>5 DEF Undelivered, RowsStill, SameRequest
  <2>3. ASSUME Undisturbed PROVE Honest'
    <3>1. Honest
      BY <2>3 DEF BrowserInv
    <3> QED BY <1>1, <1>2, <1>4, <1>5, <3>1 DEF Honest, HonestTab, SoleTokens, UsedIsAnswered, Roles, Open,
        Reached, RowsStill, SameRequest
  <2> QED BY <2>1, <2>2, <2>3
<1>6. CASE IssueFails(f) \/ Abort(f)
  BY <1>1, <1>2, <1>5, <1>6, QuietServe
<1>7. CASE LockToken(f) \/ Replace(f)
  BY <1>1, <1>2, <1>3, <1>7, QuietServe
<1>8. CASE CommitRotation(f)
  BY <1>3, <1>8 DEF CommitRotation
<1>9. CASE StartRevoke(f) \/ \E t \in Tokens : RevokeRow(f, t)
  BY <1>1, <1>2, <1>3, <1>5, <1>9, RevokeRows
<1>10. CASE Issue(f)
  <2> DEFINE n == made + 1
  <2>1. /\ SameRequest(f) /\ tx'[f].pc = "granted" /\ tx'[f].new = n
        /\ n \notin present /\ n # NoToken /\ present' = present \cup {n}
        /\ \A t \in present : row'[t] = row[t]
        /\ ~row'[n].used /\ row'[n].revoked = "no"
    BY <1>1, <1>2, <1>10, IssueRows
  <2> HIDE DEF n
  <2>2. Roles'
    BY <1>1, <1>2, <2>1 DEF Roles, SameRequest, Open
  <2>3. Undelivered'
    BY <1>1, <1>2, <2>1 DEF Undelivered, Roles, SameRequest
  <2>4. ASSUME Undisturbed PROVE Honest'
    <3>1. Honest
      BY <2>4 DEF BrowserInv
    <3> QED BY <1>1, <1>2, <1>4, <2>1, <3>1 DEF Honest, HonestTab, SoleTokens, UsedIsAnswered, Roles, Open,
        Reached, SameRequest
  <2> QED BY <2>2, <2>3, <2>4
<1>11. CASE CommitRevoke(f)
  <2>1. /\ present' = present /\ SameRequest(f)
        /\ tx'[f].pc = "closed"
        /\ \A t \in present : /\ row'[t].used = row[t].used
                              /\ row'[t].revoked \in {row[t].revoked, "logout"}
    <3>1. tx[f].kind = "logout" /\ Reason(f) = "logout"
      BY <1>3, <1>11 DEF CommitRevoke, Reason
    <3> QED BY <1>1, <1>2, <1>11, <3>1, RevokeRows
  <2>2. Roles'
    BY <1>1, <1>2, <2>1 DEF Roles, SameRequest, Open
  <2>3. Undelivered'
    BY <1>1, <1>2, <2>1 DEF Undelivered, SameRequest
  <2>4. ASSUME Undisturbed PROVE Honest'
    <3>1. Honest
      BY <2>4 DEF BrowserInv
    <3> QED BY <1>1, <1>2, <1>4, <2>1, <3>1 DEF Honest, HonestTab, SoleTokens, UsedIsAnswered, Roles, Open,
        Reached, SameRequest
  <2> QED BY <2>2, <2>3, <2>4
<1> QED BY <1>6, <1>7, <1>8, <1>9, <1>10, <1>11 DEF Serve

\* The tab's refresh: its token is its own until it is used, so that finding it
\* spent means that a logout has revoked it, and with it the rest of the family.
LEMMA TabServed ==
  ASSUME BrowserInv, UNCHANGED client, NEW tab \in Tabs, Serve(tab) \/ Abort(tab)
  PROVE  Roles' /\ Undelivered' /\ (Undisturbed => Honest')
<1>1. /\ tab \in Requests /\ tab \notin Forms /\ Tabs \subseteq Requests /\ Forms \subseteq Requests
      /\ jar' = jar /\ Undisturbed' = Undisturbed
  BY RequestsAssumption DEF client, history, Undisturbed
<1>2. IInv /\ Roles /\ Undelivered /\ RevokedTogether
  BY DEF BrowserInv
<1>3. /\ tx[tab].pc \notin {"identified", "closed"}
      /\ Open(tab) => tx[tab].kind = "refresh" /\ tx[tab].token \in present
      /\ tx[tab].token \in present \cup {NoToken}
  BY <1>1, <1>2 DEF Roles
<1>4. NoToken \notin present
  BY <1>2, NumberTypes DEF IInv, Tokens, NoToken
<1>5. ASSUME RowsStill, SameRequest(tab),
             tx'[tab].pc \in {"failed", "spent", "locked", "replaced", "revoking"},
             Open(tab) \/ tx'[tab].pc = "failed",
             Undisturbed => /\ tx'[tab].pc = "spent" => row[tx[tab].token].revoked # "no"
                            /\ Reached(tab)' = {}
      PROVE  Roles' /\ Undelivered' /\ (Undisturbed => Honest')
  <2>1. Roles'
    BY <1>1, <1>2, <1>3, <1>5 DEF Roles, RowsStill, SameRequest, Open
  <2>2. Undelivered'
    BY <1>1, <1>2, <1>5 DEF Undelivered, RowsStill, SameRequest
  <2>3. ASSUME Undisturbed PROVE Honest'
    <3>1. Honest
      BY <2>3 DEF BrowserInv
    <3>2. Open(tab) => tx[tab].token \in present
      BY <1>3
    <3>3. \A t \in present' : row'[t].revoked # "reuse_detected"
      BY <1>5, <3>1 DEF Honest, RowsStill
    <3>4. HonestTab(tab)'
      BY <1>1, <1>3, <1>5, <2>3, <3>1 DEF Honest, HonestTab, RowsStill, SameRequest, Open
    <3>5. ASSUME NEW q \in Tabs \ {tab} PROVE HonestTab(q)'
      BY <1>1, <1>2, <1>5, <3>1, <3>5
         DEF Honest, HonestTab, Roles, Reached, RowsStill, SameRequest, Open
    <3>6. SoleTokens'
      BY <1>1, <1>5, <3>1 DEF Honest, SoleTokens, SameRequest
    <3>7. UsedIsAnswered'
      <4>1. jar # NoToken => jar \in present
        BY <1>2 DEF Roles
      <4>2. \A q \in Tabs : tx[q].pc \in {"granted", "failed"} =>
              tx'[q].pc \in {"granted", "failed"} /\ tx'[q].token = tx[q].token
        BY <1>1, <1>5 DEF SameRequest, Open
      <4> QED BY <1>1, <1>5, <3>1, <4>1, <4>2 DEF Honest, UsedIsAnswered, RowsStill
    <3> QED BY <1>1, <1>5, <3>3, <3>4, <3>5, <3>6, <3>7 DEF Honest, RowsStill
  <2> QED BY <2>1, <2>2, <2>3
<1>6. CASE IssueFails(tab) \/ Abort(tab)
  BY <1>1, <1>2, <1>5, <1>6, QuietServe DEF Reached
<1>7. CASE LockToken(tab)
  <2>1. /\ RowsStill /\ SameRequest(tab) /\ tx[tab].pc = "sent"
        /\ tx'[tab].pc \in {"failed", "spent", "locked"}
        /\ tx'[tab].pc = "spent" => Spent(tx[tab].token)
        /\ Reached(tab)' = {}
    BY <1>1, <1>2, <1>7, QuietServe DEF Reached
  <2>2. ASSUME Undisturbed, tx'[tab].pc = "spent" PROVE row[tx[tab].token].revoked # "no"
    <3>1. tx[tab].token \in present /\ ~row[tx[tab].token].used
      BY <1>1, <1>3, <2>1, <2>2 DEF BrowserInv, Honest, HonestTab, Open
    <3>2. row[tx[tab].token].replacedBy = NoToken
      BY <1>2, <3>1 DEF IInv, Chain, LineageIntact
    <3> QED BY <2>1, <2>2, <3>1, <3>2 DEF Spent
  <2> QED BY <1>5, <2>1, <2>2 DEF Open
<1>8. CASE Replace(tab)
  BY <1>1, <1>2, <1>5, <1>8, QuietServe DEF Reached, Open
<1>9. CASE CommitRotation(tab)
  <2>1. PICK p, n : p = tx[tab].token /\ n = tx[tab].new
    OBVIOUS
  <2>2. /\ SameRequest(tab) /\ tx[tab].pc = "replaced" /\ tx'[tab].pc \in {"granted", "failed"}
        /\ tx'[tab].new = n /\ tx'[tab].todo = {} /\ tx'[tab].done = {}
        /\ p \in present /\ n \notin present /\ n # NoToken /\ n # p
        /\ present' = present \cup {n}
        /\ \A s \in present \ {p} : row'[s] = row[s]
        /\ row'[p].revoked = row[p].revoked
        /\ ~row'[n].used /\ row'[n].revoked = "no"
    BY <1>1, <1>2, <1>9, <2>1, RotationRows
  <2>3. Roles'
    BY <1>1, <1>2, <1>3, <2>1, <2>2 DEF Roles, SameRequest, Open
  <2>4. Undelivered'
    <3>1. ASSUME NEW r \in Requests \ {tab}, tx'[r].pc = "granted"
          PROVE  /\ tx'[r].new \in present /\ ~row'[tx'[r].new].used /\ jar # tx'[r].new
                 /\ \A q \in Requests \ {r, tab} : tx'[q].pc = "granted" => tx'[q].new # tx'[r].new
                 /\ \A q \in Tabs : tx'[q].token # tx'[r].new
                 /\ tx'[r].new # n
      <4>1. /\ tx'[r] = tx[r] /\ tx[r].new \in present /\ ~row[tx[r].new].used
            /\ jar # tx[r].new /\ \A q \in Tabs : tx[q].token # tx[r].new
            /\ \A q \in Tabs : tx'[q].token = tx[q].token
        BY <1>1, <1>2, <2>2, <3>1 DEF Undelivered, SameRequest
      <4>2. row'[tx[r].new] = row[tx[r].new]
        BY <2>1, <2>2, <4>1
      <4> QED BY <1>2, <2>2, <3>1, <4>1, <4>2 DEF Undelivered, SameRequest
    <3>2. jar # n /\ \A q \in Tabs : tx'[q].token # n
      BY <1>1, <1>2, <2>1, <2>2 DEF Roles, SameRequest
    <3> QED BY <1>1, <2>2, <3>1, <3>2 DEF Undelivered
  <2>5. ASSUME Undisturbed PROVE Honest'
    <3>1. Honest
      BY <2>5 DEF BrowserInv
    <3>2. \A t \in present' : row'[t].revoked # "reuse_detected"
      BY <2>2, <3>1 DEF Honest
    <3>3. HonestTab(tab)'
      BY <2>2 DEF HonestTab, Open, Reached
    <3>4. ASSUME NEW q \in Tabs \ {tab} PROVE HonestTab(q)'
      <4>1. tx'[q] = tx[q] /\ HonestTab(q) /\ tx[q].token # p
        BY <1>1, <1>4, <2>1, <2>2, <3>1 DEF Honest, SoleTokens, SameRequest
      <4>2. Open(q) => row'[tx[q].token] = row[tx[q].token]
        BY <1>2, <2>2, <3>4, <4>1 DEF Roles
      <4> QED BY <4>1, <4>2 DEF HonestTab, Open, Reached
    <3>5. SoleTokens'
      BY <1>1, <2>2, <3>1 DEF Honest, SoleTokens, SameRequest
    <3>6. UsedIsAnswered'
      <4>1. CASE jar = p
        BY <1>1, <2>1, <2>2, <4>1 DEF UsedIsAnswered, SameRequest
      <4>2. CASE jar # p /\ jar # NoToken
        <5>1. jar \in present /\ row'[jar] = row[jar]
          BY <1>2, <2>2, <4>2 DEF Roles
        <5>2. \A q \in Tabs : tx[q].pc \in {"granted", "failed"} => tx'[q] = tx[q]
          BY <1>1, <2>2 DEF SameRequest
        <5> QED BY <1>1, <3>1, <5>1, <5>2 DEF Honest, UsedIsAnswered
      <4> QED BY <1>1, <4>1, <4>2 DEF UsedIsAnswered
    <3> QED BY <3>2, <3>3, <3>4, <3>5, <3>6 DEF Honest
  <2> QED BY <2>3, <2>4, <2>5
<1>10. CASE StartRevoke(tab)
  <2>1. /\ RowsStill /\ SameRequest(tab) /\ tx'[tab].pc = "revoking" /\ tx'[tab].done = {}
        /\ tx[tab].pc = "spent" \/ (tx[tab].pc = "sent" /\ tx[tab].kind = "logout")
        /\ tx[tab].token \in present =>
             tx'[tab].todo = {s \in present : row[s].family = row[tx[tab].token].family
                                              /\ row[s].revoked = "no"}
    BY <1>1, <1>2, <1>10, RevokeRows
  <2>2. Open(tab) /\ tx[tab].pc = "spent" /\ tx[tab].token \in present
    BY <1>3, <2>1 DEF Open
  <2>3. ASSUME Undisturbed PROVE Reached(tab)' = {}
    <3>1. ~row[tx[tab].token].used /\ row[tx[tab].token].revoked # "no"
      BY <1>1, <2>2, <2>3 DEF BrowserInv, Honest, HonestTab
    <3>2. Last(tx[tab].token)
      BY <1>2, <2>2, <3>1 DEF IInv, Chain, LineageIntact, Last
    <3>3. \A s \in present : row[s].family = row[tx[tab].token].family => row[s].revoked # "no"
      BY <1>2, <2>2, <3>1, <3>2 DEF RevokedTogether
    <3> QED BY <2>1, <2>2, <3>3 DEF Reached
  <2> QED BY <1>5, <2>1, <2>2, <2>3
<1>11. ASSUME NEW t \in Tokens, RevokeRow(tab, t) PROVE Roles' /\ Undelivered' /\ (Undisturbed => Honest')
  <2>1. /\ RowsStill /\ SameRequest(tab) /\ t \in tx[tab].todo
        /\ tx[tab].pc = "revoking" /\ tx'[tab].pc = "revoking"
    BY <1>1, <1>2, <1>11, RevokeRows
  <2>2. ~Undisturbed
    BY <1>1, <2>1 DEF BrowserInv, Honest, HonestTab, Reached
  <2> QED BY <1>5, <2>1, <2>2 DEF Open
<1>12. CASE CommitRevoke(tab)
  <2>1. /\ present' = present /\ SameRequest(tab)
        /\ tx[tab].pc = "revoking" /\ tx'[tab].pc = "failed"
        /\ tx'[tab].todo = {} /\ tx'[tab].done = {}
        /\ \A t \in present : /\ t \notin tx[tab].done => row'[t] = row[t]
                              /\ row'[t].used = row[t].used
    <3>1. tx[tab].kind = "refresh"
      BY <1>3, <1>12 DEF CommitRevoke, Open
    <3> QED BY <1>1, <1>2, <1>12, <3>1, RevokeRows
  <2>2. CASE Undisturbed
    <3>1. tx[tab].done = {}
      BY <1>1, <2>2 DEF BrowserInv, Honest, HonestTab, Reached
    <3>2. RowsStill
      BY <2>1, <3>1 DEF RowsStill
    <3> QED BY <1>5, <2>1, <3>2 DEF Open, Reached
  <2>3. CASE ~Undisturbed
    <3>1. Roles'
      BY <1>1, <1>2, <1>3, <2>1 DEF Roles, SameRequest, Open
    <3>2. Undelivered'
      BY <1>1, <1>2, <2>1 DEF Undelivered, SameRequest
    <3> QED BY <1>1, <2>3, <3>1, <3>2
  <2> QED BY <2>2, <2>3
<1>13. ~Issue(tab)
  BY <1>3 DEF Issue
<1> QED BY <1>6, <1>7, <1>8, <1>9, <1>10, <1>11, <1>12, <1>13 DEF Serve

\* Steps of the browser that take no row and give back those of one request.
LEMMA ClientKeepsRows ==
  ASSUME BrowserInv, NEW r \in Requests,
         UNCHANGED <<now, users, made, present, row, sweep>>,
         tx' \in [Requests -> Transaction],
         \A q \in Requests \ {r} : tx'[q] = tx[q],
         tx'[r].pc \in {"idle", "failed"}, tx'[r].todo = {}, tx'[r].done = {}
  PROVE  IInv' /\ RevokedTogether'
<1>1. IInv /\ RevokedTogether
  BY DEF BrowserInv
<1>2. TypeOK'
  BY <1>1 DEF IInv, TypeOK
<1>3. IInv'
  BY <1>1, <1>2, EndKeepsInv
<1>4. /\ \A q \in Requests : Reached(q)' = IF q = r THEN {} ELSE Reached(q)
      /\ \A t \in present : Last(t)' <=> Last(t)
  BY DEF Reached, Last
<1> QED BY <1>1, <1>3, <1>4 DEF RevokedTogether

\* What is sent to the server.
LEMMA ArriveKeepsRows ==
  ASSUME BrowserInv, NEW r \in Requests, Arrive(r)
  PROVE  IInv' /\ RevokedTogether'
<1>1. IInv /\ RevokedTogether
  BY DEF BrowserInv
<1>2. UNCHANGED <<present, row>>
  BY DEF Arrive, SignUp, LogIn, Send
<1>3. \A q \in Requests : Reached(q)' = Reached(q)
  <2>1. tx \in [Requests -> Transaction] /\ tx[r] \in Transaction
    BY <1>1 DEF IInv, TypeOK
  <2>2. ASSUME NEW u \in Users, SignUp(r, u) \/ LogIn(r, u)
        PROVE  \A q \in Requests : tx'[q].todo = tx[q].todo /\ tx'[q].done = tx[q].done
    BY <2>1, <2>2 DEF SignUp, LogIn, Transaction
  <2>3. ASSUME NEW t, NEW kind, Send(r, kind, t)
        PROVE  \A q \in Requests : tx'[q].todo = tx[q].todo /\ tx'[q].done = tx[q].done
    BY <2>1, <2>3 DEF Send, Transaction
  <2> QED BY <2>2, <2>3 DEF Arrive, Reached
<1>4. \A t \in present : Last(t)' <=> Last(t)
  BY <1>2 DEF Last
<1> QED BY <1>1, <1>2, <1>3, <1>4, ArriveKeepsInv DEF RevokedTogether

\* The calls of a tab, and its refresh.
LEMMA RefreshKeepsInv ==
  ASSUME BrowserInv, NEW c \in Calls, Refresh(c)
  PROVE  BrowserInv'
<1> DEFINE tab == TabOf[c]
<1>1. /\ tab \in Tabs /\ tab \in Requests /\ tab \notin Forms
      /\ Tabs \subseteq Requests /\ Forms \subseteq Requests
      /\ jar' = jar /\ (Undisturbed' => Undisturbed)
  BY RequestsAssumption, CallsAssumption DEF Refresh, Undisturbed
<1>2. IInv /\ Roles /\ Undelivered /\ RevokedTogether
  BY DEF BrowserInv
<1>3. /\ tx \in [Requests -> Transaction] /\ tx[tab] \in Transaction
      /\ NoToken \notin present
  BY <1>1, <1>2, NumberTypes DEF IInv, TypeOK, Tokens, NoToken
<1> HIDE DEF tab
<1>4. ASSUME UNCHANGED <<now, made, present, row>>,
             \A q \in Requests \ {tab} : tx'[q] = tx[q],
             tx'[tab].todo = {}, tx'[tab].done = {},
             \/ tx'[tab].pc = "failed" /\ tx'[tab].token = tx[tab].token /\ jar = NoToken
             \/ /\ tx'[tab].pc = "sent" /\ tx'[tab].kind = "refresh"
                /\ tx'[tab].token = jar /\ jar \in present /\ tx[tab].pc = "idle"
                /\ Undisturbed' => \A q \in Tabs : tx[q].token # jar
      PROVE  Roles' /\ Undelivered' /\ (Undisturbed' => Honest')
  <2>1. Roles'
    BY <1>1, <1>2, <1>4 DEF Roles, Open
  <2>2. Undelivered'
    BY <1>1, <1>2, <1>4 DEF Undelivered
  <2>3. ASSUME Undisturbed' PROVE Honest'
    <3>1. Honest
      BY <1>1, <2>3 DEF BrowserInv
    <3>2. CASE jar = NoToken /\ tx'[tab].pc = "failed" /\ tx'[tab].token = tx[tab].token
      <4>1. \A q \in Tabs : HonestTab(q)'
        BY <1>1, <1>4, <3>1, <3>2 DEF Honest, HonestTab, Open, Reached
      <4>2. SoleTokens'
        BY <1>1, <1>4, <3>1, <3>2 DEF Honest, SoleTokens
      <4> QED BY <1>1, <1>4, <3>1, <3>2, <4>1, <4>2 DEF Honest, UsedIsAnswered
    <3>3. CASE /\ tx'[tab].pc = "sent" /\ tx'[tab].token = jar /\ jar \in present
               /\ \A q \in Tabs : tx[q].token # jar
      <4>1. ~row[jar].used
        BY <1>3, <3>1, <3>3 DEF Honest, UsedIsAnswered
      <4>2. HonestTab(tab)'
        BY <1>1, <1>4, <3>3, <4>1 DEF HonestTab, Open, Reached
      <4>3. \A q \in Tabs \ {tab} : HonestTab(q)'
        BY <1>1, <1>4, <3>1 DEF Honest, HonestTab, Open, Reached
      <4>4. SoleTokens'
        BY <1>1, <1>4, <3>1, <3>3 DEF Honest, SoleTokens
      <4> QED BY <1>1, <1>4, <3>1, <4>1, <4>2, <4>3, <4>4 DEF Honest, UsedIsAnswered
    <3> QED BY <1>4, <2>3, <3>2, <3>3
  <2> QED BY <2>1, <2>2, <2>3
<1>5. CASE UNCHANGED <<vars, crossed>>
  <2>1. IInv'
    BY <1>2, <1>5, NextInv
  <2>2. RevokedTogether'
    BY <1>2, <1>5 DEF RevokedTogether, Reached, Last, vars
  <2>3. Roles' /\ Undelivered'
    BY <1>1, <1>2, <1>5 DEF Roles, Undelivered, Open, vars
  <2>4. ASSUME Undisturbed' PROVE Honest'
    BY <1>1, <1>5, <2>4
       DEF BrowserInv, Honest, HonestTab, SoleTokens, UsedIsAnswered, Open, Reached, vars
  <2> QED BY <1>1, <2>1, <2>2, <2>3, <2>4 DEF BrowserInv
<1>6. CASE /\ tx[tab].pc = "idle" /\ jar = NoToken
           /\ tx' = [tx EXCEPT ![tab].pc = "failed", ![tab].kind = "refresh"]
           /\ UNCHANGED <<now, users, made, present, row, sweep, crossed>>
  <2>1. [tx[tab] EXCEPT !.pc = "failed", !.kind = "refresh"] \in Transaction
    BY <1>3 DEF Transaction, Steps, Kinds
  <2>2. tx' = [tx EXCEPT ![tab] = [tx[tab] EXCEPT !.pc = "failed", !.kind = "refresh"]]
    BY <1>6
  <2>3. /\ tx' \in [Requests -> Transaction]
        /\ \A q \in Requests \ {tab} : tx'[q] = tx[q]
        /\ tx'[tab].pc = "failed" /\ tx'[tab].token = tx[tab].token
        /\ tx'[tab].todo = tx[tab].todo /\ tx'[tab].done = tx[tab].done
    BY <1>1, <1>3, <2>1, <2>2 DEF Transaction
  <2>4. tx[tab].todo = {} /\ tx[tab].done = {}
    BY <1>1, <1>2, <1>6 DEF IInv, TxInv
  <2>6. IInv' /\ RevokedTogether'
    BY <1>1, <1>6, <2>3, <2>4, ClientKeepsRows
  <2>7. Roles' /\ Undelivered' /\ (Undisturbed' => Honest')
    BY <1>4, <1>6, <2>3, <2>4
  <2> QED BY <1>1, <2>6, <2>7 DEF BrowserInv
<1>7. CASE /\ tx[tab].pc = "idle" /\ jar # NoToken /\ Send(tab, "refresh", jar)
           /\ crossed' = (crossed \/ \E other \in Tabs : tx[other].token = jar)
  <2>1. jar \in present
    BY <1>2, <1>7 DEF Roles
  <2>2. jar \in Presentable
    BY <1>2, <2>1 DEF IInv, TypeOK, TxInv, Presentable
  <2>3. Arrive(tab)
    BY <1>7, <2>2 DEF Arrive
  <2>4. IInv' /\ RevokedTogether'
    BY <1>1, <2>3, ArriveKeepsRows
  <2>5. tx[tab].todo = {} /\ tx[tab].done = {}
    BY <1>1, <1>2, <1>7 DEF IInv, TxInv
  <2>6. /\ UNCHANGED <<now, made, present, row>>
        /\ \A q \in Requests \ {tab} : tx'[q] = tx[q]
        /\ tx'[tab].pc = "sent" /\ tx'[tab].kind = "refresh" /\ tx'[tab].token = jar
        /\ tx'[tab].todo = {} /\ tx'[tab].done = {}
    BY <1>1, <1>3, <1>7, <2>5 DEF Send, Transaction
  <2>7. Undisturbed' => \A q \in Tabs : tx[q].token # jar
    BY <1>7 DEF Undisturbed
  <2>8. Roles' /\ Undelivered' /\ (Undisturbed' => Honest')
    BY <1>4, <1>7, <2>1, <2>6, <2>7
  <2> QED BY <1>1, <2>4, <2>8 DEF BrowserInv
<1> QED BY <1>5, <1>6, <1>7 DEF Refresh, tab

\* A refresh comes to its end: the cookies are replaced, cleared or kept.
LEMMA RefreshEndsKeepsInv ==
  ASSUME BrowserInv, NEW tab \in Tabs,
         RefreshAnswered(tab) \/ RefreshLost(tab) \/ RefreshLimited(tab)
  PROVE  BrowserInv'
<1>1. /\ tab \in Requests /\ tab \notin Forms /\ Tabs \subseteq Requests /\ Forms \subseteq Requests
  BY RequestsAssumption
<1>2. IInv /\ Roles /\ Undelivered /\ RevokedTogether
  BY DEF BrowserInv
<1>3. tx \in [Requests -> Transaction] /\ NoToken \notin present
  BY <1>2, NumberTypes DEF IInv, TypeOK, Tokens, NoToken
<1>4. tx' = [tx EXCEPT ![tab] = NoRequest] /\ UNCHANGED <<now, users, made, present, row, sweep>>
  BY DEF RefreshAnswered, RefreshLost, RefreshLimited, Finish
<1>5. /\ tx' \in [Requests -> Transaction]
      /\ \A q \in Requests \ {tab} : tx'[q] = tx[q]
      /\ tx'[tab].pc = "idle" /\ tx'[tab].token = NoToken
      /\ tx'[tab].todo = {} /\ tx'[tab].done = {}
  <2>1. NoRequest \in Transaction
    BY Placeholders
  <2> QED BY <1>1, <1>3, <1>4, <2>1 DEF NoRequest
<1>6. IInv' /\ RevokedTogether'
  BY <1>1, <1>4, <1>5, ClientKeepsRows
<1>7. \/ jar' = jar
      \/ jar' = NoToken
      \/ tx[tab].pc = "granted" /\ jar' = tx[tab].new
  BY DEF RefreshAnswered, RefreshCookies, RefreshLost, RefreshLimited
<1>8. Roles'
  BY <1>1, <1>2, <1>4, <1>5, <1>7 DEF Roles, Open, Undelivered
<1>9. Undelivered'
  BY <1>1, <1>2, <1>3, <1>4, <1>5, <1>7 DEF Undelivered
<1>10. ASSUME Undisturbed' PROVE Honest'
  <2>1. Honest
    BY <1>10 DEF RefreshAnswered, RefreshLost, RefreshLimited, BrowserInv, Undisturbed, history
  <2>2. UsedIsAnswered'
    <3>1. CASE RefreshLimited(tab)
      <4>1. jar' = jar /\ tx[tab].pc = "sent"
        BY <3>1 DEF RefreshLimited
      <4> QED BY <1>1, <1>4, <1>5, <2>1, <4>1 DEF Honest, UsedIsAnswered
    <3>2. CASE RefreshAnswered(tab)
      <4>1. jar' = NoToken \/ ~row[jar'].used
        BY <1>1, <1>2, <3>2 DEF RefreshAnswered, RefreshCookies, Undelivered
      <4> QED BY <1>4, <4>1 DEF UsedIsAnswered
    <3>3. ~RefreshLost(tab)
      BY <1>10 DEF RefreshLost, Undisturbed
    <3> QED BY <3>1, <3>2, <3>3
  <2>3. HonestTab(tab)'
    BY <1>5 DEF HonestTab, Open, Reached
  <2>4. \A q \in Tabs \ {tab} : HonestTab(q)'
    BY <1>1, <1>4, <1>5, <2>1 DEF Honest, HonestTab, Open, Reached
  <2>5. SoleTokens'
    BY <1>1, <1>5, <2>1 DEF Honest, SoleTokens
  <2> QED BY <1>4, <2>1, <2>2, <2>3, <2>4, <2>5 DEF Honest
<1> QED BY <1>6, <1>8, <1>9, <1>10 DEF BrowserInv

\* The pages log in and out.
LEMMA SubmitKeepsInv ==
  ASSUME BrowserInv, NEW f \in Forms, Submit(f)
  PROVE  BrowserInv'
<1>1. /\ f \in Requests /\ f \notin Tabs /\ Tabs \subseteq Requests /\ Forms \subseteq Requests
      /\ jar' = jar /\ Undisturbed' = Undisturbed
  BY RequestsAssumption DEF Submit, client, history, Undisturbed
<1>2. IInv /\ Roles /\ Undelivered /\ RevokedTogether
  BY DEF BrowserInv
<1>3. tx \in [Requests -> Transaction] /\ tx[f] \in Transaction
  BY <1>1, <1>2 DEF IInv, TypeOK
<1>4. Arrive(f)
  <2>1. CASE jar # NoToken /\ Send(f, "logout", jar)
    <3>1. jar \in present
      BY <1>2, <2>1 DEF Roles
    <3>2. jar \in Presentable
      BY <1>2, <3>1 DEF IInv, TypeOK, TxInv, Presentable
    <3> QED BY <2>1, <3>2 DEF Arrive
  <2> QED BY <2>1 DEF Submit, Arrive
<1>5. IInv' /\ RevokedTogether'
  BY <1>1, <1>4, ArriveKeepsRows
<1>6. /\ UNCHANGED <<present, row>>
      /\ \A q \in Requests \ {f} : tx'[q] = tx[q]
      /\ \/ tx'[f].pc \in {"failed", "identified"}
         \/ tx'[f].pc = "sent" /\ tx'[f].kind = "logout"
  <2>1. ASSUME NEW u \in Users, SignUp(f, u) \/ LogIn(f, u)
        PROVE  /\ UNCHANGED <<present, row>>
               /\ \A q \in Requests \ {f} : tx'[q] = tx[q]
               /\ tx'[f].pc \in {"failed", "identified"}
    BY <1>1, <1>3, <2>1 DEF SignUp, LogIn, Transaction
  <2>2. ASSUME Send(f, "logout", jar)
        PROVE  /\ UNCHANGED <<present, row>>
               /\ \A q \in Requests \ {f} : tx'[q] = tx[q]
               /\ tx'[f].pc = "sent" /\ tx'[f].kind = "logout"
    BY <1>1, <1>3, <2>2 DEF Send, Transaction
  <2> QED BY <2>1, <2>2 DEF Submit
<1>7. \A tab \in Tabs : tx'[tab] = tx[tab]
  BY <1>1, <1>6
<1>8. Roles'
  BY <1>1, <1>2, <1>6, <1>7 DEF Roles, Open
<1>9. Undelivered'
  BY <1>1, <1>2, <1>6, <1>7 DEF Undelivered
<1>10. Undisturbed => Honest'
  BY <1>1, <1>6, <1>7
     DEF BrowserInv, Honest, HonestTab, SoleTokens, UsedIsAnswered, Open, Reached
<1> QED BY <1>1, <1>5, <1>8, <1>9, <1>10 DEF BrowserInv

\* Their replies.
LEMMA FormEndsKeepsInv ==
  ASSUME BrowserInv, NEW f \in Forms, FormAnswered(f) \/ FormLost(f)
  PROVE  BrowserInv'
<1>1. /\ f \in Requests /\ f \notin Tabs /\ Tabs \subseteq Requests /\ Forms \subseteq Requests
  BY RequestsAssumption
<1>2. IInv /\ Roles /\ Undelivered /\ RevokedTogether
  BY DEF BrowserInv
<1>3. tx \in [Requests -> Transaction] /\ NoToken \notin present
  BY <1>2, NumberTypes DEF IInv, TypeOK, Tokens, NoToken
<1>4. tx' = [tx EXCEPT ![f] = NoRequest] /\ UNCHANGED <<now, users, made, present, row, sweep>>
  BY DEF FormAnswered, FormLost, Finish
<1>5. /\ tx' \in [Requests -> Transaction]
      /\ \A q \in Requests \ {f} : tx'[q] = tx[q]
      /\ tx'[f].pc = "idle"
      /\ tx'[f].todo = {} /\ tx'[f].done = {}
  <2>1. NoRequest \in Transaction
    BY Placeholders
  <2> QED BY <1>1, <1>3, <1>4, <2>1 DEF NoRequest
<1>6. IInv' /\ RevokedTogether'
  BY <1>1, <1>4, <1>5, ClientKeepsRows
<1>7. \/ jar' = jar
      \/ jar' = NoToken
      \/ tx[f].pc = "granted" /\ jar' = tx[f].new
  BY DEF FormAnswered, FormLost
<1>8. \A tab \in Tabs : tx'[tab] = tx[tab]
  BY <1>1, <1>5
<1>9. Roles'
  BY <1>1, <1>2, <1>4, <1>5, <1>7, <1>8 DEF Roles, Open, Undelivered
<1>10. Undelivered'
  BY <1>1, <1>2, <1>3, <1>4, <1>5, <1>7, <1>8 DEF Undelivered
<1>11. ASSUME Undisturbed' PROVE Honest'
  <2>1. Honest
    BY <1>11 DEF FormAnswered, FormLost, BrowserInv, Undisturbed, history
  <2>2. jar' = NoToken \/ jar' = jar \/ ~row[jar'].used
    BY <1>1, <1>2, <1>7 DEF Undelivered
  <2> QED BY <1>4, <1>8, <2>1, <2>2
          DEF Honest, HonestTab, SoleTokens, UsedIsAnswered, Open, Reached
<1> QED BY <1>6, <1>9, <1>10, <1>11 DEF BrowserInv

\* Everything else a browser does leaves tokens, requests and the cookie alone.
LEMMA QuietBrowser ==
  ASSUME BrowserInv, UNCHANGED <<vars, jar, history>>
  PROVE  BrowserInv'
<1>1. [Next]_vars
  OBVIOUS
<1>2. IInv'
  BY <1>1, NextInv DEF BrowserInv
<1>3. RevokedTogether' /\ Roles' /\ Undelivered'
  BY DEF BrowserInv, RevokedTogether, Reached, Last, Roles, Open, Undelivered, vars
<1>4. Undisturbed' => Honest'
  BY DEF BrowserInv, Undisturbed, history, Honest, HonestTab, SoleTokens, UsedIsAnswered,
     Open, Reached, vars
<1> QED BY <1>2, <1>3, <1>4 DEF BrowserInv

LEMMA BrowserInvNext == BrowserInv /\ [SessionNext]_session => BrowserInv'
<1> SUFFICES ASSUME BrowserInv, [SessionNext]_session PROVE BrowserInv'
  OBVIOUS
<1>1. CASE Server
  <2>1. PICK r \in Requests : Serve(r) \/ Abort(r)
    BY <1>1 DEF Server
  <2>2. UNCHANGED client /\ Undisturbed' = Undisturbed
    BY <1>1 DEF Server, client, history, Undisturbed
  <2>3. Next
    BY <2>1 DEF Next
  <2>4. IInv' /\ RevokedTogether'
    BY <2>1, <2>3, NextInv, ServeRevokesTogether DEF BrowserInv
  <2>5. Roles' /\ Undelivered' /\ (Undisturbed => Honest')
    BY <2>1, <2>2, FormServed, TabServed, RequestsAssumption
  <2> QED BY <2>2, <2>4, <2>5 DEF BrowserInv
<1>2. ASSUME NEW c \in Calls, Fetch(c) \/ Proceed(c) PROVE BrowserInv'
  <2>1. CASE Refresh(c)
    BY <2>1, RefreshKeepsInv
  <2> QED BY <1>2, <2>1, QuietBrowser DEF Fetch, Proceed, Respond, Retry
<1>3. CASE AccessExpires
  BY <1>3, QuietBrowser DEF AccessExpires
<1>4. CASE UNCHANGED session
  BY <1>4, QuietBrowser DEF session, client
<1> QED
  BY <1>1, <1>2, <1>3, <1>4, RefreshEndsKeepsInv, SubmitKeepsInv, FormEndsKeepsInv
  DEF SessionNext

LEMMA BrowserInvInit == SessionInit => BrowserInv
<1> SUFFICES ASSUME SessionInit PROVE BrowserInv
  OBVIOUS
<1>1. IInv
  BY InitInv DEF SessionInit
<1>2. /\ present = {} /\ jar = NoToken
      /\ \A r \in Requests : tx[r] = NoRequest
  BY DEF SessionInit, Init
<1>3. Tabs \subseteq Requests /\ Forms \subseteq Requests
  BY RequestsAssumption
<1>4. \A r \in Requests : /\ tx[r].pc = "idle" /\ tx[r].token = NoToken
                         /\ tx[r].todo = {} /\ tx[r].done = {}
  BY <1>2 DEF NoRequest
<1>5. RevokedTogether
  BY <1>2, <1>4 DEF RevokedTogether, Reached
<1>6. Roles /\ Undelivered /\ Honest
  BY <1>2, <1>3, <1>4
     DEF Roles, Undelivered, Honest, HonestTab, SoleTokens, UsedIsAnswered, Open, Reached
<1> QED BY <1>1, <1>5, <1>6 DEF BrowserInv

\* A request that is not under way carries no token.
IdleIsEmpty == \A r \in Requests : tx[r].pc = "idle" => tx[r].token = NoToken

LEMMA IdleIsEmptyNext ==
  ASSUME IInv, IdleIsEmpty, [SessionNext]_session
  PROVE  IdleIsEmpty'
<1>1. tx \in [Requests -> Transaction] /\ Tabs \subseteq Requests /\ Forms \subseteq Requests
  BY RequestsAssumption DEF IInv, TypeOK
<1>2. ASSUME NEW r \in Requests, \A q \in Requests \ {r} : tx'[q] = tx[q], tx'[r].pc # "idle"
      PROVE  IdleIsEmpty'
  BY <1>2 DEF IdleIsEmpty
<1>3. ASSUME NEW r \in Requests, tx' = [tx EXCEPT ![r] = NoRequest] PROVE IdleIsEmpty'
  BY <1>1, <1>3 DEF IdleIsEmpty, NoRequest
<1>4. CASE UNCHANGED tx
  BY <1>4 DEF IdleIsEmpty
<1>5. ASSUME NEW r \in Requests, Serve(r) \/ Abort(r) PROVE IdleIsEmpty'
  <2>1. SameRequest(r) /\ tx'[r].pc # "idle"
    <3>1. CASE IssueFails(r) \/ Abort(r) \/ LockToken(r) \/ Replace(r)
      BY <3>1, QuietServe
    <3>2. CASE Issue(r)
      BY <3>2, IssueRows
    <3>3. CASE CommitRotation(r)
      BY <3>3, RotationRows
    <3>4. CASE StartRevoke(r) \/ (\E t \in Tokens : RevokeRow(r, t)) \/ CommitRevoke(r)
      BY <3>4, RevokeRows
    <3> QED BY <1>5, <3>1, <3>2, <3>3, <3>4 DEF Serve
  <2> QED BY <1>2, <2>1 DEF SameRequest
<1>6. ASSUME NEW c \in Calls, Refresh(c) PROVE IdleIsEmpty'
  <2>1. TabOf[c] \in Requests /\ tx[TabOf[c]] \in Transaction
    BY <1>1, CallsAssumption
  <2>2. \/ UNCHANGED tx
        \/ /\ \A q \in Requests \ {TabOf[c]} : tx'[q] = tx[q]
           /\ tx'[TabOf[c]].pc \in {"failed", "sent"}
    BY <1>1, <1>6, <2>1 DEF Refresh, Send, Transaction, vars
  <2> QED BY <1>2, <1>4, <2>1, <2>2
<1>7. ASSUME NEW f \in Forms, Submit(f) PROVE IdleIsEmpty'
  <2>1. f \in Requests /\ tx[f] \in Transaction
    BY <1>1
  <2>2. /\ \A q \in Requests \ {f} : tx'[q] = tx[q]
        /\ tx'[f].pc # "idle"
    <3>1. CASE \E u \in Users : SignUp(f, u) \/ LogIn(f, u)
      BY <1>1, <2>1, <3>1 DEF SignUp, LogIn, Transaction
    <3>2. CASE Send(f, "logout", jar)
      BY <1>1, <2>1, <3>2 DEF Send, Transaction
    <3> QED BY <1>7, <3>1, <3>2 DEF Submit
  <2> QED BY <1>2, <2>1, <2>2
<1>8. ASSUME NEW tab \in Tabs, RefreshAnswered(tab) \/ RefreshLost(tab) \/ RefreshLimited(tab)
      PROVE  IdleIsEmpty'
  BY <1>1, <1>3, <1>8 DEF RefreshAnswered, RefreshLost, RefreshLimited, Finish
<1>9. ASSUME NEW f \in Forms, FormAnswered(f) \/ FormLost(f) PROVE IdleIsEmpty'
  BY <1>1, <1>3, <1>9 DEF FormAnswered, FormLost, Finish
<1>10. CASE \/ AccessExpires \/ UNCHANGED session
            \/ \E c \in Calls : Fetch(c) \/ Respond(c) \/ Retry(c)
  BY <1>4, <1>10 DEF AccessExpires, Fetch, Respond, Retry, session, vars
<1> QED BY <1>5, <1>6, <1>7, <1>8, <1>9, <1>10 DEF SessionNext, Server, Proceed

(* What the single flight of api.ts is there for, and where it ends: the   *)
(* server takes a browser for a thief and revokes a family for reuse only  *)
(* after a reply was lost or two tabs refreshed with one token at a time,  *)
(* for any number of tabs, calls, logins and logouts.                      *)
THEOREM BrowserIsNoThief == SessionSpec => []ReuseHasCause
<1>1. BrowserInv => ReuseHasCause
  BY DEF BrowserInv, Undisturbed, Honest, ReuseHasCause
<1>2. BrowserInv /\ [SessionNext]_session => BrowserInv'
  BY BrowserInvNext
<1> QED BY <1>1, <1>2, BrowserInvInit, PTL DEF SessionSpec

(* Between its requests, as long as no reply is lost and no refreshes      *)
(* cross, the browser has the one live token of its family, or one that a  *)
(* logout revoked.                                                         *)
THEOREM CookieStaysCurrent == SessionSpec => []CookieIsCurrent
<1>1. BrowserInv => CookieIsCurrent
  <2> SUFFICES ASSUME BrowserInv, ~lost, ~crossed, jar # NoToken,
                      \A r \in Requests : tx[r].pc = "idle"
               PROVE  jar \in present /\ (Live(jar) \/ row[jar].revoked = "logout")
    BY DEF CookieIsCurrent
  <2>1. jar \in present /\ Tabs \subseteq Requests /\ Honest
    BY RequestsAssumption DEF BrowserInv, Roles, Undisturbed
  <2>2. ~row[jar].used /\ row[jar].revoked # "reuse_detected"
    BY <2>1 DEF Honest, UsedIsAnswered
  <2>3. row[jar].replacedBy = NoToken
    BY <2>1, <2>2 DEF BrowserInv, IInv, Chain, LineageIntact
  <2>4. row[jar].revoked \in {"no", "logout", "reuse_detected"}
    BY <2>1, NumberTypes DEF BrowserInv, IInv, Row
  <2> QED BY <2>1, <2>2, <2>3, <2>4 DEF Live, Spent
<1>2. BrowserInv /\ [SessionNext]_session => BrowserInv'
  BY BrowserInvNext
<1> QED BY <1>1, <1>2, BrowserInvInit, PTL DEF SessionSpec

(* A browser with one tab: its calls share one refresh, so that no two     *)
(* carry the same token, and only a lost reply makes it look like a thief. *)
THEOREM OneTabNeverCrosses ==
  ASSUME \A a, b \in Tabs : a = b
  PROVE  SessionSpec => [](~crossed /\ (lost \/ \A t \in present : row[t].revoked # "reuse_detected"))
<1> DEFINE Inv == BrowserInv /\ IdleIsEmpty /\ ~crossed
<1>1. SessionInit => Inv
  BY BrowserInvInit DEF SessionInit, Init, IdleIsEmpty, NoRequest
<1>2. Inv /\ [SessionNext]_session => Inv'
  <2> SUFFICES ASSUME Inv, [SessionNext]_session PROVE Inv'
    OBVIOUS
  <2>1. BrowserInv'
    BY BrowserInvNext
  <2>2. IdleIsEmpty'
    BY IdleIsEmptyNext DEF BrowserInv
  <2>3. ASSUME NEW c \in Calls, Refresh(c) PROVE ~crossed'
    <3>1. TabOf[c] \in Tabs /\ Tabs = {TabOf[c]} /\ TabOf[c] \in Requests
      BY CallsAssumption, RequestsAssumption
    <3>2. tx[TabOf[c]].pc = "idle" => tx[TabOf[c]].token = NoToken
      BY <3>1 DEF IdleIsEmpty
    <3> QED BY <2>3, <3>1, <3>2 DEF Refresh
  <2>4. ~crossed'
    BY <2>3 DEF SessionNext, session, client, history, Server, AccessExpires, Fetch, Proceed,
       Respond, Retry, RefreshAnswered, RefreshLost, RefreshLimited, Submit, FormAnswered, FormLost
  <2> QED BY <2>1, <2>2, <2>4
<1>3. Inv => ~crossed /\ (lost \/ \A t \in present : row[t].revoked # "reuse_detected")
  BY DEF BrowserInv, Undisturbed, Honest
<1> HIDE DEF Inv
<1> QED BY <1>1, <1>2, <1>3, PTL DEF SessionSpec
=============================================================================
