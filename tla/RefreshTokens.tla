---------------------------- MODULE RefreshTokens ----------------------------
(***************************************************************************)
(* Refresh tokens (src/auth/refresh-tokens.service.ts): login and signup   *)
(* start a family, /auth/refresh replaces a token by its successor, logout *)
(* and a token presented again revoke the family, and the daily cleanup    *)
(* deletes families that ended long ago.  Each is a READ COMMITTED         *)
(* transaction or a single statement of PostgreSQL: a statement sees the   *)
(* rows committed when it starts, locks those it changes one by one, and   *)
(* reads a row again after it has waited for it.                           *)
(*                                                                         *)
(* A token, its row and its hash are one number; a family is named by its  *)
(* first token.  Rows of transactions that are not committed are not in    *)
(* present.                                                                *)
(***************************************************************************)
EXTENDS Naturals, FiniteSets

CONSTANTS Requests,   \* HTTP requests running at a time
          Users,      \* e-mail addresses
          TTL,        \* REFRESH_TOKEN_TTL_SECONDS
          Retention,  \* days a dead family is kept
          BatchSize,  \* families one DELETE takes
          MaxOpen,    \* the longest a transaction stays open
          MaxTokens,  \* tokens generated in a behaviour
          MaxTime     \* how far the clock runs

ASSUME UsersAssumption == Users # {}
ASSUME LifetimesAssumption == /\ TTL \in Nat \ {0}
                              /\ Retention \in Nat /\ MaxOpen \in Nat
                              /\ MaxOpen <= Retention
ASSUME BatchAssumption == BatchSize \in Nat \ {0}
ASSUME BoundsAssumption == MaxTokens \in Nat /\ MaxTime \in Nat

VARIABLES now,     \* the clock
          users,   \* committed rows of users
          made,    \* tokens generated so far
          present, \* committed rows of refresh_tokens
          row,     \* the rows
          tx,      \* the requests
          sweep    \* the cleanup's DELETE

vars == <<now, users, made, present, row, tx, sweep>>
-----------------------------------------------------------------------------
Tokens == 1..MaxTokens
NoToken == 0
Link == Tokens \cup {NoToken}
Row == [user: Users, family: Tokens, parent: Link, replacedBy: Link,
        expires: Nat, used: BOOLEAN, revoked: {"no", "logout", "reuse_detected"}]

Steps == {"idle", "sent", "locked", "replaced", "spent", "revoking", "identified",
          "granted", "failed", "closed"}
Kinds == {"login", "refresh", "logout"}
Transaction == [pc: Steps, kind: Kinds, user: Users, token: Link, new: Link,
                begun: Nat, todo: SUBSET Tokens, done: SUBSET Tokens]

AnyUser == CHOOSE u \in Users : TRUE
NoRequest == [pc |-> "idle", kind |-> "login", user |-> AnyUser, token |-> NoToken,
              new |-> NoToken, begun |-> 0, todo |-> {}, done |-> {}]

NoRow(t) == [user |-> AnyUser, family |-> t, parent |-> NoToken, replacedBy |-> NoToken,
             expires |-> 0, used |-> FALSE, revoked |-> "no"]
NewRow(u, f, p) == [user |-> u, family |-> f, parent |-> p, replacedBy |-> NoToken,
                    expires |-> now + TTL, used |-> FALSE, revoked |-> "no"]

\* Used, revoked or replaced: presenting it again is reuse.
Spent(t) == row[t].used \/ row[t].revoked # "no" \/ row[t].replacedBy # NoToken
Live(t) == t \in present /\ ~Spent(t)
Family(f) == {t \in present : row[t].family = f}

Open(r) == tx[r].pc \in {"sent", "locked", "replaced", "spent", "revoking"}
Answered(r) == tx[r].pc \in {"granted", "failed", "closed"}

\* What a client can present: tokens whose INSERT was committed or rolled back.
Presentable == {t \in 1..made : \A r \in Requests : tx[r].pc = "replaced" => tx[r].new # t}

\* Row locks: FOR UPDATE of a rotation, and the rows an UPDATE or DELETE has
\* reached, until the end of the transaction.
Locks(r) == tx[r].done \cup
            (IF tx[r].pc \in {"locked", "replaced", "spent"}
                \/ (tx[r].pc = "revoking" /\ tx[r].kind = "refresh")
             THEN {tx[r].token} ELSE {})
\* Mutant: SELECT without FOR UPDATE.
NoRowLocks(r, t) == TRUE
LockFree(r, t) == t \notin sweep.done /\ \A q \in Requests \ {r} : t \notin Locks(q)

\* Room for the tokens of the requests on their way: the bound, not the code.
Room == made + Cardinality({r \in Requests : Open(r) \/ tx[r].pc = "identified"}) < MaxTokens

Goto(r, step) == tx' = [tx EXCEPT ![r].pc = step, ![r].todo = {}, ![r].done = {}]
-----------------------------------------------------------------------------
Init == /\ now = 0 /\ users = {} /\ made = 0 /\ present = {}
        /\ row = [t \in Tokens |-> NoRow(t)]
        /\ tx = [r \in Requests |-> NoRequest]
        /\ sweep = [pc |-> "idle", todo |-> {}, done |-> {}]

(* Time: transactions are short, and end before MaxOpen has passed.        *)
Tick == /\ now < MaxTime
        /\ \A r \in Requests : Open(r) => now - tx[r].begun < MaxOpen
        /\ now' = now + 1
        /\ UNCHANGED <<users, made, present, row, tx, sweep>>

(* POST /auth/signup up to the INSERT into users, which commits before any *)
(* token is issued; the unique index turns a second one down.              *)
SignUp(r, u) ==
    /\ tx[r].pc = "idle" /\ Room
    /\ users' = users \cup {u}
    /\ tx' = [tx EXCEPT ![r].kind = "login", ![r].user = u,
                        ![r].pc = IF u \in users THEN "failed" ELSE "identified"]
    /\ UNCHANGED <<now, made, present, row, sweep>>

(* POST /auth/login up to the comparison of the password.                  *)
LogIn(r, u) ==
    /\ tx[r].pc = "idle" /\ Room
    /\ u \in users
    /\ tx' = [tx EXCEPT ![r].kind = "login", ![r].user = u, ![r].pc = "identified"]
    /\ UNCHANGED <<now, users, made, present, row, sweep>>

(* issue: the first token of a new family.                                 *)
Issue(r) ==
    /\ tx[r].pc = "identified"
    /\ made < MaxTokens
    /\ made' = made + 1
    /\ present' = present \cup {made + 1}
    /\ row' = [row EXCEPT ![made + 1] = NewRow(tx[r].user, made + 1, NoToken)]
    /\ tx' = [tx EXCEPT ![r].pc = "granted", ![r].new = made + 1]
    /\ UNCHANGED <<now, users, sweep>>

(* The INSERT, or the signature of the access token after it, fails.       *)
IssueFails(r) == /\ tx[r].pc = "identified"
                 /\ Goto(r, "failed")
                 /\ UNCHANGED <<now, users, made, present, row, sweep>>

(* POST /auth/refresh or /auth/logout with a token of the client's choice. *)
Send(r, kind, t) ==
    /\ tx[r].pc = "idle" /\ (kind = "refresh" /\ Live(t) => Room)
    /\ tx' = [tx EXCEPT ![r].pc = "sent", ![r].kind = kind, ![r].token = t,
                        ![r].new = NoToken, ![r].begun = now]
    /\ UNCHANGED <<now, users, made, present, row, sweep>>

\* Mutant: the row is checked before its lock has been waited for.
CheckThenLock(r) ==
    LET t == tx[r].token IN
    /\ tx[r].pc = "sent" /\ tx[r].kind = "refresh"
    /\ Goto(r, IF t \notin present THEN "failed"
               ELSE IF Spent(t) THEN "spent"
               ELSE IF row[t].expires <= now THEN "failed"
               ELSE "locked")
    /\ UNCHANGED <<now, users, made, present, row, sweep>>

(* rotate: SELECT ... FOR UPDATE and the checks of the row it returns.     *)
LockToken(r) ==
    LET t == tx[r].token IN
    /\ tx[r].pc = "sent" /\ tx[r].kind = "refresh"
    /\ LockFree(r, t)
    /\ Goto(r, IF t \notin present THEN "failed"
               ELSE IF Spent(t) THEN "spent"
               ELSE IF row[t].expires <= now THEN "failed"
               ELSE "locked")
    /\ UNCHANGED <<now, users, made, present, row, sweep>>

(* The INSERT of the successor and the UPDATE of the row it replaces, not  *)
(* committed.                                                              *)
Replace(r) ==
    LET t == tx[r].token IN
    /\ tx[r].pc = "locked"
    /\ made < MaxTokens
    /\ made' = made + 1
    /\ row' = [row EXCEPT ![made + 1] =
                  [NewRow(row[t].user, row[t].family, t) EXCEPT !.expires = tx[r].begun + TTL]]
    /\ tx' = [tx EXCEPT ![r].pc = "replaced", ![r].new = made + 1]
    /\ UNCHANGED <<now, users, present, sweep>>

(* COMMIT; it may take effect without being answered, and what follows it  *)
(* in AuthService.refresh (findById, the signature) may fail.              *)
CommitRotation(r) ==
    /\ tx[r].pc = "replaced"
    /\ present' = present \cup {tx[r].new}
    /\ row' = [row EXCEPT ![tx[r].token].used = TRUE,
                          ![tx[r].token].replacedBy = tx[r].new]
    /\ \E outcome \in {"granted", "failed"} : Goto(r, outcome)
    /\ UNCHANGED <<now, users, made, sweep>>

(* The UPDATE that revokes a family starts: of a reused token in rotate, of *)
(* the presented one in revokeFamilyByToken.  It sees the rows committed   *)
(* now and not revoked.                                                    *)
StartRevoke(r) ==
    LET t == tx[r].token IN
    /\ \/ tx[r].pc = "spent"
       \/ tx[r].pc = "sent" /\ tx[r].kind = "logout"
    /\ tx' = [tx EXCEPT ![r].pc = "revoking",
                        ![r].todo = IF t \in present
                                    THEN {s \in Family(row[t].family) : row[s].revoked = "no"}
                                    ELSE {}]
    /\ UNCHANGED <<now, users, made, present, row, sweep>>

\* Mutant: the row is not checked again (no WHERE revoked_at IS NULL).
OverwriteReason(r, t) ==
    /\ tx[r].pc = "revoking" /\ t \in tx[r].todo
    /\ LockFree(r, t)
    /\ tx' = [tx EXCEPT ![r].todo = @ \ {t}, ![r].done = @ \cup {t}]
    /\ UNCHANGED <<now, users, made, present, row, sweep>>

(* It reaches one row, waits for its lock and checks it again.             *)
RevokeRow(r, t) ==
    /\ tx[r].pc = "revoking" /\ t \in tx[r].todo
    /\ LockFree(r, t)
    /\ tx' = [tx EXCEPT ![r].todo = @ \ {t},
                        ![r].done = IF t \in present /\ row[t].revoked = "no"
                                    THEN @ \cup {t} ELSE @]
    /\ UNCHANGED <<now, users, made, present, row, sweep>>

Reason(r) == IF tx[r].kind = "logout" THEN "logout" ELSE "reuse_detected"
CommitRevoke(r) ==
    /\ tx[r].pc = "revoking" /\ tx[r].todo = {}
    /\ row' = [t \in Tokens |-> IF t \in tx[r].done
                                THEN [row[t] EXCEPT !.revoked = Reason(r)] ELSE row[t]]
    /\ Goto(r, IF tx[r].kind = "logout" THEN "closed" ELSE "failed")
    /\ UNCHANGED <<now, users, made, present, sweep>>

(* Any statement fails, or PostgreSQL breaks a deadlock: ROLLBACK.         *)
Abort(r) == /\ Open(r)
            /\ row' = IF tx[r].pc = "replaced"
                      THEN [row EXCEPT ![tx[r].new] = NoRow(tx[r].new)] ELSE row
            /\ Goto(r, "failed")
            /\ UNCHANGED <<now, users, made, present, sweep>>

(* The reply is written and the connection serves another request.         *)
Finish(r) == /\ Answered(r)
             /\ tx' = [tx EXCEPT ![r] = NoRequest]
             /\ UNCHANGED <<now, users, made, present, row, sweep>>
-----------------------------------------------------------------------------
(* CLEANUP_SQL: whole families whose last expiry is Retention ago, at most *)
(* BatchSize of them, in one statement with its own transaction.  There is *)
(* one such statement at a time: the job of a task goes on only with the   *)
(* advisory lock, which its session keeps until the last statement ended.  *)
Families == {row[t].family : t \in present}
\* Mutant: deleted as soon as it has expired, without the days of grace.
DeadAtExpiry(f) == \A t \in Family(f) : row[t].expires <= now
Dead(f) == \A t \in Family(f) : row[t].expires + Retention < now
Targets(fs) == {t \in present : row[t].family \in fs}

StartSweep ==
    LET dead == {f \in Families : Dead(f)} IN
    /\ sweep.pc = "idle"
    /\ \E fs \in SUBSET dead \ {{}} :
          /\ Cardinality(fs) = BatchSize \/ (fs = dead /\ Cardinality(fs) < BatchSize)
          /\ sweep' = [pc |-> "deleting", todo |-> Targets(fs), done |-> {}]
    /\ UNCHANGED <<now, users, made, present, row, tx>>

SweepRow(t) ==
    /\ t \in sweep.todo
    /\ \A r \in Requests : t \notin Locks(r)
    /\ sweep' = [sweep EXCEPT !.todo = @ \ {t}, !.done = @ \cup {t}]
    /\ UNCHANGED <<now, users, made, present, row, tx>>

\* The foreign keys of parent_token_id and replaced_by_token_id, checked at the
\* end of the statement.
Referenced == \E t \in present \ sweep.done :
                 row[t].parent \in sweep.done \/ row[t].replacedBy \in sweep.done

FinishSweep ==
    /\ sweep.pc = "deleting" /\ sweep.todo = {}
    /\ IF Referenced
       THEN /\ sweep' = [pc |-> "violated", todo |-> {}, done |-> {}]
            /\ UNCHANGED <<present, row>>
       ELSE /\ sweep' = [pc |-> "idle", todo |-> {}, done |-> {}]
            /\ present' = present \ sweep.done
            /\ row' = [t \in Tokens |-> IF t \in sweep.done THEN NoRow(t) ELSE row[t]]
    /\ UNCHANGED <<now, users, made, tx>>

(* lock_timeout, statement_timeout, a deadlock or a lost connection.       *)
AbortSweep == /\ sweep.pc # "idle"
              /\ sweep' = [pc |-> "idle", todo |-> {}, done |-> {}]
              /\ UNCHANGED <<now, users, made, present, row, tx>>
-----------------------------------------------------------------------------
Arrive(r) == \/ \E u \in Users : SignUp(r, u) \/ LogIn(r, u)
             \/ \E t \in Presentable : Send(r, "refresh", t) \/ Send(r, "logout", t)
Serve(r) == \/ Issue(r) \/ IssueFails(r)
            \/ LockToken(r) \/ Replace(r) \/ CommitRotation(r)
            \/ StartRevoke(r) \/ CommitRevoke(r)
            \/ \E t \in Tokens : RevokeRow(r, t)
Sweep == StartSweep \/ FinishSweep \/ AbortSweep \/ \E t \in Tokens : SweepRow(t)

Next == \/ Tick
        \/ \E r \in Requests : Arrive(r) \/ Serve(r) \/ Abort(r) \/ Finish(r)
        \/ Sweep
Spec == Init /\ [][Next]_vars
-----------------------------------------------------------------------------
(* Types of all variables.                                                 *)
TypeOK == /\ now \in 0..MaxTime
          /\ users \subseteq Users
          /\ made \in 0..MaxTokens
          /\ present \subseteq 1..made
          /\ row \in [Tokens -> Row]
          /\ tx \in [Requests -> Transaction]
          /\ sweep \in [pc: {"idle", "deleting", "violated"},
                        todo: SUBSET Tokens, done: SUBSET Tokens]

(* A family has at most one token that can still be exchanged, however     *)
(* rotations, revocations and deletions of it interleave.                  *)
OneLiveToken == \A s, t \in present :
                   row[s].family = row[t].family /\ Live(s) /\ Live(t) => s = t

(* The committed rows of a family are one chain of one user: a token is    *)
(* used exactly when it has a successor, which names it as its parent, and *)
(* no row of the chain is missing.  Nor does the DELETE of whole families  *)
(* ever meet the foreign keys, as refresh-token-cleanup.ts claims of it,   *)
(* even with rotations in between.                                         *)
LineageIntact ==
    /\ \A t \in present :
         /\ row[t].used <=> row[t].replacedBy # NoToken
         /\ row[t].replacedBy # NoToken =>
               row[t].replacedBy \in present /\ row[row[t].replacedBy].parent = t
         /\ row[t].parent # NoToken =>
               /\ row[t].parent \in present /\ row[row[t].parent].replacedBy = t
               /\ row[row[t].parent].family = row[t].family
               /\ row[row[t].parent].user = row[t].user
    /\ sweep.pc # "violated"

(* What ended a token's life stays on record: a used token stays used, a   *)
(* revoked one keeps the reason it was first revoked for, until its family *)
(* is deleted Retention after its last expiry.                             *)
HistoryKept ==
    [][\A t \in present :
          /\ t \in present' => /\ row[t].used => row'[t].used
                               /\ row[t].revoked # "no" => row'[t].revoked = row[t].revoked
          /\ t \notin present' => row[t].expires + Retention < now]_vars

(* A successor is committed only in the step that consumes a live parent:  *)
(* no token is exchanged after its family's revocation reached it.         *)
SuccessorsOfLive ==
    [][\A t \in present' \ present : row'[t].parent # NoToken => Live(row'[t].parent)]_vars

(* What logout promises, "revokes the whole family of the presented token" *)
(* (refresh-tokens.service.ts, revokeFamilyByToken).                       *)
LogoutEndsFamily ==
    \A r \in Requests : \A t \in present :
       tx[r].pc = "closed" /\ tx[r].token \in present /\ Live(t)
          => row[t].family # row[tx[r].token].family
=============================================================================
