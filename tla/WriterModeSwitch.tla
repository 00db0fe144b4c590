--------------------------- MODULE WriterModeSwitch ---------------------------
(***************************************************************************)
(* The tool that switches the inventory writer mode, and back:             *)
(* src/cutover/ticket-type-writer-mode-switch.ts and the exit codes of     *)
(* src/cutover/switch-ticket-type-writer-mode.ts.  It checks everything    *)
(* beforehand, then drains the writers, checks the database under its      *)
(* locks, writes the mode and commits.  When the COMMIT has no answer it   *)
(* must find out what became of it, in a second session, which takes the   *)
(* barrier again and is protected by fewer timeouts than the first.        *)
(*                                                                         *)
(* A task is one execution of the tool.  Its database session is apart     *)
(* from it: PostgreSQL ends the transaction of a task that is gone when it *)
(* notices, and a COMMIT it has received takes effect whoever waits for it.*)
(***************************************************************************)
EXTENDS Naturals, FiniteSets

CONSTANTS Tasks,       \* executions of the tool
          NoTask,      \* nobody holds the lock
          Target,      \* --target-mode of each
          Writers,     \* transactions that hold the shared barrier
          Direct,      \* direct SQL that does not
          MaxRevision  \* bound on the migrations applied meanwhile

Modes == {"legacy", "ticket_type"}

ASSUME TasksAssumption == NoTask \notin Tasks
ASSUME TargetAssumption == Target \in [Tasks -> Modes]
ASSUME WritersAssumption == Writers \cap Direct = {}
ASSUME RevisionAssumption == MaxRevision \in Nat

VARIABLES mode,     \* inventory_writer_control.writer_mode
          revision, \* the last applied migration
          parity,   \* the checks that hold or fail under either mode
          typed,    \* some Event has stock of another than its default type
          running,  \* transactions of Writers and Direct
          barrier,  \* who holds the barrier exclusively, to switch
          tables,   \* who holds the table locks
          verifier, \* who holds the barrier exclusively, to read the mode again
          cut,      \* nothing passes over the verifier's connection, and no end is told
          pc,       \* step of each task
          session,  \* its database session
          saw,      \* the revision its preflight attested
          exit,     \* its exit code
          applied,  \* history: its transaction took effect
          alone     \* history: no other switch took effect since it checked the mode

world == <<mode, revision, parity, typed>>
switching == <<barrier, tables>>
verifying == <<verifier, cut>>
locks == <<switching, verifying>>
history == <<applied, alone>>
vars == <<world, running, locks, pc, session, saw, exit, history>>

Init ==
  /\ mode \in Modes /\ revision = 0
  /\ parity = TRUE /\ typed = FALSE
  /\ running = {}
  /\ barrier = NoTask /\ tables = NoTask
  /\ verifier = NoTask /\ cut = FALSE
  /\ pc = [t \in Tasks |-> "new"]
  /\ session = [t \in Tasks |-> "none"]
  /\ saw = [t \in Tasks |-> 0]
  /\ exit = [t \in Tasks |-> "running"]
  /\ applied = [t \in Tasks |-> FALSE]
  /\ alone = [t \in Tasks |-> TRUE]

Opposite(m) == IF m = "legacy" THEN "ticket_type" ELSE "legacy"
Source(t) == Opposite(Target[t])

Goto(t, step) == pc' = [pc EXCEPT ![t] = step]
Session(t, state) == session' = [session EXCEPT ![t] = state]
Exit(t, code) == Goto(t, "ended") /\ exit' = [exit EXCEPT ![t] = code]

\* The locks a session gives back when its transaction ends.
Unlock(t) == /\ barrier' = IF barrier = t THEN NoTask ELSE barrier
             /\ tables' = IF tables = t THEN NoTask ELSE tables
             /\ UNCHANGED verifying

\* checkCutoverDatabase has nothing to object to, expecting mode m.
Clean(m) == parity /\ (m = "legacy" => ~typed)

-----------------------------------------------------------------------------
(* The preflight, and the transaction.                                     *)

\* Phase 1 in one snapshot: already there is an error; violations, of the
\* database or, which is up to the environment, of Valkey or OpenSearch, exit 2.
Preflight(t) ==
  /\ pc[t] = "new"
  /\ saw' = [saw EXCEPT ![t] = revision]
  /\ \/ mode = Target[t] /\ Exit(t, "1")
     \/ mode # Target[t] /\ Exit(t, "2")
     \/ mode # Target[t] /\ Clean(Source(t)) /\ Goto(t, "attested") /\ UNCHANGED exit
  /\ UNCHANGED <<world, running, locks, session, history>>

Begin(t) ==
  /\ pc[t] = "attested"
  /\ Goto(t, "locking") /\ Session(t, "open")
  /\ UNCHANGED <<world, running, locks, saw, exit, history>>

\* The exclusive barrier is free.
BarrierFree == barrier = NoTask /\ verifier = NoTask /\ running \cap Writers = {}

GetBarrier(t) ==
  /\ pc[t] = "locking" /\ session[t] = "open"
  /\ BarrierFree
  /\ barrier' = t
  /\ Goto(t, "draining")
  /\ UNCHANGED <<world, running, tables, verifying, session, saw, exit, history>>

\* Mutant: the tables are left open to direct SQL.
SkipTables(t) ==
  /\ pc[t] = "draining" /\ session[t] = "open"
  /\ Goto(t, "locked")
  /\ UNCHANGED <<world, running, locks, session, saw, exit, history>>

\* LOCK TABLE, once no direct writer is at work; NOWAIT and lock_timeout are Fail.
LockTables(t) ==
  /\ pc[t] = "draining" /\ session[t] = "open"
  /\ running \cap Direct = {} /\ tables = NoTask
  /\ tables' = t
  /\ Goto(t, "locked")
  /\ UNCHANGED <<world, running, barrier, verifying, session, saw, exit, history>>

\* ROLLBACK, exit 1; when the connection is gone it is the server that aborts.
Rollback(t) ==
  /\ Exit(t, "1")
  /\ \/ Session(t, "aborted") /\ Unlock(t)
     \/ UNCHANGED <<session, locks>>

\* The checks under the locks, and the UPDATE.
CheckAndUpdate(t) ==
  /\ pc[t] = "locked" /\ session[t] = "open"
  /\ IF mode = Source(t) /\ revision = saw[t] /\ Clean(Source(t))
     THEN Goto(t, "updated") /\ UNCHANGED <<session, locks, exit>>
     ELSE Rollback(t)
  /\ alone' = [alone EXCEPT ![t] = TRUE]
  /\ UNCHANGED <<world, running, saw, applied>>

\* The same checks, expecting the target mode.
CheckAfter(t) ==
  /\ pc[t] = "updated" /\ session[t] = "open"
  /\ IF revision = saw[t] /\ Clean(Target[t])
     THEN Goto(t, "checked") /\ UNCHANGED <<session, locks, exit>>
     ELSE Rollback(t)
  /\ UNCHANGED <<world, running, saw, history>>

\* COMMIT is sent; a session that has been aborted meanwhile does not get it.
SendCommit(t) ==
  /\ pc[t] = "checked"
  /\ Goto(t, "committing")
  /\ IF session[t] = "open" THEN Session(t, "committing") ELSE UNCHANGED session
  /\ UNCHANGED <<world, running, locks, saw, exit, history>>

CommitAnswered(t) ==
  /\ pc[t] = "committing" /\ session[t] = "committed"
  /\ Exit(t, "0")
  /\ UNCHANGED <<world, running, locks, session, saw, history>>

\* COMMIT fails for the client, whatever the server makes of it.
CommitLost(t) ==
  /\ pc[t] = "committing"
  /\ Goto(t, "unknown")
  /\ UNCHANGED <<world, running, locks, session, saw, exit, history>>

\* Any failure before COMMIT: timeouts, NOWAIT, a lost connection.
Fail(t) ==
  /\ pc[t] \in {"new", "attested", "locking", "draining", "locked", "updated"}
  /\ IF session[t] \in {"none", "aborted"} THEN Exit(t, "1") /\ UNCHANGED <<session, locks>>
     ELSE Rollback(t)
  /\ UNCHANGED <<world, running, saw, history>>

\* Mutant: the mode is read without waiting for the barrier.
VerifyAtOnce(t) ==
  /\ pc[t] = "unknown"
  /\ verifier' = t
  /\ Goto(t, "verifying")
  /\ UNCHANGED <<world, running, switching, cut, session, saw, exit, history>>

\* verifyWriterModeAfterAmbiguousCommit, in a session of its own: the exclusive
\* barrier first, which the lost transaction holds until its end; ...
Verify(t) ==
  /\ pc[t] = "unknown"
  /\ BarrierFree
  /\ verifier' = t
  /\ Goto(t, "verifying")
  /\ UNCHANGED <<world, running, switching, cut, session, saw, exit, history>>

\* ... then the mode; ...
ReadMode(t) ==
  /\ pc[t] = "verifying" /\ verifier = t /\ ~cut
  /\ Goto(t, IF mode = Target[t] THEN "switched" ELSE "unswitched")
  /\ UNCHANGED <<world, running, locks, session, saw, exit, history>>

\* ... and COMMIT, which gives the barrier back.
CommitRead(t) ==
  /\ pc[t] \in {"switched", "unswitched"} /\ verifier = t /\ ~cut
  /\ verifier' = NoTask
  /\ Exit(t, IF pc[t] = "switched" THEN "3" ELSE "4")
  /\ UNCHANGED <<world, running, switching, cut, session, saw, history>>

\* The barrier does not come free in time, or a later statement fails: ROLLBACK, if
\* it reaches the server, and exit 1.
VerifyFails(t) ==
  /\ pc[t] \in {"unknown", "verifying", "switched", "unswitched"}
  /\ Exit(t, "1")
  /\ \/ UNCHANGED verifier
     \/ verifier = t /\ ~cut /\ verifier' = NoTask
  /\ UNCHANGED <<world, running, switching, cut, session, saw, history>>

\* The task is stopped from outside.
Killed(t) ==
  /\ pc[t] # "ended"
  /\ Exit(t, "none")
  /\ UNCHANGED <<world, running, locks, session, saw, history>>

-----------------------------------------------------------------------------
(* The database server.                                                    *)

ServerCommits(t) ==
  /\ session[t] = "committing"
  /\ mode' = Target[t]
  /\ Session(t, "committed") /\ Unlock(t)
  /\ applied' = [applied EXCEPT ![t] = TRUE]
  /\ alone' = [u \in Tasks |-> alone[u] /\ u = t]
  /\ UNCHANGED <<revision, parity, typed, running, pc, saw, exit>>

\* Mutant: no idle_in_transaction_session_timeout.
ServerKeepsOpen(t) ==
  /\ session[t] = "committing"
  /\ Session(t, "aborted") /\ Unlock(t)
  /\ UNCHANGED <<world, running, pc, saw, exit, history>>

\* The server drops the transaction of a client that is gone, or of one that
\* was idle too long; or the COMMIT never reaches it.
ServerAborts(t) ==
  /\ session[t] \in {"open", "committing"}
  /\ Session(t, "aborted") /\ Unlock(t)
  /\ UNCHANGED <<world, running, pc, saw, exit, history>>

\* The network or the machine of the tool is gone without a word to the server.
Disconnected(t) ==
  /\ verifier = t /\ ~cut
  /\ cut' = TRUE
  /\ UNCHANGED <<world, running, switching, verifier, pc, session, saw, exit, history>>

\* The verifying session ends for the server: its client has closed the connection,
\* it was told to, or the answer to its COMMIT is lost.
VerifierEnds(t) ==
  /\ verifier = t
  /\ verifier' = NoTask /\ cut' = FALSE
  /\ UNCHANGED <<world, running, switching, pc, session, saw, exit, history>>

\* A writer holds the shared barrier, or works on tables that are not locked.
StartWriting(w) ==
  /\ w \notin running
  /\ w \in Writers => barrier = NoTask /\ verifier = NoTask
  /\ tables = NoTask
  /\ running' = running \cup {w}
  /\ UNCHANGED <<world, locks, pc, session, saw, exit, history>>

\* It commits: direct SQL may add types in ticket_type mode, and break what the
\* triggers keep.
EndWriting(w) ==
  /\ w \in running
  /\ running' = running \ {w}
  /\ \/ UNCHANGED <<parity, typed>>
     \/ /\ w \in Direct
        /\ parity' \in BOOLEAN
        /\ typed' \in IF mode = "ticket_type" THEN BOOLEAN ELSE {typed, FALSE}
  /\ UNCHANGED <<mode, revision, locks, pc, session, saw, exit, history>>

Migrate ==
  /\ revision < MaxRevision
  /\ revision' = revision + 1
  /\ UNCHANGED <<mode, parity, typed, running, locks, pc, session, saw, exit, history>>

-----------------------------------------------------------------------------
Server(t) == ServerCommits(t) \/ ServerAborts(t)

Task(t) == \/ Preflight(t) \/ Begin(t) \/ GetBarrier(t) \/ LockTables(t)
           \/ CheckAndUpdate(t) \/ CheckAfter(t) \/ SendCommit(t)
           \/ CommitAnswered(t) \/ CommitLost(t) \/ Fail(t)
           \/ Verify(t) \/ ReadMode(t) \/ CommitRead(t) \/ VerifyFails(t)

Next == \/ \E t \in Tasks : \/ Task(t) \/ Killed(t)
                            \/ Server(t) \/ Disconnected(t) \/ VerifierEnds(t)
        \/ \E w \in Writers \cup Direct : StartWriting(w) \/ EndWriting(w)
        \/ Migrate

Spec == Init /\ [][Next]_vars

\* The server ends a switching transaction whose client is gone or silent
\* (idle_in_transaction_session_timeout).  The verifying session has no such timeout:
\* its tool goes on, or ends and its connection is closed, unless that is cut.  No other
\* step of the tool need ever be taken.
FairSpec ==
  /\ Spec
  /\ \A t \in Tasks :
       /\ WF_vars(Server(t))
       /\ WF_vars(verifier = t /\ ~cut /\ (ReadMode(t) \/ CommitRead(t) \/ VerifyFails(t)))
       /\ WF_vars(pc[t] = "ended" /\ ~cut /\ VerifierEnds(t))
-----------------------------------------------------------------------------
(* Properties.                                                             *)

\* The mode changes only with every writer drained and the database in order for
\* the mode it changes to, whatever direct SQL does around the checks.
SwitchIsClean == [][mode' # mode => running = {} /\ Clean(mode')]_vars

\* What an exit code says of the switch is so, and stays so, over lost COMMIT
\* replies: 0 and 3 it took effect, 2 and 4 it did not and never will.  For a
\* verdict read from the mode, no other switch may have come in between since the
\* mode was checked: a task whose session was ended before its COMMIT would take
\* the switch of another for its own.
ExitIsTrue ==
  \A t \in Tasks :
    /\ exit[t] = "0" => applied[t]
    /\ exit[t] = "2" => ~applied[t]
    /\ exit[t] = "3" /\ alone[t] => applied[t]
    /\ exit[t] = "4" /\ alone[t] => ~applied[t]

\* Whatever stops, kills or disconnects the tool, purchases are admitted again and
\* again: both sessions give the barrier and the table locks back.  The exception is
\* a verifying session whose connection is cut: the server may keep it, and with it
\* the barrier, for as long as it has no other reason to look.
Admitting == barrier = NoTask /\ tables = NoTask /\ verifier = NoTask
SalesResume == []<>(Admitting \/ cut)
=============================================================================
