----------------------------- MODULE Cutover_proofs -----------------------------
(***************************************************************************)
(* Theorems about the cutover: the writer-mode switch, and the check that  *)
(* an operator runs before and after it.                                   *)
(*                                                                         *)
(* The switch, for any number of executions of the tool, any targets and   *)
(* any writers: the locks of a session that is still alive keep the        *)
(* database as the checks under them found it (LockInv, Drained, Ready);   *)
(* and a task that does not know what became of its COMMIT finds the       *)
(* barrier free only when its session has ended (Verdict).                 *)
(*                                                                         *)
(* The check, for any Events, types, capacities and size of page: the      *)
(* cursor leaves no row behind (PageInv), so that an end without           *)
(* violations speaks for every key (GreenInv); what a preflight has read   *)
(* of the counters stays true of them whoever uses them meanwhile, up to   *)
(* the switch (SwitchInv) and after it (SoundInv); and in normal operation *)
(* counters and rows agree as a postflight wants them (CalmInv, QuietInv). *)
(***************************************************************************)
EXTENDS WriterModeSwitch, CutoverReadiness, SumTheorems

-----------------------------------------------------------------------------
(* The switch: the inductive invariant.                                    *)

Unsent == {"locking", "draining", "locked", "updated", "checked"}
Sent == {"committing", "unknown"}
Reread == {"verifying", "switched", "unswitched"}
Steps == {"new", "attested", "ended"} \cup Unsent \cup Sent \cup Reread

TypeOK ==
  /\ mode \in Modes /\ revision \in Nat /\ parity \in BOOLEAN /\ typed \in BOOLEAN
  /\ running \subseteq Writers \cup Direct
  /\ barrier \in Tasks \cup {NoTask} /\ tables \in Tasks \cup {NoTask}
  /\ verifier \in Tasks \cup {NoTask} /\ cut \in BOOLEAN
  /\ pc \in [Tasks -> Steps]
  /\ session \in [Tasks -> {"none", "open", "committing", "committed", "aborted"}]
  /\ saw \in [Tasks -> Nat]
  /\ exit \in [Tasks -> {"running", "none", "0", "1", "2", "3", "4"}]
  /\ applied \in [Tasks -> BOOLEAN] /\ alone \in [Tasks -> BOOLEAN]

\* The session of each step: ended early it is "aborted" wherever the task is, and a
\* task may end before its session.
SessionInv(t) ==
  /\ pc[t] \in {"new", "attested"} => session[t] = "none"
  /\ pc[t] \in Unsent => session[t] \in {"open", "aborted"}
  /\ pc[t] \in Sent => session[t] \in {"committing", "committed", "aborted"}
  /\ pc[t] \in Reread => session[t] \in {"committed", "aborted"}
  /\ applied[t] <=> session[t] = "committed"

\* Locks belong to sessions that are alive, and are there when a step relies on them.
LockInv(t) ==
  /\ barrier = t => session[t] \in {"open", "committing"}
  /\ tables = t => barrier = t
  /\ pc[t] \in Unsent \ {"locking"} /\ session[t] = "open" => barrier = t
  /\ pc[t] \in {"locked", "updated", "checked"} /\ session[t] = "open" => tables = t
  /\ session[t] = "committing" => barrier = t /\ tables = t

\* What the locks keep out; the barrier has one holder.
Drained == /\ barrier # NoTask => running \cap Writers = {} /\ verifier = NoTask
           /\ verifier # NoTask => running \cap Writers = {}
           /\ tables # NoTask => running = {}

\* The database is in order for a switch that may take effect.
Ready(t) == session[t] = "committing" \/ (session[t] = "open" /\ pc[t] = "checked")
              => Clean(Target[t])

\* What the mode says of a switch that was alone, and what the exit codes say.
Verdict(t) ==
  /\ pc[t] \in {"updated", "checked", "verifying"} \cup Sent /\ alone[t] =>
       mode = IF applied[t] THEN Target[t] ELSE Source(t)
  /\ pc[t] \in {"switched", "unswitched"} /\ alone[t] => (pc[t] = "switched" <=> applied[t])
  /\ exit[t] # "running" => pc[t] = "ended"
  /\ exit[t] = "0" => applied[t]
  /\ exit[t] = "2" => session[t] = "none"
  /\ exit[t] \in {"3", "4"} => session[t] \in {"committed", "aborted"}
  /\ exit[t] \in {"3", "4"} /\ alone[t] => (exit[t] = "3" <=> applied[t])

TaskInv(t) == SessionInv(t) /\ LockInv(t) /\ Ready(t) /\ Verdict(t)
IInv == TypeOK /\ Drained /\ \A t \in Tasks : TaskInv(t)

-----------------------------------------------------------------------------
(* Types.                                                                  *)

LEMMA TargetTypes ==
  \A t \in Tasks : Target[t] \in Modes /\ Source(t) \in Modes /\ Source(t) # Target[t]
BY TargetAssumption DEF Source, Opposite, Modes

LEMMA TypesKept == TypeOK /\ [Next]_vars => TypeOK'
<1> SUFFICES ASSUME TypeOK, [Next]_vars PROVE TypeOK'
  OBVIOUS
<1> USE DEF TypeOK, Steps, Unsent, Sent, Reread, Goto, Session, Exit, Unlock,
           world, locks, switching, verifying, history
<1>1. ASSUME NEW t \in Tasks, Preflight(t) \/ Begin(t) \/ GetBarrier(t) \/ LockTables(t)
      PROVE  TypeOK'
  BY <1>1 DEF Preflight, Begin, GetBarrier, LockTables
<1>2. ASSUME NEW t \in Tasks, CheckAndUpdate(t) \/ CheckAfter(t) \/ Fail(t)
      PROVE  TypeOK'
  <2>1. UNCHANGED <<world, running, saw, applied>>
    BY <1>2 DEF CheckAndUpdate, CheckAfter, Fail
  <2>2. pc' \in [Tasks -> Steps] /\ exit' \in [Tasks -> {"running", "none", "0", "1", "2", "3", "4"}]
    BY <1>2 DEF CheckAndUpdate, CheckAfter, Fail, Rollback
  <2>3. session' \in [Tasks -> {"none", "open", "committing", "committed", "aborted"}]
    BY <1>2 DEF CheckAndUpdate, CheckAfter, Fail, Rollback
  <2>4. /\ barrier' \in Tasks \cup {NoTask} /\ tables' \in Tasks \cup {NoTask}
        /\ verifier' \in Tasks \cup {NoTask} /\ cut' \in BOOLEAN
    BY <1>2 DEF CheckAndUpdate, CheckAfter, Fail, Rollback
  <2>5. alone' \in [Tasks -> BOOLEAN]
    BY <1>2 DEF CheckAndUpdate, CheckAfter, Fail
  <2> QED BY <2>1, <2>2, <2>3, <2>4, <2>5
<1>3. ASSUME NEW t \in Tasks,
             SendCommit(t) \/ CommitAnswered(t) \/ CommitLost(t) \/ Killed(t)
      PROVE  TypeOK'
  BY <1>3 DEF SendCommit, CommitAnswered, CommitLost, Killed
<1>4. ASSUME NEW t \in Tasks,
             \/ Verify(t) \/ ReadMode(t) \/ CommitRead(t) \/ VerifyFails(t)
             \/ Disconnected(t) \/ VerifierEnds(t)
      PROVE  TypeOK'
  BY <1>4 DEF Verify, ReadMode, CommitRead, VerifyFails, Disconnected, VerifierEnds
<1>5. ASSUME NEW t \in Tasks, Server(t) PROVE TypeOK'
  <2>1. CASE ServerCommits(t)
    <3>1. mode' \in Modes
      BY <2>1, TargetTypes DEF ServerCommits
    <3>2. alone' \in [Tasks -> BOOLEAN] /\ applied' \in [Tasks -> BOOLEAN]
      BY <2>1 DEF ServerCommits
    <3> QED BY <2>1, <3>1, <3>2 DEF ServerCommits
  <2>2. CASE ServerAborts(t)
    BY <2>2 DEF ServerAborts
  <2> QED BY <1>5, <2>1, <2>2 DEF Server
<1>6. ASSUME NEW w \in Writers \cup Direct, StartWriting(w) \/ EndWriting(w) PROVE TypeOK'
  BY <1>6 DEF StartWriting, EndWriting
<1>7. CASE Migrate
  BY <1>7 DEF Migrate
<1>8. CASE UNCHANGED vars
  BY <1>8 DEF vars
<1> QED BY <1>1, <1>2, <1>3, <1>4, <1>5, <1>6, <1>7, <1>8 DEF Next, Task

-----------------------------------------------------------------------------
(* Steps of one task or of its session that leave the database alone.      *)

Untouched(u) ==
  /\ pc'[u] = pc[u] /\ session'[u] = session[u] /\ exit'[u] = exit[u]
  /\ applied'[u] = applied[u] /\ alone'[u] = alone[u]
  /\ (barrier' = u <=> barrier = u) /\ (tables' = u <=> tables = u)

LEMMA OtherTask ==
  ASSUME NEW u \in Tasks, TaskInv(u), Untouched(u), UNCHANGED <<mode, parity, typed>>
  PROVE  TaskInv(u)'
BY DEF Untouched, TaskInv, SessionInv, LockInv, Ready, Verdict, Clean

\* The barrier is given back or left alone, or one session takes it.
BarrierStep ==
  \/ barrier' \in {barrier, NoTask} /\ verifier' \in {verifier, NoTask}
  \/ BarrierFree /\ (barrier' = NoTask \/ verifier' = NoTask)

LEMMA OneTask ==
  ASSUME IInv, TypeOK', NEW t \in Tasks, UNCHANGED <<mode, parity, typed, running>>,
         \A u \in Tasks \ {t} : Untouched(u),
         BarrierStep,
         tables' # NoTask => tables # NoTask \/ running = {},
         TaskInv(t)'
  PROVE  IInv'
<1>1. Drained'
  BY DEF IInv, Drained, BarrierFree, BarrierStep
<1>2. \A u \in Tasks \ {t} : TaskInv(u)'
  BY OtherTask DEF IInv
<1> QED BY <1>1, <1>2 DEF IInv

LEMMA PreflightKeepsInv ==
  ASSUME IInv, NEW t \in Tasks, Preflight(t)
  PROVE  IInv'
<1> USE TasksAssumption DEF Preflight, Exit, Goto, world, locks, switching, verifying,
       history
<1>1. TypeOK'
  BY TypesKept DEF IInv, Next, Task, Server
<1>2. \A u \in Tasks \ {t} : Untouched(u)
  BY DEF IInv, TypeOK, Untouched
<1>3. TypeOK /\ TaskInv(t)
  BY DEF IInv
<1>4. SessionInv(t)'
  BY <1>3 DEF TypeOK, TaskInv, SessionInv, Unsent, Sent, Reread
<1>5. LockInv(t)'
  BY <1>3 DEF TypeOK, TaskInv, SessionInv, LockInv, Unsent, Sent, Reread
<1>6. Ready(t)'
  BY <1>3 DEF TypeOK, TaskInv, SessionInv, Ready, Clean, Unsent, Sent, Reread
<1>7. Verdict(t)'
  BY <1>3, TargetTypes DEF TypeOK, TaskInv, SessionInv, LockInv, Verdict, Unsent, Sent, Reread
<1> QED BY <1>1, <1>2, <1>4, <1>5, <1>6, <1>7, OneTask DEF TaskInv, BarrierStep

LEMMA BeginKeepsInv ==
  ASSUME IInv, NEW t \in Tasks, Begin(t)
  PROVE  IInv'
<1> USE TasksAssumption DEF Begin, Goto, Session, world, locks, switching, verifying,
       history
<1>1. TypeOK'
  BY TypesKept DEF IInv, Next, Task, Server
<1>2. \A u \in Tasks \ {t} : Untouched(u)
  BY DEF IInv, TypeOK, Untouched
<1>3. TypeOK /\ TaskInv(t)
  BY DEF IInv
<1>4. SessionInv(t)'
  BY <1>3 DEF TypeOK, TaskInv, SessionInv, Unsent, Sent, Reread
<1>5. LockInv(t)'
  BY <1>3 DEF TypeOK, TaskInv, SessionInv, LockInv, Unsent, Sent, Reread
<1>6. Ready(t)'
  BY <1>3 DEF TypeOK, TaskInv, SessionInv, Ready, Clean, Unsent, Sent, Reread
<1>7. Verdict(t)'
  BY <1>3, TargetTypes DEF TypeOK, TaskInv, SessionInv, LockInv, Verdict, Unsent, Sent, Reread
<1> QED BY <1>1, <1>2, <1>4, <1>5, <1>6, <1>7, OneTask DEF TaskInv, BarrierStep

LEMMA GetBarrierKeepsInv ==
  ASSUME IInv, NEW t \in Tasks, GetBarrier(t)
  PROVE  IInv'
<1> USE TasksAssumption DEF GetBarrier, BarrierFree, Goto, world, verifying, history
<1>1. TypeOK'
  BY TypesKept DEF IInv, Next, Task, Server
<1>2. \A u \in Tasks \ {t} : Untouched(u)
  BY DEF IInv, TypeOK, Untouched
<1>3. TypeOK /\ TaskInv(t)
  BY DEF IInv
<1>4. SessionInv(t)'
  BY <1>3 DEF TypeOK, TaskInv, SessionInv, Unsent, Sent, Reread
<1>5. LockInv(t)'
  BY <1>3 DEF TypeOK, TaskInv, SessionInv, LockInv, Unsent, Sent, Reread
<1>6. Ready(t)'
  BY <1>3 DEF TypeOK, TaskInv, SessionInv, Ready, Clean, Unsent, Sent, Reread
<1>7. Verdict(t)'
  BY <1>3, TargetTypes DEF TypeOK, TaskInv, SessionInv, LockInv, Verdict, Unsent, Sent, Reread
<1> QED BY <1>1, <1>2, <1>4, <1>5, <1>6, <1>7, OneTask DEF TaskInv, BarrierStep

LEMMA LockTablesKeepsInv ==
  ASSUME IInv, NEW t \in Tasks, LockTables(t)
  PROVE  IInv'
<1> USE TasksAssumption DEF LockTables, Goto, world, verifying, history
<1>1. TypeOK'
  BY TypesKept DEF IInv, Next, Task, Server
<1>2. \A u \in Tasks \ {t} : Untouched(u)
  BY DEF IInv, TypeOK, Untouched
<1>3. TypeOK /\ TaskInv(t)
  BY DEF IInv
<1>4. SessionInv(t)'
  BY <1>3 DEF TypeOK, TaskInv, SessionInv, Unsent, Sent, Reread
<1>5. LockInv(t)'
  BY <1>3 DEF TypeOK, TaskInv, SessionInv, LockInv, Unsent, Sent, Reread
<1>6. Ready(t)'
  BY <1>3 DEF TypeOK, TaskInv, SessionInv, Ready, Clean, Unsent, Sent, Reread
<1>7. Verdict(t)'
  BY <1>3, TargetTypes DEF TypeOK, TaskInv, SessionInv, LockInv, Verdict, Unsent, Sent, Reread
<1>8. running = {}
  BY <1>3 DEF IInv, TypeOK, TaskInv, LockInv, Drained, Unsent
<1> QED BY <1>1, <1>2, <1>4, <1>5, <1>6, <1>7, <1>8, OneTask DEF TaskInv, BarrierStep

LEMMA CheckAndUpdateKeepsInv ==
  ASSUME IInv, NEW t \in Tasks, CheckAndUpdate(t)
  PROVE  IInv'
<1> USE TasksAssumption DEF CheckAndUpdate, Rollback, Exit, Goto, Session, Unlock,
       world, locks, switching, verifying
<1>1. TypeOK'
  BY TypesKept DEF IInv, Next, Task, Server
<1>2. \A u \in Tasks \ {t} : Untouched(u)
  BY DEF IInv, TypeOK, Untouched
<1>3. TypeOK /\ TaskInv(t)
  BY DEF IInv
<1>4. SessionInv(t)'
  BY <1>3 DEF TypeOK, TaskInv, SessionInv, Unsent, Sent, Reread
<1>5. LockInv(t)'
  BY <1>3 DEF TypeOK, TaskInv, SessionInv, LockInv, Unsent, Sent, Reread
<1>6. Ready(t)'
  BY <1>3 DEF TypeOK, TaskInv, SessionInv, Ready, Clean, Unsent, Sent, Reread
<1>7. Verdict(t)'
  BY <1>3, TargetTypes DEF TypeOK, TaskInv, SessionInv, LockInv, Verdict, Unsent, Sent, Reread
<1> QED BY <1>1, <1>2, <1>4, <1>5, <1>6, <1>7, OneTask DEF TaskInv, BarrierStep

LEMMA CheckAfterKeepsInv ==
  ASSUME IInv, NEW t \in Tasks, CheckAfter(t)
  PROVE  IInv'
<1> USE TasksAssumption DEF CheckAfter, Rollback, Exit, Goto, Session, Unlock, world,
       locks, switching, verifying, history
<1>1. TypeOK'
  BY TypesKept DEF IInv, Next, Task, Server
<1>2. \A u \in Tasks \ {t} : Untouched(u)
  BY DEF IInv, TypeOK, Untouched
<1>3. TypeOK /\ TaskInv(t)
  BY DEF IInv
<1>4. SessionInv(t)'
  BY <1>3 DEF TypeOK, TaskInv, SessionInv, Unsent, Sent, Reread
<1>5. LockInv(t)'
  BY <1>3 DEF TypeOK, TaskInv, SessionInv, LockInv, Unsent, Sent, Reread
<1>6. Ready(t)'
  BY <1>3 DEF TypeOK, TaskInv, SessionInv, Ready, Clean, Unsent, Sent, Reread
<1>7. Verdict(t)'
  BY <1>3, TargetTypes DEF TypeOK, TaskInv, SessionInv, LockInv, Verdict, Unsent, Sent, Reread
<1> QED BY <1>1, <1>2, <1>4, <1>5, <1>6, <1>7, OneTask DEF TaskInv, BarrierStep

LEMMA SendCommitKeepsInv ==
  ASSUME IInv, NEW t \in Tasks, SendCommit(t)
  PROVE  IInv'
<1> USE TasksAssumption DEF SendCommit, Goto, Session, world, locks, switching,
       verifying, history
<1>1. TypeOK'
  BY TypesKept DEF IInv, Next, Task, Server
<1>2. \A u \in Tasks \ {t} : Untouched(u)
  BY DEF IInv, TypeOK, Untouched
<1>3. TypeOK /\ TaskInv(t)
  BY DEF IInv
<1>4. SessionInv(t)'
  BY <1>3 DEF TypeOK, TaskInv, SessionInv, Unsent, Sent, Reread
<1>5. LockInv(t)'
  BY <1>3 DEF TypeOK, TaskInv, SessionInv, LockInv, Unsent, Sent, Reread
<1>6. Ready(t)'
  BY <1>3 DEF TypeOK, TaskInv, SessionInv, Ready, Clean, Unsent, Sent, Reread
<1>7. Verdict(t)'
  BY <1>3, TargetTypes DEF TypeOK, TaskInv, SessionInv, LockInv, Verdict, Unsent, Sent, Reread
<1> QED BY <1>1, <1>2, <1>4, <1>5, <1>6, <1>7, OneTask DEF TaskInv, BarrierStep

LEMMA CommitAnsweredKeepsInv ==
  ASSUME IInv, NEW t \in Tasks, CommitAnswered(t)
  PROVE  IInv'
<1> USE TasksAssumption DEF CommitAnswered, Exit, Goto, world, locks, switching,
       verifying, history
<1>1. TypeOK'
  BY TypesKept DEF IInv, Next, Task, Server
<1>2. \A u \in Tasks \ {t} : Untouched(u)
  BY DEF IInv, TypeOK, Untouched
<1>3. TypeOK /\ TaskInv(t)
  BY DEF IInv
<1>4. SessionInv(t)'
  BY <1>3 DEF TypeOK, TaskInv, SessionInv, Unsent, Sent, Reread
<1>5. LockInv(t)'
  BY <1>3 DEF TypeOK, TaskInv, SessionInv, LockInv, Unsent, Sent, Reread
<1>6. Ready(t)'
  BY <1>3 DEF TypeOK, TaskInv, SessionInv, Ready, Clean, Unsent, Sent, Reread
<1>7. Verdict(t)'
  BY <1>3, TargetTypes DEF TypeOK, TaskInv, SessionInv, LockInv, Verdict, Unsent, Sent, Reread
<1> QED BY <1>1, <1>2, <1>4, <1>5, <1>6, <1>7, OneTask DEF TaskInv, BarrierStep

LEMMA CommitLostKeepsInv ==
  ASSUME IInv, NEW t \in Tasks, CommitLost(t)
  PROVE  IInv'
<1> USE TasksAssumption DEF CommitLost, Goto, world, locks, switching, verifying, history
<1>1. TypeOK'
  BY TypesKept DEF IInv, Next, Task, Server
<1>2. \A u \in Tasks \ {t} : Untouched(u)
  BY DEF IInv, TypeOK, Untouched
<1>3. TypeOK /\ TaskInv(t)
  BY DEF IInv
<1>4. SessionInv(t)'
  BY <1>3 DEF TypeOK, TaskInv, SessionInv, Unsent, Sent, Reread
<1>5. LockInv(t)'
  BY <1>3 DEF TypeOK, TaskInv, SessionInv, LockInv, Unsent, Sent, Reread
<1>6. Ready(t)'
  BY <1>3 DEF TypeOK, TaskInv, SessionInv, Ready, Clean, Unsent, Sent, Reread
<1>7. Verdict(t)'
  BY <1>3, TargetTypes DEF TypeOK, TaskInv, SessionInv, LockInv, Verdict, Unsent, Sent, Reread
<1> QED BY <1>1, <1>2, <1>4, <1>5, <1>6, <1>7, OneTask DEF TaskInv, BarrierStep

LEMMA FailKeepsInv ==
  ASSUME IInv, NEW t \in Tasks, Fail(t)
  PROVE  IInv'
<1> USE TasksAssumption DEF Fail, Rollback, Exit, Goto, Session, Unlock, world, locks,
       switching, verifying, history
<1>1. TypeOK'
  BY TypesKept DEF IInv, Next, Task, Server
<1>2. \A u \in Tasks \ {t} : Untouched(u)
  BY DEF IInv, TypeOK, Untouched
<1>3. TypeOK /\ TaskInv(t)
  BY DEF IInv
<1>4. SessionInv(t)'
  BY <1>3 DEF TypeOK, TaskInv, SessionInv, Unsent, Sent, Reread
<1>5. LockInv(t)'
  BY <1>3 DEF TypeOK, TaskInv, SessionInv, LockInv, Unsent, Sent, Reread
<1>6. Ready(t)'
  BY <1>3 DEF TypeOK, TaskInv, SessionInv, Ready, Clean, Unsent, Sent, Reread
<1>7. Verdict(t)'
  BY <1>3, TargetTypes DEF TypeOK, TaskInv, SessionInv, LockInv, Verdict, Unsent, Sent, Reread
<1> QED BY <1>1, <1>2, <1>4, <1>5, <1>6, <1>7, OneTask DEF TaskInv, BarrierStep

LEMMA VerifyKeepsInv ==
  ASSUME IInv, NEW t \in Tasks, Verify(t)
  PROVE  IInv'
<1> USE TasksAssumption DEF Verify, BarrierFree, Goto, world, switching, history
<1>1. TypeOK'
  BY TypesKept DEF IInv, Next, Task, Server
<1>2. \A u \in Tasks \ {t} : Untouched(u)
  BY DEF IInv, TypeOK, Untouched
<1>3. TypeOK /\ TaskInv(t)
  BY DEF IInv
<1>4. SessionInv(t)'
  <2>1. session[t] # "committing"
    BY <1>3 DEF TaskInv, LockInv
  <2> QED BY <1>3, <2>1 DEF TypeOK, TaskInv, SessionInv, Unsent, Sent, Reread
<1>5. LockInv(t)'
  BY <1>3 DEF TypeOK, TaskInv, SessionInv, LockInv, Unsent, Sent, Reread
<1>6. Ready(t)'
  BY <1>3 DEF TypeOK, TaskInv, SessionInv, Ready, Clean, Unsent, Sent, Reread
<1>7. Verdict(t)'
  BY <1>3, TargetTypes DEF TypeOK, TaskInv, SessionInv, LockInv, Verdict, Unsent, Sent, Reread
<1> QED BY <1>1, <1>2, <1>4, <1>5, <1>6, <1>7, OneTask DEF TaskInv, BarrierStep

LEMMA ReadModeKeepsInv ==
  ASSUME IInv, NEW t \in Tasks, ReadMode(t)
  PROVE  IInv'
<1> USE TasksAssumption DEF ReadMode, Goto, world, locks, switching, verifying, history
<1>1. TypeOK'
  BY TypesKept DEF IInv, Next, Task, Server
<1>2. \A u \in Tasks \ {t} : Untouched(u)
  BY DEF IInv, TypeOK, Untouched
<1>3. TypeOK /\ TaskInv(t)
  BY DEF IInv
<1>4. SessionInv(t)'
  BY <1>3 DEF TypeOK, TaskInv, SessionInv, Unsent, Sent, Reread
<1>5. LockInv(t)'
  BY <1>3 DEF TypeOK, TaskInv, SessionInv, LockInv, Unsent, Sent, Reread
<1>6. Ready(t)'
  BY <1>3 DEF TypeOK, TaskInv, SessionInv, Ready, Clean, Unsent, Sent, Reread
<1>7. Verdict(t)'
  BY <1>3, TargetTypes DEF TypeOK, TaskInv, SessionInv, LockInv, Verdict, Unsent, Sent, Reread
<1> QED BY <1>1, <1>2, <1>4, <1>5, <1>6, <1>7, OneTask DEF TaskInv, BarrierStep

LEMMA CommitReadKeepsInv ==
  ASSUME IInv, NEW t \in Tasks, CommitRead(t)
  PROVE  IInv'
<1> USE TasksAssumption DEF CommitRead, Exit, Goto, world, switching, history
<1>1. TypeOK'
  BY TypesKept DEF IInv, Next, Task, Server
<1>2. \A u \in Tasks \ {t} : Untouched(u)
  BY DEF IInv, TypeOK, Untouched
<1>3. TypeOK /\ TaskInv(t)
  BY DEF IInv
<1>4. SessionInv(t)'
  BY <1>3 DEF TypeOK, TaskInv, SessionInv, Unsent, Sent, Reread
<1>5. LockInv(t)'
  BY <1>3 DEF TypeOK, TaskInv, SessionInv, LockInv, Unsent, Sent, Reread
<1>6. Ready(t)'
  BY <1>3 DEF TypeOK, TaskInv, SessionInv, Ready, Clean, Unsent, Sent, Reread
<1>7. Verdict(t)'
  BY <1>3, TargetTypes DEF TypeOK, TaskInv, SessionInv, LockInv, Verdict, Unsent, Sent, Reread
<1> QED BY <1>1, <1>2, <1>4, <1>5, <1>6, <1>7, OneTask DEF TaskInv, BarrierStep

LEMMA VerifyFailsKeepsInv ==
  ASSUME IInv, NEW t \in Tasks, VerifyFails(t)
  PROVE  IInv'
<1> USE TasksAssumption DEF VerifyFails, Exit, Goto, world, switching, history
<1>1. TypeOK'
  BY TypesKept DEF IInv, Next, Task, Server
<1>2. \A u \in Tasks \ {t} : Untouched(u)
  BY DEF IInv, TypeOK, Untouched
<1>3. TypeOK /\ TaskInv(t)
  BY DEF IInv
<1>4. SessionInv(t)'
  BY <1>3 DEF TypeOK, TaskInv, SessionInv, Unsent, Sent, Reread
<1>5. LockInv(t)'
  BY <1>3 DEF TypeOK, TaskInv, SessionInv, LockInv, Unsent, Sent, Reread
<1>6. Ready(t)'
  BY <1>3 DEF TypeOK, TaskInv, SessionInv, Ready, Clean, Unsent, Sent, Reread
<1>7. Verdict(t)'
  BY <1>3, TargetTypes DEF TypeOK, TaskInv, SessionInv, LockInv, Verdict, Unsent, Sent, Reread
<1> QED BY <1>1, <1>2, <1>4, <1>5, <1>6, <1>7, OneTask DEF TaskInv, BarrierStep

LEMMA KilledKeepsInv ==
  ASSUME IInv, NEW t \in Tasks, Killed(t)
  PROVE  IInv'
<1> USE TasksAssumption DEF Killed, Exit, Goto, world, locks, switching, verifying, history
<1>1. TypeOK'
  BY TypesKept DEF IInv, Next, Task, Server
<1>2. \A u \in Tasks \ {t} : Untouched(u)
  BY DEF IInv, TypeOK, Untouched
<1>3. TypeOK /\ TaskInv(t)
  BY DEF IInv
<1>4. SessionInv(t)'
  BY <1>3 DEF TypeOK, TaskInv, SessionInv, Unsent, Sent, Reread
<1>5. LockInv(t)'
  BY <1>3 DEF TypeOK, TaskInv, SessionInv, LockInv, Unsent, Sent, Reread
<1>6. Ready(t)'
  BY <1>3 DEF TypeOK, TaskInv, SessionInv, Ready, Clean, Unsent, Sent, Reread
<1>7. Verdict(t)'
  BY <1>3, TargetTypes DEF TypeOK, TaskInv, SessionInv, LockInv, Verdict, Unsent, Sent, Reread
<1> QED BY <1>1, <1>2, <1>4, <1>5, <1>6, <1>7, OneTask DEF TaskInv, BarrierStep

LEMMA ServerAbortsKeepsInv ==
  ASSUME IInv, NEW t \in Tasks, ServerAborts(t)
  PROVE  IInv'
<1> USE TasksAssumption DEF ServerAborts, Session, Unlock, world, verifying, history
<1>1. TypeOK'
  BY TypesKept DEF IInv, Next, Task, Server
<1>2. \A u \in Tasks \ {t} : Untouched(u)
  BY DEF IInv, TypeOK, Untouched
<1>3. TypeOK /\ TaskInv(t)
  BY DEF IInv
<1>4. SessionInv(t)'
  BY <1>3 DEF TypeOK, TaskInv, SessionInv, Unsent, Sent, Reread
<1>5. LockInv(t)'
  BY <1>3 DEF TypeOK, TaskInv, SessionInv, LockInv, Unsent, Sent, Reread
<1>6. Ready(t)'
  BY <1>3 DEF TypeOK, TaskInv, SessionInv, Ready, Clean, Unsent, Sent, Reread
<1>7. Verdict(t)'
  BY <1>3, TargetTypes DEF TypeOK, TaskInv, SessionInv, LockInv, Verdict, Unsent, Sent, Reread
<1> QED BY <1>1, <1>2, <1>4, <1>5, <1>6, <1>7, OneTask DEF TaskInv, BarrierStep

\* Steps of the verifying session leave the tasks alone.
LEMMA VerifierKeepsInv ==
  ASSUME IInv, NEW t \in Tasks, Disconnected(t) \/ VerifierEnds(t)
  PROVE  IInv'
<1>1. TypeOK'
  BY TypesKept DEF IInv, Next
<1>2. /\ UNCHANGED <<mode, parity, typed, running, barrier, tables, pc, session, exit, history>>
      /\ verifier' \in {verifier, NoTask}
  BY DEF Disconnected, VerifierEnds, world, switching
<1>3. \A u \in Tasks : Untouched(u)
  BY <1>2 DEF Untouched, history
<1>4. Drained'
  BY <1>2 DEF IInv, Drained
<1> QED BY <1>1, <1>2, <1>3, <1>4, OtherTask DEF IInv

-----------------------------------------------------------------------------
(* Steps that change the database.                                         *)

LEMMA ServerCommitsKeepsInv ==
  ASSUME IInv, NEW t \in Tasks, ServerCommits(t)
  PROVE  IInv'
<1>1. TypeOK'
  BY TypesKept DEF IInv, Next, Server
<1>2. /\ mode' = Target[t] /\ UNCHANGED <<parity, typed, running, pc, exit>>
      /\ session[t] = "committing" /\ session'[t] = "committed" /\ applied'[t]
      /\ alone'[t] = alone[t]
      /\ \A u \in Tasks \ {t} : /\ session'[u] = session[u] /\ applied'[u] = applied[u]
                                /\ ~alone'[u]
  BY DEF ServerCommits, Session, IInv, TypeOK
<1>3. /\ barrier = t /\ tables = t /\ barrier' = NoTask /\ tables' = NoTask
      /\ verifier' = verifier
  BY <1>2 DEF ServerCommits, Unlock, verifying, IInv, TaskInv, LockInv
<1>4. Drained'
  BY <1>2, <1>3, TasksAssumption DEF Drained, IInv
<1>5. ASSUME NEW u \in Tasks \ {t} PROVE TaskInv(u)'
  <2>1. TaskInv(u)
    BY DEF IInv
  <2>2. SessionInv(u)' /\ LockInv(u)'
    BY <1>2, <1>3, <2>1, TasksAssumption DEF TaskInv, SessionInv, LockInv
  <2>3. Ready(u)'
    BY <1>2, <2>1 DEF TaskInv, Ready, Clean
  <2>4. Verdict(u)'
    BY <1>2, <2>1 DEF TaskInv, Verdict
  <2> QED BY <2>2, <2>3, <2>4 DEF TaskInv
<1>6. TaskInv(t)'
  <2>1. TaskInv(t)
    BY DEF IInv
  <2>2. SessionInv(t)' /\ LockInv(t)'
    BY <1>2, <1>3, <2>1, TasksAssumption DEF TaskInv, SessionInv, LockInv, Unsent, Sent, Reread
  <2>3. Ready(t)'
    BY <1>2 DEF Ready
  <2>4. Verdict(t)'
    BY <1>2, <2>1 DEF TaskInv, SessionInv, Verdict, Reread
  <2> QED BY <2>2, <2>3, <2>4 DEF TaskInv
<1> QED BY <1>1, <1>4, <1>5, <1>6 DEF IInv

\* While a session may commit, its locks keep the writers out.
LEMMA NobodyWrites ==
  ASSUME IInv, NEW t \in Tasks,
         session[t] = "committing" \/ (session[t] = "open" /\ pc[t] = "checked")
  PROVE  running = {} /\ tables # NoTask
BY TasksAssumption DEF IInv, TaskInv, LockInv, Drained, Unsent

LEMMA WriterKeepsInv ==
  ASSUME IInv, NEW w \in Writers \cup Direct, StartWriting(w) \/ EndWriting(w)
  PROVE  IInv'
<1>1. TypeOK'
  BY TypesKept DEF IInv, Next
<1>2. UNCHANGED <<mode, locks, pc, session, exit, history>>
  BY DEF StartWriting, EndWriting, world
<1>3. Drained'
  <2>1. CASE StartWriting(w)
    BY <2>1, WritersAssumption DEF StartWriting, locks, switching, verifying, IInv, Drained
  <2>2. CASE EndWriting(w)
    BY <2>2 DEF EndWriting, locks, switching, verifying, IInv, Drained
  <2> QED BY <2>1, <2>2
<1>4. ASSUME NEW t \in Tasks PROVE TaskInv(t)'
  <2>1. TaskInv(t)
    BY DEF IInv
  <2>2. SessionInv(t)' /\ LockInv(t)' /\ Verdict(t)'
    BY <1>2, <2>1 DEF TaskInv, SessionInv, LockInv, Verdict, locks, switching, history
  <2>3. Ready(t)'
    <3>1. CASE StartWriting(w)
      BY <1>2, <2>1, <3>1 DEF StartWriting, world, TaskInv, Ready, Clean
    <3>2. CASE EndWriting(w)
      BY <1>2, <3>2, NobodyWrites DEF EndWriting, Ready
    <3> QED BY <3>1, <3>2
  <2> QED BY <2>2, <2>3 DEF TaskInv
<1> QED BY <1>1, <1>3, <1>4 DEF IInv

LEMMA NothingHappened ==
  ASSUME IInv, [Next]_vars,
         UNCHANGED <<mode, parity, typed, running, locks, pc, session, exit, history>>
  PROVE  IInv'
<1>1. TypeOK'
  BY TypesKept DEF IInv
<1>2. \A t \in Tasks : Untouched(t)
  BY DEF Untouched, locks, switching, verifying, history
<1>3. Drained'
  BY DEF IInv, Drained, locks, switching, verifying
<1> QED BY <1>1, <1>2, <1>3, OtherTask DEF IInv

-----------------------------------------------------------------------------
LEMMA InitInv == Init => IInv
<1> SUFFICES ASSUME Init PROVE IInv
  OBVIOUS
<1>1. TypeOK
  BY DEF Init, TypeOK, Steps
<1>2. Drained
  BY DEF Init, Drained
<1>3. \A t \in Tasks : TaskInv(t)
  BY TasksAssumption
     DEF Init, TaskInv, SessionInv, LockInv, Ready, Verdict, Unsent, Sent, Reread
<1> QED BY <1>1, <1>2, <1>3 DEF IInv

LEMMA NextInv == IInv /\ [Next]_vars => IInv'
<1> SUFFICES ASSUME IInv, [Next]_vars PROVE IInv'
  OBVIOUS
<1>1. ASSUME NEW t \in Tasks, Task(t) \/ Killed(t) PROVE IInv'
  BY <1>1, PreflightKeepsInv, BeginKeepsInv, GetBarrierKeepsInv, LockTablesKeepsInv,
     CheckAndUpdateKeepsInv, CheckAfterKeepsInv, SendCommitKeepsInv, CommitAnsweredKeepsInv,
     CommitLostKeepsInv, FailKeepsInv, VerifyKeepsInv, ReadModeKeepsInv, CommitReadKeepsInv,
     VerifyFailsKeepsInv, KilledKeepsInv
     DEF Task
<1>2. ASSUME NEW t \in Tasks, Server(t) \/ Disconnected(t) \/ VerifierEnds(t) PROVE IInv'
  BY <1>2, ServerCommitsKeepsInv, ServerAbortsKeepsInv, VerifierKeepsInv DEF Server
<1>3. ASSUME NEW w \in Writers \cup Direct, StartWriting(w) \/ EndWriting(w) PROVE IInv'
  BY <1>3, WriterKeepsInv
<1>4. CASE Migrate \/ UNCHANGED vars
  BY <1>4, NothingHappened DEF Migrate, vars, world
<1> QED BY <1>1, <1>2, <1>3, <1>4 DEF Next

(* What a task believes of its session, the locks that session holds and   *)
(* the writers they keep out agree in every reachable state.               *)
THEOREM SwitchInvariant == Spec => []IInv
BY InitInv, NextInv, PTL DEF Spec

(* Whatever becomes of the COMMIT, of its reply, of the session and of the *)
(* tool, an exit code says the truth about the switch, and stays true: for *)
(* any number of switches in any direction.                                *)
THEOREM ExitStaysTrue == Spec => []ExitIsTrue
<1>1. IInv => ExitIsTrue
  <2> SUFFICES ASSUME IInv, NEW t \in Tasks
               PROVE  /\ exit[t] = "0" => applied[t]
                      /\ exit[t] = "2" => ~applied[t]
                      /\ exit[t] = "3" /\ alone[t] => applied[t]
                      /\ exit[t] = "4" /\ alone[t] => ~applied[t]
    BY DEF ExitIsTrue
  <2>1. SessionInv(t) /\ Verdict(t)
    BY DEF IInv, TaskInv
  <2> QED BY <2>1 DEF SessionInv, Verdict
<1> QED BY <1>1, SwitchInvariant, PTL

(* The mode changes only while every writer is drained, and only to a mode *)
(* the database is in order for: the locks are held from before the checks *)
(* until the COMMIT takes effect.                                          *)
THEOREM EverySwitchIsClean == Spec => SwitchIsClean
<1> DEFINE CleanSwitch == mode' # mode => running = {} /\ Clean(mode')
<1>1. IInv /\ [Next]_vars => [CleanSwitch]_vars
  <2> SUFFICES ASSUME IInv, Next, mode' # mode PROVE running = {} /\ Clean(mode')
    OBVIOUS
  <2>1. PICK t \in Tasks : ServerCommits(t)
    BY DEF Next, Task, Server, Preflight, Begin, GetBarrier, LockTables, CheckAndUpdate,
       CheckAfter, SendCommit, CommitAnswered, CommitLost, Fail, Verify, ReadMode, CommitRead,
       VerifyFails, Killed, ServerAborts, Disconnected, VerifierEnds, StartWriting, EndWriting,
       Migrate, world
  <2>2. session[t] = "committing" /\ mode' = Target[t]
    BY <2>1 DEF ServerCommits
  <2>3. running = {} /\ Ready(t)
    BY <2>2, NobodyWrites DEF IInv, TaskInv
  <2> QED BY <2>2, <2>3 DEF Ready
<1>2. [][CleanSwitch]_vars <=> SwitchIsClean
  BY DEF SwitchIsClean
<1> QED BY <1>1, <1>2, SwitchInvariant, PTL DEF Spec

-----------------------------------------------------------------------------
(* The check: keys and tables.                                             *)

Rows == [total: Nat, remaining: Nat]
RowsOn(S) == UNION {[D -> Rows] : D \in SUBSET S}

TablesType ==
  [mode: WriterModes \cup {"none"}, events: SUBSET Events, types: SUBSET Types,
   defaults: SUBSET Defaults, stock: RowsOn(Types), legacy: RowsOn(Events),
   orders: SUBSET [event: Events, type: Types \cup {NoType}], bridge: BOOLEAN]

\* Tables, of Events that have been created.
IsTables(d) ==
  /\ d \in TablesType
  /\ DOMAIN d.legacy \subseteq d.events
  /\ \A y \in DOMAIN d.stock \cup d.types \cup d.defaults : Home[y] \in d.events

\* The tables are in order: what a check wants of them, put positively.
Orderly(d) ==
  /\ d.mode \in WriterModes /\ d.bridge
  /\ DOMAIN d.legacy = d.events /\ DOMAIN d.stock = d.types
  /\ \A e \in d.events : First(e) \in d.defaults \cap d.types
  /\ \A e \in d.events : d.legacy[e] = Sums(d, e)
  /\ \A o \in d.orders : o.type \in d.types /\ Home[o.type] = o.event
  /\ d.mode = "legacy" => d.types \subseteq Defaults

LEMMA KeyFacts ==
  /\ \A y \in Types : /\ TypeKey(y) \in TypeKeys /\ TypeKey(y) \notin EventKeys
                      /\ TypeKey(y) \in Keys /\ TypeKey(y)[1] = "type" /\ TypeKey(y)[2] = y
  /\ \A e \in Events : /\ EventKey(e) \in EventKeys /\ EventKey(e) \notin TypeKeys
                       /\ EventKey(e) \in Keys /\ EventKey(e)[1] = "event" /\ EventKey(e)[2] = e
  /\ \A k \in TypeKeys : k[2] \in Types /\ k = TypeKey(k[2])
  /\ \A k \in EventKeys : k[2] \in Events /\ k = EventKey(k[2])
  /\ Keys = TypeKeys \cup EventKeys /\ TypeKeys \cap EventKeys = {} /\ NoKey \notin Keys
BY DEF TypeKey, EventKey, TypeKeys, EventKeys, Keys, NoKey

LEMMA RowsOnMeans ==
  ASSUME NEW S, NEW f
  PROVE  f \in RowsOn(S) <=> DOMAIN f \subseteq S /\ f \in [DOMAIN f -> Rows]
BY DEF RowsOn

\* The default type of an Event, the only one.
LEMMA FirstFacts ==
  ASSUME NEW e \in Events
  PROVE  /\ First(e) \in Defaults /\ First(e) \in Types /\ Home[First(e)] = e
         /\ \A y \in Defaults : Home[y] = e => y = First(e)
<1>1. PICK y \in Defaults : \A z \in Defaults : Home[z] = e <=> z = y
  BY DefaultsAssumption
<1>2. First(e) \in Defaults /\ Home[First(e)] = e
  BY <1>1 DEF First
<1> QED BY <1>1, <1>2, HomeAssumption

LEMMA HomeFacts ==
  \A y \in Types : Home[y] \in Events /\ (y \in Defaults => First(Home[y]) = y)
BY FirstFacts, HomeAssumption

LEMMA KeysOfTables ==
  ASSUME NEW d, d \in TablesType
  PROVE  /\ KeysOf(d) \subseteq Keys
         /\ \A y \in Types : TypeKey(y) \in KeysOf(d) <=> y \in DOMAIN d.stock
         /\ \A e \in Events : EventKey(e) \in KeysOf(d) <=> e \in DOMAIN d.legacy
         /\ \A y \in Types : Row(d, TypeKey(y)) = d.stock[y]
         /\ \A e \in Events : Row(d, EventKey(e)) = d.legacy[e]
         /\ \A k \in KeysOf(d) : Row(d, k) \in Rows
<1>1. DOMAIN d.stock \subseteq Types /\ DOMAIN d.legacy \subseteq Events
  BY RowsOnMeans DEF TablesType
<1>2. /\ \A y \in DOMAIN d.stock : d.stock[y] \in Rows
      /\ \A y \in DOMAIN d.legacy : d.legacy[y] \in Rows
  BY RowsOnMeans DEF TablesType
<1> QED BY <1>1, <1>2 DEF KeysOf, Keys, TypeKeys, EventKeys, TypeKey, EventKey, Row

-----------------------------------------------------------------------------
(* Sums over the types of an Event.                                        *)

LEMMA StockFacts ==
  ASSUME NEW d, d \in TablesType, NEW e
  PROVE  /\ StockOf(d, e) \subseteq DOMAIN d.stock /\ IsFiniteSet(StockOf(d, e))
         /\ [y \in StockOf(d, e) |-> d.stock[y].total] \in [StockOf(d, e) -> Nat]
         /\ [y \in StockOf(d, e) |-> d.stock[y].remaining] \in [StockOf(d, e) -> Nat]
         /\ Sums(d, e) \in Rows
<1>1. DOMAIN d.stock \subseteq Types /\ \A y \in DOMAIN d.stock : d.stock[y] \in Rows
  BY RowsOnMeans DEF TablesType
<1>2. StockOf(d, e) \subseteq DOMAIN d.stock
  BY DEF StockOf
<1>3. IsFiniteSet(StockOf(d, e))
  BY <1>1, <1>2, FiniteAssumption, FS_Subset
<1>4. /\ [y \in StockOf(d, e) |-> d.stock[y].total] \in [StockOf(d, e) -> Nat]
      /\ [y \in StockOf(d, e) |-> d.stock[y].remaining] \in [StockOf(d, e) -> Nat]
  BY <1>1, <1>2 DEF Rows
<1> DEFINE T == StockOf(d, e)
           f == [y \in StockOf(d, e) |-> d.stock[y].total]
           g == [y \in StockOf(d, e) |-> d.stock[y].remaining]
<1>5. SumFunction(f) \in Nat /\ SumFunction(g) \in Nat
  <2> HIDE DEF f, g
  <2> QED BY <1>3, <1>4, SumTakeOut DEF f, g
<1> QED BY <1>2, <1>3, <1>4, <1>5 DEF Sums, Rows

\* What an Event's types have left depends on their rows alone.
LEMMA SameSums ==
  ASSUME NEW d, NEW s, NEW e, StockOf(s, e) = StockOf(d, e),
         \A y \in StockOf(d, e) : s.stock[y] = d.stock[y]
  PROVE  Sums(s, e) = Sums(d, e)
<1>1. /\ [y \in StockOf(s, e) |-> s.stock[y].total] = [y \in StockOf(d, e) |-> d.stock[y].total]
      /\ [y \in StockOf(s, e) |-> s.stock[y].remaining]
           = [y \in StockOf(d, e) |-> d.stock[y].remaining]
  OBVIOUS
<1> QED BY <1>1 DEF Sums

\* An Event with one type has its row.
LEMMA SumsOfOne ==
  ASSUME NEW d, NEW e, NEW y, StockOf(d, e) = {y}, d.stock[y] \in Rows
  PROVE  Sums(d, e) = d.stock[y]
<1>1. /\ [z \in StockOf(d, e) |-> d.stock[z].total] = [x \in {y} |-> d.stock[y].total]
      /\ [z \in StockOf(d, e) |-> d.stock[z].remaining] = [x \in {y} |-> d.stock[y].remaining]
  OBVIOUS
<1>2. /\ SumFunction([x \in {y} |-> d.stock[y].total]) = d.stock[y].total
      /\ SumFunction([x \in {y} |-> d.stock[y].remaining]) = d.stock[y].remaining
  BY SumSingleton DEF Rows
<1>3. Sums(d, e) = [total |-> d.stock[y].total, remaining |-> d.stock[y].remaining]
  BY <1>1, <1>2 DEF Sums
<1> QED BY <1>3 DEF Rows

\* One ticket less of one type is one less in the sum.
LEMMA SumsOfSale ==
  ASSUME NEW d, d \in TablesType, NEW s, s \in TablesType, NEW e, NEW y \in StockOf(d, e),
         StockOf(s, e) = StockOf(d, e), \A z \in StockOf(d, e) \ {y} : s.stock[z] = d.stock[z],
         d.stock[y].remaining > 0,
         s.stock[y] = [d.stock[y] EXCEPT !.remaining = @ - 1]
  PROVE  Sums(s, e) = [Sums(d, e) EXCEPT !.remaining = @ - 1] /\ Sums(d, e).remaining > 0
<1> DEFINE T == StockOf(d, e)
           f == [z \in T |-> d.stock[z].remaining]
           g == [z \in T |-> s.stock[z].remaining]
           ft == [z \in T |-> d.stock[z].total]
           gt == [z \in T |-> s.stock[z].total]
<1>1. d.stock[y] \in Rows /\ s.stock[y] \in Rows
  BY StockFacts, RowsOnMeans DEF TablesType
<1>2. ft = gt
  BY <1>1 DEF Rows
<1>3. f \in [T -> Nat] /\ g \in [T -> Nat] /\ IsFiniteSet(T)
  BY StockFacts
<1>4. [z \in T \ {y} |-> f[z]] = [z \in T \ {y} |-> g[z]]
  OBVIOUS
<1>5. g[y] = f[y] - 1 /\ f[y] > 0
  BY <1>1 DEF Rows
<1>6. SumFunction(g) = SumFunction(f) - 1 /\ SumFunction(f) > 0 /\ SumFunction(f) \in Nat
  <2> DEFINE rest == SumFunction([z \in T \ {y} |-> f[z]])
  <2>1. SumFunction(f) = f[y] + rest /\ SumFunction(g) = g[y] + rest
    <3> HIDE DEF f, g, T
    <3>1. y \in T
      BY DEF T
    <3>2. ASSUME NEW h \in [T -> Nat]
          PROVE  SumFunction(h) = h[y] + SumFunction([z \in T \ {y} |-> h[z]])
      BY <1>3, <3>1, SumTakeOut
    <3>3. /\ SumFunction(f) = f[y] + SumFunction([z \in T \ {y} |-> f[z]])
          /\ SumFunction(g) = g[y] + SumFunction([z \in T \ {y} |-> g[z]])
      BY <1>3, <3>2
    <3> QED BY <1>4, <3>3
  <2>2. SumFunction(f) \in Nat /\ SumFunction(g) \in Nat
    <3> HIDE DEF f, g, T
    <3> QED BY <1>3, SumTakeOut
  <2>3. rest \in Nat
    <3> DEFINE h == [z \in T \ {y} |-> f[z]]
    <3>1. h \in [T \ {y} -> Nat] /\ IsFiniteSet(T \ {y})
      BY <1>3, FS_Subset
    <3> HIDE DEF h
    <3>2. SumFunction(h) \in Nat
      BY <3>1, SumTakeOut
    <3> QED BY <3>2 DEF h
  <2>4. f[y] \in Nat /\ g[y] \in Nat
    BY <1>3
  <2> HIDE DEF rest, f, g
  <2> QED BY <1>5, <2>1, <2>2, <2>3, <2>4
<1>7. /\ Sums(d, e) = [total |-> SumFunction(ft), remaining |-> SumFunction(f)]
      /\ Sums(s, e) = [total |-> SumFunction(gt), remaining |-> SumFunction(g)]
  BY DEF Sums
<1> HIDE DEF f, g, ft, gt
<1> QED BY <1>2, <1>6, <1>7

-----------------------------------------------------------------------------
(* The categories of the check.                                            *)

LEMMA NoViolation ==
  ASSUME NEW d, NEW m
  PROVE  DatabaseViolations(d, m) = {} <=>
           /\ ~WithoutOneDefault(d) /\ ~WithoutEventRow(d) /\ ~WithoutDefaultStock(d)
           /\ ~StockWithoutType(d) /\ ~TypeWithoutStock(d)
           /\ ~OrderWithoutType(d) /\ ~OrderOfOtherEvent(d)
           /\ ~TotalMismatch(d) /\ ~RemainingMismatch(d) /\ ~NonDefaultStock(d, m)
           /\ ~ControlInvalid(d) /\ ~ControlMismatch(d, m) /\ ~CompatibilityBroken(d)
BY DEF DatabaseViolations

\* The defaults of an Event that is in order.
LEMMA OneDefault ==
  ASSUME NEW d, IsTables(d), NEW e \in Events
  PROVE  /\ DefaultsOf(d, e) \subseteq {First(e)}
         /\ Cardinality(DefaultsOf(d, e)) = 1 <=> First(e) \in d.defaults
         /\ DefaultsOf(d, e) # {} <=> First(e) \in d.defaults
<1>1. d.defaults \subseteq Defaults
  BY DEF IsTables, TablesType
<1>2. DefaultsOf(d, e) \subseteq {First(e)}
  BY <1>1, FirstFacts DEF DefaultsOf
<1>3. First(e) \in d.defaults <=> DefaultsOf(d, e) = {First(e)}
  BY <1>2, FirstFacts DEF DefaultsOf
<1>4. Cardinality({First(e)}) = 1 /\ Cardinality({}) = 0
  BY FS_Singleton, FS_EmptySet
<1>5. DefaultsOf(d, e) = {} \/ DefaultsOf(d, e) = {First(e)}
  BY <1>2
<1> QED BY <1>2, <1>3, <1>4, <1>5

LEMMA GreenMeansOrderly ==
  ASSUME NEW d, IsTables(d), NEW m \in WriterModes
  PROVE  DatabaseViolations(d, m) = {} <=> Orderly(d) /\ d.mode = m
<1> USE DEF IsTables, TablesType
<1>1. /\ d.events \subseteq Events /\ d.types \subseteq Types /\ d.defaults \subseteq Defaults
      /\ DOMAIN d.stock \subseteq Types /\ DOMAIN d.legacy \subseteq d.events
      /\ \A e \in DOMAIN d.legacy : d.legacy[e] \in Rows
      /\ \A o \in d.orders : o.type \in Types \cup {NoType}
      /\ d.mode \in WriterModes \cup {"none"} /\ d.bridge \in BOOLEAN
  BY RowsOnMeans
<1>2. ASSUME NEW e \in Events
      PROVE  /\ Cardinality(DefaultsOf(d, e)) = 1 <=> First(e) \in d.defaults
             /\ DefaultsOf(d, e) # {} <=> First(e) \in d.defaults
             /\ First(e) \in d.defaults => DefaultsOf(d, e) = {First(e)}
             /\ Home[First(e)] = e
  BY OneDefault, FirstFacts
<1>3. ASSUME DatabaseViolations(d, m) = {} PROVE Orderly(d) /\ d.mode = m
  <2>1. d.mode = m /\ d.bridge /\ d.mode \in WriterModes
    BY <1>1, <1>3, NoViolation DEF ControlInvalid, ControlMismatch, CompatibilityBroken
  <2>2. DOMAIN d.legacy = d.events
    BY <1>1, <1>3, NoViolation DEF WithoutEventRow
  <2>3. DOMAIN d.stock = d.types
    BY <1>3, NoViolation DEF StockWithoutType, TypeWithoutStock
  <2>4. ASSUME NEW e \in d.events PROVE First(e) \in d.defaults \cap d.types
    <3>1. First(e) \in d.defaults
      BY <1>1, <1>2, <1>3, NoViolation DEF WithoutOneDefault
    <3>2. First(e) \in DOMAIN d.stock
      BY <1>1, <1>2, <1>3, <2>2, <3>1, NoViolation DEF WithoutDefaultStock
    <3> QED BY <2>3, <3>1, <3>2
  <2>5. ASSUME NEW e \in d.events PROVE d.legacy[e] = Sums(d, e)
    <3>1. d.legacy[e].total = Sums(d, e).total /\ d.legacy[e].remaining = Sums(d, e).remaining
      BY <1>3, <2>2, NoViolation DEF TotalMismatch, RemainingMismatch
    <3>2. d.legacy[e] \in Rows /\ Sums(d, e) \in Rows
      BY <1>1, <2>2, StockFacts
    <3> QED BY <3>1, <3>2 DEF Rows
  <2>6. \A o \in d.orders : o.type \in d.types /\ Home[o.type] = o.event
    BY <1>3, NoViolation DEF OrderWithoutType, OrderOfOtherEvent
  <2>7. d.mode = "legacy" => d.types \subseteq Defaults
    BY <1>1, <1>3, <2>1, <2>3, NoViolation DEF NonDefaultStock
  <2> QED BY <2>1, <2>2, <2>3, <2>4, <2>5, <2>6, <2>7 DEF Orderly
<1>4. ASSUME Orderly(d), d.mode = m PROVE DatabaseViolations(d, m) = {}
  <2>1. ~ControlInvalid(d) /\ ~ControlMismatch(d, m) /\ ~CompatibilityBroken(d)
    BY <1>4 DEF ControlInvalid, ControlMismatch, CompatibilityBroken, Orderly
  <2>2. ~WithoutEventRow(d) /\ ~StockWithoutType(d) /\ ~TypeWithoutStock(d)
    BY <1>4 DEF WithoutEventRow, StockWithoutType, TypeWithoutStock, Orderly
  <2>3. ~WithoutOneDefault(d) /\ ~WithoutDefaultStock(d)
    <3>1. \A e \in d.events : First(e) \in d.defaults /\ First(e) \in DOMAIN d.stock
      BY <1>4 DEF Orderly
    <3> QED BY <1>1, <1>2, <3>1 DEF WithoutOneDefault, WithoutDefaultStock
  <2>4. ~OrderWithoutType(d) /\ ~OrderOfOtherEvent(d)
    BY <1>1, <1>4, NoTypeAssumption DEF OrderWithoutType, OrderOfOtherEvent, Orderly
  <2>5. ~TotalMismatch(d) /\ ~RemainingMismatch(d)
    BY <1>4 DEF TotalMismatch, RemainingMismatch, Orderly
  <2>6. ~NonDefaultStock(d, m)
    <3>1. ASSUME d.mode = "legacy", NEW y \in d.types PROVE y \in d.defaults
      <4>1. y \in Defaults /\ Home[y] \in d.events /\ y \in Types
        BY <1>1, <1>4, <3>1 DEF Orderly
      <4>2. First(Home[y]) = y
        BY <4>1, HomeFacts
      <4> QED BY <1>4, <4>1, <4>2 DEF Orderly
    <3> QED BY <1>4, <3>1 DEF NonDefaultStock
  <2> QED BY <2>1, <2>2, <2>3, <2>4, <2>5, <2>6, NoViolation
<1> QED BY <1>3, <1>4

-----------------------------------------------------------------------------
(* What changes the tables.                                                *)

\* The tables with a new Event, and with a new type of an old one.
Created(d, e) ==
  LET y == First(e) IN
  [d EXCEPT !.events = @ \cup {e}, !.types = @ \cup {y}, !.defaults = @ \cup {y},
            !.stock = Assign(@, y, Fresh(Capacity[y])),
            !.legacy = Assign(@, e, Fresh(Capacity[y]))]
More(d, y) == [d EXCEPT !.types = @ \cup {y}, !.stock = Assign(@, y, Fresh(Capacity[y]))]
Added(d, y) == [More(d, y) EXCEPT !.legacy = Assign(@, Home[y], Sums(More(d, y), Home[y]))]

LEMMA RowsAssigned ==
  ASSUME NEW S, NEW f \in RowsOn(S), NEW k \in S, NEW v \in Rows
  PROVE  Assign(f, k, v) \in RowsOn(S)
<1>1. DOMAIN f \subseteq S /\ f \in [DOMAIN f -> Rows]
  BY RowsOnMeans
<1>2. Assign(f, k, v) \in [DOMAIN f \cup {k} -> Rows]
  BY <1>1 DEF Assign
<1> QED BY <1>1, <1>2, RowsOnMeans

LEMMA RowsReplaced ==
  ASSUME NEW S, NEW f \in RowsOn(S), NEW k \in DOMAIN f, NEW v \in Rows
  PROVE  [f EXCEPT ![k] = v] \in RowsOn(S) /\ DOMAIN [f EXCEPT ![k] = v] = DOMAIN f
<1>1. DOMAIN f \subseteq S /\ f \in [DOMAIN f -> Rows]
  BY RowsOnMeans
<1>2. [f EXCEPT ![k] = v] \in [DOMAIN f -> Rows]
  BY <1>1
<1> QED BY <1>1, <1>2, RowsOnMeans

LEMMA FreshRows == \A y \in Types : Fresh(Capacity[y]) \in Rows
BY CapacityAssumption DEF Fresh, Rows

\* A new Event.
LEMMA CreationFacts ==
  ASSUME NEW d, IsTables(d), NEW e \in Events, e \notin d.events
  PROVE  LET y == First(e)
             s == Created(d, e)
         IN /\ IsTables(s) /\ s.mode = d.mode
            /\ s.events = d.events \cup {e} /\ s.types = d.types \cup {y}
            /\ DOMAIN s.stock = DOMAIN d.stock \cup {y} /\ y \notin DOMAIN d.stock
            /\ DOMAIN s.legacy = DOMAIN d.legacy \cup {e} /\ e \notin DOMAIN d.legacy
            /\ s.stock[y] = Fresh(Capacity[y]) /\ s.legacy[e] = Fresh(Capacity[y])
            /\ \A z \in DOMAIN d.stock : s.stock[z] = d.stock[z]
            /\ \A z \in DOMAIN d.legacy : s.legacy[z] = d.legacy[z]
            /\ Orderly(d) => Orderly(s)
<1> DEFINE y == First(e)
           s == Created(d, e)
<1>1. y \in Defaults /\ y \in Types /\ Home[y] = e
  BY FirstFacts
<1>2. d \in TablesType /\ Fresh(Capacity[y]) \in Rows
  BY <1>1, FreshRows DEF IsTables
<1>3. Assign(d.stock, y, Fresh(Capacity[y])) \in RowsOn(Types)
  BY <1>1, <1>2, RowsAssigned DEF TablesType
<1>4. Assign(d.legacy, e, Fresh(Capacity[y])) \in RowsOn(Events)
  BY <1>2, RowsAssigned DEF TablesType
<1>5. /\ s.mode = d.mode /\ s.events = d.events \cup {e} /\ s.types = d.types \cup {y}
      /\ s.defaults = d.defaults \cup {y} /\ s.orders = d.orders /\ s.bridge = d.bridge
      /\ s.stock = Assign(d.stock, y, Fresh(Capacity[y]))
      /\ s.legacy = Assign(d.legacy, e, Fresh(Capacity[y]))
  BY <1>2 DEF Created, TablesType
<1>6. s \in TablesType
  BY <1>1, <1>2, <1>3, <1>4 DEF Created, TablesType
<1> HIDE DEF s
<1>7. /\ DOMAIN s.stock = DOMAIN d.stock \cup {y} /\ DOMAIN s.legacy = DOMAIN d.legacy \cup {e}
      /\ s.stock[y] = Fresh(Capacity[y]) /\ s.legacy[e] = Fresh(Capacity[y])
      /\ \A z \in DOMAIN d.stock \ {y} : s.stock[z] = d.stock[z]
      /\ \A z \in DOMAIN d.legacy \ {e} : s.legacy[z] = d.legacy[z]
  <2> DEFINE v == Fresh(Capacity[y])
             f == Assign(d.stock, y, v)
             g == Assign(d.legacy, e, v)
  <2>1. /\ DOMAIN f = DOMAIN d.stock \cup {y} /\ f[y] = v
        /\ \A z \in DOMAIN d.stock \ {y} : f[z] = d.stock[z]
    BY DEF Assign
  <2>2. /\ DOMAIN g = DOMAIN d.legacy \cup {e} /\ g[e] = v
        /\ \A z \in DOMAIN d.legacy \ {e} : g[z] = d.legacy[z]
    BY DEF Assign
  <2>3. s.stock = f /\ s.legacy = g
    BY <1>5
  <2> HIDE DEF f, g, v, y
  <2> QED BY <2>1, <2>2, <2>3 DEF v
<1>8. y \notin DOMAIN d.stock /\ y \notin d.types /\ e \notin DOMAIN d.legacy
  BY <1>1 DEF IsTables
<1>9. /\ \A z \in DOMAIN d.stock : s.stock[z] = d.stock[z]
      /\ \A z \in DOMAIN d.legacy : s.legacy[z] = d.legacy[z]
  BY <1>7, <1>8
<1>10. IsTables(s)
  BY <1>1, <1>5, <1>6, <1>7 DEF IsTables
<1>11. ASSUME Orderly(d) PROVE Orderly(s)
  <2>1. s.mode \in WriterModes /\ s.bridge /\ DOMAIN s.legacy = s.events /\ DOMAIN s.stock = s.types
    BY <1>5, <1>7, <1>11 DEF Orderly
  <2>2. \A x \in s.events : First(x) \in s.defaults \cap s.types
    BY <1>5, <1>11 DEF Orderly
  <2>3. \A x \in d.events : s.legacy[x] = Sums(s, x)
    <3> TAKE x \in d.events
    <3>1. StockOf(s, x) = StockOf(d, x) /\ x # e
      BY <1>1, <1>7, <1>8 DEF StockOf
    <3>2. \A z \in StockOf(d, x) : s.stock[z] = d.stock[z]
      BY <1>9 DEF StockOf
    <3>3. Sums(s, x) = Sums(d, x)
      BY <3>1, <3>2, SameSums
    <3>4. s.legacy[x] = d.legacy[x] /\ d.legacy[x] = Sums(d, x)
      BY <1>9, <1>11 DEF Orderly
    <3> QED BY <3>3, <3>4
  <2>4. s.legacy[e] = Sums(s, e)
    <3>1. StockOf(s, e) = {y}
      <4>1. \A z \in DOMAIN d.stock : Home[z] # e
        BY DEF IsTables
      <4> QED BY <1>1, <1>7, <4>1 DEF StockOf
    <3>2. Sums(s, e) = s.stock[y]
      BY <1>2, <1>7, <3>1, SumsOfOne
    <3> QED BY <1>7, <3>2
  <2>5. \A o \in s.orders : o.type \in s.types /\ Home[o.type] = o.event
    BY <1>5, <1>11 DEF Orderly
  <2>6. s.mode = "legacy" => s.types \subseteq Defaults
    BY <1>1, <1>5, <1>11 DEF Orderly
  <2> QED BY <1>5, <2>1, <2>2, <2>3, <2>4, <2>5, <2>6 DEF Orderly
<1> QED BY <1>5, <1>7, <1>8, <1>9, <1>10, <1>11 DEF s

\* A further type.
LEMMA AdditionFacts ==
  ASSUME NEW d, IsTables(d), NEW y \in Types, Home[y] \in d.events, y \notin Defaults,
         y \notin d.types \cup DOMAIN d.stock
  PROVE  LET s == Added(d, y) IN
         /\ IsTables(s) /\ s.mode = d.mode
         /\ s.events = d.events /\ s.types = d.types \cup {y}
         /\ DOMAIN s.stock = DOMAIN d.stock \cup {y}
         /\ DOMAIN s.legacy = DOMAIN d.legacy \cup {Home[y]}
         /\ \A z \in DOMAIN d.stock : s.stock[z] = d.stock[z]
         /\ Orderly(d) /\ d.mode = "ticket_type" => Orderly(s)
<1> DEFINE v == Fresh(Capacity[y])
           p == More(d, y)
           r == Sums(p, Home[y])
           s == Added(d, y)
<1>1. d \in TablesType /\ v \in Rows
  BY FreshRows DEF IsTables
<1>2. Assign(d.stock, y, v) \in RowsOn(Types)
  BY <1>1, RowsAssigned DEF TablesType
<1>3. /\ p.mode = d.mode /\ p.events = d.events /\ p.types = d.types \cup {y}
      /\ p.defaults = d.defaults /\ p.orders = d.orders /\ p.bridge = d.bridge
      /\ p.stock = Assign(d.stock, y, v) /\ p.legacy = d.legacy
  BY <1>1 DEF More, TablesType
<1>4. p \in TablesType
  BY <1>1, <1>2 DEF More, TablesType
<1>5. r \in Rows /\ Home[y] \in Events
  BY <1>4, StockFacts, HomeAssumption
<1>6. Assign(d.legacy, Home[y], r) \in RowsOn(Events)
  BY <1>1, <1>5, RowsAssigned DEF TablesType
<1>7. /\ s.mode = d.mode /\ s.events = d.events /\ s.types = d.types \cup {y}
      /\ s.defaults = d.defaults /\ s.orders = d.orders /\ s.bridge = d.bridge
      /\ s.stock = Assign(d.stock, y, v) /\ s.legacy = Assign(d.legacy, Home[y], r)
      /\ s \in TablesType
  <2> HIDE DEF p, r
  <2> QED BY <1>3, <1>4, <1>6 DEF Added, TablesType, p, r
<1> HIDE DEF s, p, r
<1>8. /\ DOMAIN s.stock = DOMAIN d.stock \cup {y} /\ s.stock[y] = v
      /\ DOMAIN s.legacy = DOMAIN d.legacy \cup {Home[y]} /\ s.legacy[Home[y]] = r
      /\ \A z \in DOMAIN d.stock : s.stock[z] = d.stock[z]
      /\ \A x \in DOMAIN d.legacy \ {Home[y]} : s.legacy[x] = d.legacy[x]
  <2> DEFINE f == Assign(d.stock, y, v)
             g == Assign(d.legacy, Home[y], r)
  <2>1. /\ DOMAIN f = DOMAIN d.stock \cup {y} /\ f[y] = v
        /\ \A z \in DOMAIN d.stock \ {y} : f[z] = d.stock[z]
    BY DEF Assign
  <2>2. /\ DOMAIN g = DOMAIN d.legacy \cup {Home[y]} /\ g[Home[y]] = r
        /\ \A z \in DOMAIN d.legacy \ {Home[y]} : g[z] = d.legacy[z]
    BY DEF Assign
  <2>3. s.stock = f /\ s.legacy = g
    BY <1>7
  <2> HIDE DEF f, g, v
  <2> QED BY <2>1, <2>2, <2>3
<1>9. IsTables(s)
  BY <1>7, <1>8 DEF IsTables
<1>10. ASSUME Orderly(d), d.mode = "ticket_type" PROVE Orderly(s)
  <2>1. s.mode \in WriterModes /\ s.bridge /\ DOMAIN s.legacy = s.events /\ DOMAIN s.stock = s.types
    BY <1>7, <1>8, <1>10 DEF Orderly
  <2>2. \A x \in s.events : First(x) \in s.defaults \cap s.types
    BY <1>7, <1>10 DEF Orderly
  <2>3. \A x \in d.events \ {Home[y]} : s.legacy[x] = Sums(s, x)
    <3> TAKE x \in d.events \ {Home[y]}
    <3>1. StockOf(s, x) = StockOf(d, x)
      BY <1>8 DEF StockOf
    <3>2. \A z \in StockOf(d, x) : s.stock[z] = d.stock[z]
      BY <1>8 DEF StockOf
    <3>3. Sums(s, x) = Sums(d, x)
      BY <3>1, <3>2, SameSums
    <3>4. s.legacy[x] = d.legacy[x] /\ d.legacy[x] = Sums(d, x)
      BY <1>8, <1>10 DEF Orderly
    <3> QED BY <3>3, <3>4
  <2>4. s.legacy[Home[y]] = Sums(s, Home[y])
    <3>1. StockOf(s, Home[y]) = StockOf(p, Home[y]) /\ s.stock = p.stock
      BY <1>3, <1>7 DEF StockOf
    <3>2. Sums(s, Home[y]) = r
      BY <3>1, SameSums DEF r
    <3> QED BY <1>8, <3>2
  <2>5. \A o \in s.orders : o.type \in s.types /\ Home[o.type] = o.event
    BY <1>7, <1>10 DEF Orderly
  <2>6. s.mode # "legacy"
    BY <1>7, <1>10
  <2> QED BY <1>7, <2>1, <2>2, <2>3, <2>4, <2>5, <2>6 DEF Orderly
<1> QED BY <1>7, <1>8, <1>9, <1>10 DEF s

OneLess(row) == [row EXCEPT !.remaining = @ - 1]

\* A sale, whatever state the tables are in.
LEMMA SaleTypes ==
  ASSUME NEW d, IsTables(d), NEW y \in Types, CanSell(d, y)
  PROVE  LET s == Sold(d, y) IN
         /\ IsTables(s)
         /\ s.mode = d.mode /\ s.events = d.events /\ s.types = d.types
         /\ s.defaults = d.defaults /\ s.bridge = d.bridge
         /\ s.orders = d.orders \cup {[event |-> Home[y], type |-> y]}
         /\ DOMAIN s.stock = DOMAIN d.stock /\ DOMAIN s.legacy = DOMAIN d.legacy
         /\ \A z \in Types \ {y} : s.stock[z] = d.stock[z]
         /\ \A x \in Events \ {Home[y]} : s.legacy[x] = d.legacy[x]
         /\ d.mode = "legacy" =>
              /\ s.legacy[Home[y]] = OneLess(d.legacy[Home[y]])
              /\ d.bridge => s.stock[y] = s.legacy[Home[y]]
         /\ d.mode # "legacy" =>
              /\ s.stock[y] = OneLess(d.stock[y])
              /\ d.bridge => s.legacy[Home[y]] = Sums(s, Home[y])
<1> DEFINE e == Home[y]
           s == Sold(d, y)
<1>1. d \in TablesType /\ e \in Events
  BY HomeAssumption DEF IsTables
<1>2. /\ d.mode \in WriterModes /\ e \in DOMAIN d.legacy /\ y \in DOMAIN d.stock
      /\ IF d.mode = "legacy" THEN d.legacy[e].remaining > 0 ELSE d.stock[y].remaining > 0
  BY DEF CanSell
<1>3. d.legacy[e] \in Rows /\ d.stock[y] \in Rows
  BY <1>1, <1>2, RowsOnMeans DEF TablesType
<1>4. d.orders \cup {[event |-> e, type |-> y]}
        \in SUBSET [event: Events, type: Types \cup {NoType}]
  BY <1>1 DEF TablesType
<1>5. CASE d.mode = "legacy"
  <2> DEFINE row == OneLess(d.legacy[e])
             stocked == IF d.bridge THEN [d.stock EXCEPT ![y] = row] ELSE d.stock
  <2>1. row \in Rows
    BY <1>2, <1>3, <1>5 DEF OneLess, Rows
  <2>2. /\ [d.legacy EXCEPT ![e] = row] \in RowsOn(Events)
        /\ DOMAIN [d.legacy EXCEPT ![e] = row] = DOMAIN d.legacy
    <3> HIDE DEF row
    <3> QED BY <1>1, <1>2, <2>1, RowsReplaced DEF TablesType
  <2>3. stocked \in RowsOn(Types) /\ DOMAIN stocked = DOMAIN d.stock
    <3> HIDE DEF row
    <3>1. /\ [d.stock EXCEPT ![y] = row] \in RowsOn(Types)
          /\ DOMAIN [d.stock EXCEPT ![y] = row] = DOMAIN d.stock
      BY <1>1, <1>2, <2>1, RowsReplaced DEF TablesType
    <3> QED BY <1>1, <3>1 DEF TablesType
  <2>4. s = [d EXCEPT !.legacy = [d.legacy EXCEPT ![e] = row], !.stock = stocked,
                      !.orders = d.orders \cup {[event |-> e, type |-> y]}]
    BY <1>1, <1>5 DEF Sold, OneLess, TablesType
  <2> HIDE DEF s, stocked, row, e
  <2>5. /\ s.mode = d.mode /\ s.events = d.events /\ s.types = d.types
        /\ s.defaults = d.defaults /\ s.bridge = d.bridge
        /\ s.orders = d.orders \cup {[event |-> e, type |-> y]}
        /\ s.stock = stocked /\ s.legacy = [d.legacy EXCEPT ![e] = row]
        /\ s \in TablesType
    BY <1>1, <1>4, <2>2, <2>3, <2>4 DEF TablesType
  <2>6. DOMAIN s.stock = DOMAIN d.stock /\ DOMAIN s.legacy = DOMAIN d.legacy
    BY <2>2, <2>3, <2>5
  <2>7. IsTables(s)
    BY <2>5, <2>6 DEF IsTables
  <2>8. /\ s.legacy[e] = row
        /\ d.bridge => s.stock[y] = row
        /\ \A z \in Types \ {y} : s.stock[z] = d.stock[z]
        /\ \A x \in Events \ {e} : s.legacy[x] = d.legacy[x]
    BY <1>2, <2>5 DEF stocked
  <2> QED BY <1>5, <2>5, <2>6, <2>7, <2>8 DEF s, row, e
<1>6. CASE d.mode # "legacy"
  <2> DEFINE row == OneLess(d.stock[y])
             stocked == [d.stock EXCEPT ![y] = row]
             p == [d EXCEPT !.stock = stocked,
                            !.orders = d.orders \cup {[event |-> e, type |-> y]}]
             added == IF d.bridge THEN [d.legacy EXCEPT ![e] = Sums(p, e)] ELSE d.legacy
  <2>1. row \in Rows
    BY <1>2, <1>3, <1>6 DEF OneLess, Rows
  <2>2. stocked \in RowsOn(Types) /\ DOMAIN stocked = DOMAIN d.stock
    <3> HIDE DEF row
    <3> QED BY <1>1, <1>2, <2>1, RowsReplaced DEF TablesType
  <2>3. p = [d EXCEPT !.stock[y].remaining = @ - 1,
                      !.orders = @ \cup {[event |-> e, type |-> y]}]
    BY <1>1 DEF OneLess, TablesType
  <2>4. s = IF d.bridge THEN [p EXCEPT !.legacy[e] = Sums(p, e)] ELSE p
    <3> HIDE DEF p
    <3> QED BY <1>6, <2>3 DEF Sold
  <2>5. /\ p.mode = d.mode /\ p.events = d.events /\ p.types = d.types
        /\ p.defaults = d.defaults /\ p.bridge = d.bridge
        /\ p.orders = d.orders \cup {[event |-> e, type |-> y]}
        /\ p.stock = stocked /\ p.legacy = d.legacy /\ p \in TablesType
    <3> HIDE DEF stocked, e
    <3> QED BY <1>1, <1>4, <2>2 DEF TablesType
  <2>6. added \in RowsOn(Events) /\ DOMAIN added = DOMAIN d.legacy
    <3>1. Sums(p, e) \in Rows
      BY <2>5, StockFacts
    <3> HIDE DEF p
    <3>2. /\ [d.legacy EXCEPT ![e] = Sums(p, e)] \in RowsOn(Events)
          /\ DOMAIN [d.legacy EXCEPT ![e] = Sums(p, e)] = DOMAIN d.legacy
      BY <1>1, <1>2, <3>1, RowsReplaced DEF TablesType
    <3> QED BY <1>1, <3>2 DEF TablesType
  <2> HIDE DEF s, p, stocked, row, e
  <2>7. s = [p EXCEPT !.legacy = added]
    BY <2>4, <2>5 DEF added, TablesType
  <2> HIDE DEF added
  <2>8. /\ s.mode = d.mode /\ s.events = d.events /\ s.types = d.types
        /\ s.defaults = d.defaults /\ s.bridge = d.bridge
        /\ s.orders = d.orders \cup {[event |-> e, type |-> y]}
        /\ s.stock = stocked /\ s.legacy = added /\ s \in TablesType
    BY <2>5, <2>6, <2>7 DEF TablesType
  <2>9. DOMAIN s.stock = DOMAIN d.stock /\ DOMAIN s.legacy = DOMAIN d.legacy
    BY <2>2, <2>6, <2>8
  <2>10. IsTables(s)
    BY <2>8, <2>9 DEF IsTables
  <2>11. /\ s.stock[y] = row
         /\ \A z \in Types \ {y} : s.stock[z] = d.stock[z]
         /\ \A x \in Events \ {e} : s.legacy[x] = d.legacy[x]
    BY <1>2, <2>8 DEF stocked, added
  <2>12. d.bridge => s.legacy[e] = Sums(s, e)
    <3>1. StockOf(s, e) = StockOf(p, e) /\ s.stock = p.stock
      BY <2>5, <2>8 DEF StockOf
    <3>2. Sums(s, e) = Sums(p, e)
      BY <3>1, SameSums
    <3> QED BY <1>2, <2>8, <3>2 DEF added
  <2> QED BY <1>6, <2>8, <2>9, <2>10, <2>11, <2>12 DEF s, row, e
<1> QED BY <1>5, <1>6

\* A sale from tables in order: the type's row and its Event's have one ticket less.
LEMMA SaleKeepsOrder ==
  ASSUME NEW d, IsTables(d), Orderly(d), NEW y \in Types, CanSell(d, y)
  PROVE  LET s == Sold(d, y) IN
         /\ Orderly(s)
         /\ s.stock[y] = OneLess(d.stock[y]) /\ d.stock[y].remaining > 0
         /\ s.legacy[Home[y]] = OneLess(d.legacy[Home[y]]) /\ d.legacy[Home[y]].remaining > 0
<1> DEFINE e == Home[y]
           s == Sold(d, y)
<1>1. /\ IsTables(s)
      /\ s.mode = d.mode /\ s.events = d.events /\ s.types = d.types
      /\ s.defaults = d.defaults /\ s.bridge = d.bridge
      /\ s.orders = d.orders \cup {[event |-> e, type |-> y]}
      /\ DOMAIN s.stock = DOMAIN d.stock /\ DOMAIN s.legacy = DOMAIN d.legacy
      /\ \A z \in Types \ {y} : s.stock[z] = d.stock[z]
      /\ \A x \in Events \ {e} : s.legacy[x] = d.legacy[x]
      /\ d.mode = "legacy" => s.legacy[e] = OneLess(d.legacy[e]) /\ s.stock[y] = s.legacy[e]
      /\ d.mode # "legacy" => s.stock[y] = OneLess(d.stock[y]) /\ s.legacy[e] = Sums(s, e)
  <2>1. d.bridge
    BY DEF Orderly
  <2>2. d.mode = "legacy" =>
          s.legacy[e] = OneLess(d.legacy[e]) /\ (d.bridge => s.stock[y] = s.legacy[e])
    BY SaleTypes
  <2>3. d.mode # "legacy" =>
          s.stock[y] = OneLess(d.stock[y]) /\ (d.bridge => s.legacy[e] = Sums(s, e))
    BY SaleTypes
  <2>4. /\ IsTables(s)
        /\ s.mode = d.mode /\ s.events = d.events /\ s.types = d.types
        /\ s.defaults = d.defaults /\ s.bridge = d.bridge
        /\ s.orders = d.orders \cup {[event |-> e, type |-> y]}
        /\ DOMAIN s.stock = DOMAIN d.stock /\ DOMAIN s.legacy = DOMAIN d.legacy
        /\ \A z \in Types \ {y} : s.stock[z] = d.stock[z]
        /\ \A x \in Events \ {e} : s.legacy[x] = d.legacy[x]
    BY SaleTypes
  <2> QED BY <2>1, <2>2, <2>3, <2>4
<1> HIDE DEF s
<1>2. /\ d.mode \in WriterModes /\ e \in d.events /\ y \in DOMAIN d.stock
      /\ y \in d.types /\ y \in StockOf(d, e)
      /\ IF d.mode = "legacy" THEN d.legacy[e].remaining > 0 ELSE d.stock[y].remaining > 0
  BY DEF CanSell, Orderly, StockOf
<1>3. /\ d \in TablesType /\ s \in TablesType
      /\ d.events \subseteq Events /\ DOMAIN d.stock \subseteq Types
  BY <1>1, RowsOnMeans DEF IsTables, TablesType
<1>4. \A x : StockOf(s, x) = StockOf(d, x)
  BY <1>1 DEF StockOf
<1>5. d.legacy[e] = Sums(d, e)
  BY <1>2 DEF Orderly
<1>6. /\ s.stock[y] = OneLess(d.stock[y]) /\ d.stock[y].remaining > 0
      /\ s.legacy[e] = OneLess(d.legacy[e]) /\ d.legacy[e].remaining > 0
      /\ s.legacy[e] = Sums(s, e)
  <2>1. CASE d.mode = "legacy"
    <3>1. StockOf(d, e) = {y}
      <4>1. \A z \in StockOf(d, e) : z \in Types /\ z \in Defaults /\ Home[z] = e
        BY <1>3, <2>1 DEF Orderly, StockOf
      <4>2. \A z \in StockOf(d, e) : z = First(e)
        BY <1>2, <1>3, <4>1, FirstFacts
      <4> QED BY <1>2, <4>2
    <3>2. d.stock[y] \in Rows /\ s.stock[y] \in Rows
      BY <1>1, <1>2, <1>3, RowsOnMeans DEF TablesType
    <3>3. Sums(d, e) = d.stock[y] /\ Sums(s, e) = s.stock[y]
      BY <1>4, <3>1, <3>2, SumsOfOne
    <3> QED BY <1>1, <1>2, <1>5, <2>1, <3>3
  <2>2. CASE d.mode # "legacy"
    <3>1. \A z \in StockOf(d, e) \ {y} : s.stock[z] = d.stock[z]
      BY <1>1, <1>3 DEF StockOf
    <3>2. Sums(s, e) = [Sums(d, e) EXCEPT !.remaining = @ - 1] /\ Sums(d, e).remaining > 0
      <4>1. s.stock[y] = [d.stock[y] EXCEPT !.remaining = @ - 1] /\ d.stock[y].remaining > 0
        BY <1>1, <1>2, <2>2 DEF OneLess
      <4> QED BY <1>2, <1>3, <1>4, <3>1, <4>1, SumsOfSale
    <3> QED BY <1>1, <1>2, <1>5, <2>2, <3>2 DEF OneLess
  <2> QED BY <2>1, <2>2
<1>7. \A x \in d.events : s.legacy[x] = Sums(s, x)
  <2> TAKE x \in d.events
  <2>1. CASE x = e
    BY <1>6, <2>1
  <2>2. CASE x # e
    <3>1. \A z \in StockOf(d, x) : s.stock[z] = d.stock[z]
      BY <1>1, <1>3, <2>2 DEF StockOf
    <3>2. Sums(s, x) = Sums(d, x)
      BY <1>4, <3>1, SameSums
    <3> QED BY <1>1, <1>3, <2>2, <3>2 DEF Orderly
  <2> QED BY <2>1, <2>2
<1>8. Orderly(s)
  <2>1. \A o \in s.orders : o.type \in s.types /\ Home[o.type] = o.event
    BY <1>1, <1>2 DEF Orderly
  <2> QED BY <1>1, <1>7, <2>1 DEF Orderly
<1> QED BY <1>6, <1>8 DEF s

\* What direct SQL leaves behind.
LEMMA DriftTypes ==
  ASSUME NEW d, IsTables(d)
  PROVE  \A s \in Drifted(d) : IsTables(s) /\ s.events = d.events
<1> USE DEF IsTables
<1>1. d \in TablesType
  OBVIOUS
<1>2. ASSUME NEW y \in d.types, NEW s,
             \/ s = [d EXCEPT !.defaults = @ \ {y}]
             \/ s = [d EXCEPT !.defaults = @ \ {y}, !.types = {}]
             \/ s = [d EXCEPT !.defaults = @ \ {y}, !.types = @ \ {y}]
      PROVE  IsTables(s) /\ s.events = d.events
  <2>1. PICK ds, ts : /\ ds \subseteq d.defaults /\ ts \subseteq d.types
                      /\ s = [d EXCEPT !.defaults = ds, !.types = ts]
    <3>2. CASE s = [d EXCEPT !.defaults = @ \ {y}]
      <4>1. s = [d EXCEPT !.defaults = d.defaults \ {y}, !.types = d.types]
        BY <1>1, <3>2 DEF TablesType
      <4>2. d.defaults \ {y} \subseteq d.defaults /\ d.types \subseteq d.types
        OBVIOUS
      <4> QED BY <4>1, <4>2
    <3>3. CASE s = [d EXCEPT !.defaults = @ \ {y}, !.types = {}]
      <4>1. d.defaults \ {y} \subseteq d.defaults /\ {} \subseteq d.types
        OBVIOUS
      <4> QED BY <3>3, <4>1
    <3>4. CASE s = [d EXCEPT !.defaults = @ \ {y}, !.types = @ \ {y}]
      <4>1. d.defaults \ {y} \subseteq d.defaults /\ d.types \ {y} \subseteq d.types
        OBVIOUS
      <4> QED BY <3>4, <4>1
    <3> QED BY <1>2, <3>2, <3>3, <3>4
  <2>2. s \in TablesType
    BY <1>1, <2>1 DEF TablesType
  <2>3. /\ s.events = d.events /\ s.stock = d.stock /\ s.legacy = d.legacy
        /\ s.types = ts /\ s.defaults = ds
    BY <1>1, <2>1 DEF TablesType
  <2> QED BY <2>1, <2>2, <2>3
<1>4. ASSUME NEW y \in DOMAIN d.stock, NEW s, s = [d EXCEPT !.stock = Drop(@, y)]
      PROVE  IsTables(s) /\ s.events = d.events
  <2> DEFINE f == Drop(d.stock, y)
  <2>1. f \in RowsOn(Types) /\ DOMAIN f \subseteq DOMAIN d.stock
    <3>1. DOMAIN d.stock \subseteq Types /\ d.stock \in [DOMAIN d.stock -> Rows]
      BY <1>1, RowsOnMeans DEF TablesType
    <3>2. f \in [DOMAIN d.stock \ {y} -> Rows]
      BY <3>1 DEF Drop
    <3> HIDE DEF f
    <3> QED BY <3>1, <3>2, RowsOnMeans
  <2>2. s = [d EXCEPT !.stock = f]
    BY <1>4
  <2> HIDE DEF f
  <2> QED BY <1>1, <2>1, <2>2 DEF TablesType
<1>5. ASSUME NEW e \in DOMAIN d.legacy, NEW s, s = [d EXCEPT !.legacy = Drop(@, e)]
      PROVE  IsTables(s) /\ s.events = d.events
  <2> DEFINE f == Drop(d.legacy, e)
  <2>1. f \in RowsOn(Events) /\ DOMAIN f \subseteq DOMAIN d.legacy
    <3>1. DOMAIN d.legacy \subseteq Events /\ d.legacy \in [DOMAIN d.legacy -> Rows]
      BY <1>1, RowsOnMeans DEF TablesType
    <3>2. f \in [DOMAIN d.legacy \ {e} -> Rows]
      BY <3>1 DEF Drop
    <3> HIDE DEF f
    <3> QED BY <3>1, <3>2, RowsOnMeans
  <2>2. s = [d EXCEPT !.legacy = f]
    BY <1>5
  <2> HIDE DEF f
  <2> QED BY <1>1, <2>1, <2>2 DEF TablesType
<1>6. ASSUME NEW y \in DOMAIN d.stock, NEW s, s = [d EXCEPT !.stock[y].remaining = 0]
      PROVE  IsTables(s) /\ s.events = d.events
  <2> DEFINE row == [d.stock[y] EXCEPT !.remaining = 0]
             f == [d.stock EXCEPT ![y] = row]
  <2>1. row \in Rows
    BY <1>1, RowsOnMeans DEF Rows, TablesType
  <2>2. f \in RowsOn(Types) /\ DOMAIN f = DOMAIN d.stock
    <3> HIDE DEF row
    <3> QED BY <1>1, <2>1, RowsReplaced DEF TablesType
  <2>3. s = [d EXCEPT !.stock = f]
    BY <1>1, <1>6 DEF TablesType
  <2> HIDE DEF f
  <2> QED BY <1>1, <2>2, <2>3 DEF TablesType
<1>7. ASSUME NEW e \in DOMAIN d.legacy, NEW s,
             s = [d EXCEPT !.legacy[e].remaining = 0] \/ s = [d EXCEPT !.legacy[e].total = @ + 1]
      PROVE  IsTables(s) /\ s.events = d.events
  <2> PICK row : /\ s = [d EXCEPT !.legacy[e] = row]
                 /\ \/ row = [d.legacy[e] EXCEPT !.remaining = 0]
                    \/ row = [d.legacy[e] EXCEPT !.total = @ + 1]
    BY <1>1, <1>7 DEF TablesType
  <2> DEFINE f == [d.legacy EXCEPT ![e] = row]
  <2>1. row \in Rows
    <3>1. d.legacy[e] \in Rows
      BY <1>1, RowsOnMeans DEF TablesType
    <3> QED BY <3>1 DEF Rows
  <2>2. f \in RowsOn(Events) /\ DOMAIN f = DOMAIN d.legacy
    BY <1>1, <2>1, RowsReplaced DEF TablesType
  <2>3. s = [d EXCEPT !.legacy = f]
    BY <1>1 DEF TablesType
  <2> HIDE DEF f
  <2> QED BY <1>1, <2>2, <2>3 DEF TablesType
<1>8. ASSUME NEW e \in d.events, NEW y \in Types \cup {NoType},
             NEW s, s = [d EXCEPT !.orders = {[event |-> e, type |-> y]}]
      PROVE  IsTables(s) /\ s.events = d.events
  BY <1>1, <1>8 DEF TablesType
<1>9. ASSUME NEW s, s = [d EXCEPT !.bridge = FALSE] \/ s = [d EXCEPT !.mode = "none"]
      PROVE  IsTables(s) /\ s.events = d.events
  BY <1>1, <1>9 DEF TablesType
<1>10. ASSUME NEW s \in Drifted(d) PROVE IsTables(s) /\ s.events = d.events
  <2> HIDE DEF IsTables
  <2>1. CASE s \in TypesLost(d)
    BY <1>2, <2>1 DEF TypesLost
  <2>2. CASE s \in StockChanged(d)
    BY <1>4, <1>6, <2>2 DEF StockChanged
  <2>3. CASE s \in EventsChanged(d)
    BY <1>5, <1>7, <2>3 DEF EventsChanged
  <2>4. CASE s \in Misordered(d)
    BY <1>8, <2>4 DEF Misordered
  <2>5. CASE s \in Disabled(d)
    BY <1>9, <2>5 DEF Disabled
  <2> QED BY <2>1, <2>2, <2>3, <2>4, <2>5 DEF Drifted
<1> QED BY <1>10

-----------------------------------------------------------------------------
(* Types.                                                                  *)

EventOf(k) == IF k[1] = "type" THEN Home[k[2]] ELSE k[2]
PlanKey(y, m) == IF m = "legacy" THEN EventKey(Home[y]) ELSE TypeKey(y)
TypeSteps == {"types", "typeRows", "typeRevision"}
EventSteps == {"events", "eventRows", "eventCounter"}

WorldTypes ==
  /\ IsTables(db)
  /\ DOMAIN counter \subseteq Keys /\ counter \in [DOMAIN counter -> Nat]
  /\ DOMAIN version \subseteq Keys /\ version \in [DOMAIN version -> BOOLEAN]
  /\ \A k \in DOMAIN counter \cup DOMAIN version : EventOf(k) \in db.events
  /\ \/ buying = NoBuyer
     \/ /\ buying \in [type: Types, plan: WriterModes, key: Keys \cup {NoKey}]
        /\ buying.key \in {NoKey, PlanKey(buying.type, buying.plan)}

CheckTypes ==
  /\ IsTables(snap)
  /\ expect \in WriterModes /\ phase \in {"preflight", "postflight"}
  /\ step \in TypeSteps \cup EventSteps \cup {"scan", "search", "ended"}
  /\ cursor \in Nat \X Nat
  /\ scanned \subseteq TypeKeys /\ still \subseteq Keys
  /\ code \in {"none", "0", "1", "2"}
  /\ code = "0" => found = {}
  /\ code # "none" => step = "ended"

ReadinessTypes == WorldTypes /\ CheckTypes

\* The check changes nothing but its own variables.
LEMMA CheckReadsOnly ==
  ASSUME Check
  PROVE  /\ UNCHANGED <<db, valkey, buying, busy, calm, upset, sound>>
         /\ UNCHANGED <<expect, phase, snap>>
         /\ still' \subseteq still
BY DEF Check, FetchTypes, FetchEvents, CheckSearch, CheckFails, TypeCounter, TypeRevision, Scan,
       EventVersion, EventCounter, Unwatched, watched, Options

LEMMA CheckKeepsTypes == ASSUME CheckTypes, Check PROVE CheckTypes'
<1>1. IsTables(snap)' /\ expect' = expect /\ phase' = phase /\ still' \subseteq still
  BY CheckReadsOnly DEF CheckTypes
<1> USE DEF CheckTypes, TypeSteps, EventSteps
<1>2. CASE FetchTypes \/ FetchEvents
  BY <1>1, <1>2 DEF FetchTypes, FetchEvents, Proceed
<1>3. ASSUME NEW y \in Types, TypeCounter(y) \/ TypeRevision(y) PROVE CheckTypes'
  <2>1. code = "none" /\ code' = code /\ scanned' = scanned
    BY <1>3 DEF TypeCounter, TypeRevision
  <2>2. y \in Nat /\ Home[y] \in Nat
    BY IdsAssumption, HomeAssumption
  <2>3. step' \in {"typeRows", "types", "scan", "typeRevision"} /\ cursor' \in Nat \X Nat
    BY <1>3, <2>2 DEF TypeCounter, TypeRevision, NextType, Proceed
  <2> QED BY <1>1, <2>1, <2>3
<1>4. ASSUME NEW k \in TypeKeys, Scan(k) PROVE CheckTypes'
  BY <1>1, <1>4 DEF Scan, Proceed
<1>5. ASSUME NEW e \in Events, EventVersion(e) \/ EventCounter(e) PROVE CheckTypes'
  <2>1. code = "none" /\ code' = code /\ scanned' = scanned
    BY <1>5 DEF EventVersion, EventCounter
  <2>2. e \in Nat
    BY IdsAssumption
  <2>3. step' \in {"events", "eventRows", "eventCounter", "search"} /\ cursor' \in Nat \X Nat
    BY <1>5, <2>2 DEF EventVersion, EventCounter, Proceed
  <2> QED BY <1>1, <2>1, <2>3
<1>6. CASE CheckSearch \/ CheckFails
  BY <1>1, <1>6 DEF CheckSearch, CheckFails, Leave, Proceed, ExitCode
<1> QED BY <1>2, <1>3, <1>4, <1>5, <1>6 DEF Check

\* The rest of the system leaves the check alone.
LEMMA WorldIsApart ==
  ASSUME World
  PROVE  /\ UNCHANGED <<expect, phase, snap, step, cursor, page, full, scanned, found>>
         /\ code' \in {code, "none"}
         /\ still' \subseteq still
BY DEF World, Switch, Expire, Buy, Refuse, DirectSql, Reserve, CreateEvent, AddTicketType, Seed,
       Evict, Distort, Watch, watched, checker, Options

LEMMA WorldKeepsCheckTypes == ASSUME CheckTypes, World PROVE CheckTypes'
BY WorldIsApart DEF CheckTypes

\* The counter and the revision of a purchase's plan.
LEMMA PlanKeyFacts ==
  ASSUME NEW y \in Types, NEW m
  PROVE  /\ PlanKey(y, m) \in Keys /\ EventOf(PlanKey(y, m)) = Home[y]
         /\ PlanKey(y, m) \in {TypeKey(y), EventKey(Home[y])}
BY KeyFacts, HomeAssumption DEF PlanKey, EventOf

\* What CreateEvent and AddTicketType make of the tables.
LEMMA CreationStep ==
  ASSUME IsTables(db), NEW e \in Events, CreateEvent(e)
  PROVE  e \notin db.events /\ db.mode \in WriterModes /\ db' = Created(db, e)
<1> DEFINE y == First(e)
           made == Tables(db.mode, {e}, {y})
           stock == [z \in {y} |-> Fresh(Capacity[z])]
<1>1. y \in Types /\ Home[y] = e
  BY FirstFacts
<1>2. made.stock[y] = Fresh(Capacity[y]) /\ made.legacy[e] = Sums([stock |-> stock], e)
  BY DEF Tables
<1>3. Sums([stock |-> stock], e) = Fresh(Capacity[y])
  <2>1. stock[y] = Fresh(Capacity[y]) /\ Fresh(Capacity[y]) \in Rows /\ DOMAIN stock = {y}
    BY <1>1, FreshRows
  <2> HIDE DEF stock, y
  <2> DEFINE p == [stock |-> stock]
  <2>2. p.stock = stock
    OBVIOUS
  <2> HIDE DEF p
  <2>3. StockOf(p, e) = {y}
    BY <1>1, <2>1, <2>2 DEF StockOf
  <2>4. Sums(p, e) = Fresh(Capacity[y])
    BY <2>1, <2>2, <2>3, SumsOfOne
  <2> QED BY <2>4 DEF p
<1>4. e \notin db.events /\ db.mode \in WriterModes
      /\ db' = [db EXCEPT !.events = @ \cup {e}, !.types = @ \cup {y},
                          !.defaults = @ \cup {y}, !.stock = Assign(@, y, made.stock[y]),
                          !.legacy = Assign(@, e, made.legacy[e])]
  BY DEF CreateEvent
<1> HIDE DEF made
<1> QED BY <1>2, <1>3, <1>4 DEF Created

LEMMA AdditionStep ==
  ASSUME NEW y \in Types, AddTicketType(y)
  PROVE  /\ db.mode = "ticket_type" /\ Home[y] \in db.events /\ y \notin Defaults
         /\ y \notin db.types \cup DOMAIN db.stock
         /\ db' = Added(db, y)
BY DEF AddTicketType, Added, More

LEMMA WorldKeepsTypes == ASSUME WorldTypes, World PROVE WorldTypes'
<1>1. IsTables(db)
  BY DEF WorldTypes
<1>2. CASE Switch
  <2>1. UNCHANGED <<counter, version, buying>> /\ db' \in {db, [db EXCEPT !.mode = OtherMode(expect)]}
    BY <1>2 DEF Switch, valkey
  <2>2. IsTables(db') /\ db'.events = db.events
    BY <1>1, <2>1 DEF IsTables, TablesType, OtherMode, WriterModes
  <2> QED BY <2>1, <2>2 DEF WorldTypes
<1>3. CASE Expire
  BY <1>3 DEF Expire, WorldTypes, valkey
<1>4. CASE DirectSql
  BY <1>1, <1>4, DriftTypes DEF DirectSql, WorldTypes, valkey
<1>5. CASE Buy
  <2> DEFINE y == buying.type
             k == PlanKey(y, buying.plan)
  <2>1. y \in Types /\ CanSell(db, y) /\ db' = Sold(db, y) /\ buying' = NoBuyer
    BY <1>5 DEF Buy, WorldTypes
  <2>2. /\ IsTables(db') /\ db'.events = db.events
        /\ DOMAIN db'.stock = DOMAIN db.stock /\ DOMAIN db'.legacy = DOMAIN db.legacy
    BY <1>1, <2>1, SaleTypes
  <2>3. k \in KeysOf(db') /\ EventOf(k) \in db'.events
    <3>1. y \in DOMAIN db'.stock /\ Home[y] \in DOMAIN db'.legacy /\ Home[y] \in Events
      BY <2>1, <2>2, HomeAssumption DEF CanSell
    <3>2. TypeKey(y) \in KeysOf(db') /\ EventKey(Home[y]) \in KeysOf(db')
      BY <2>1, <2>2, <3>1, KeysOfTables DEF IsTables
    <3> QED BY <2>1, <2>2, <3>1, <3>2, PlanKeyFacts DEF IsTables
  <2>4. Row(db', k).remaining \in Nat /\ k \in Keys
    BY <2>1, <2>2, <2>3, KeysOfTables, PlanKeyFacts DEF IsTables, Rows
  <2>5. \/ UNCHANGED <<counter, version>>
        \/ /\ counter' = Assign(counter, k, Row(db', k).remaining)
           /\ version' = Assign(version, k, TRUE)
    BY <1>5 DEF Buy, PlanKey, valkey
  <2> HIDE DEF k
  <2> QED BY <2>1, <2>2, <2>3, <2>4, <2>5 DEF WorldTypes, Assign
<1>6. CASE Refuse
  <2> DEFINE k == buying.key
  <2>1. /\ db' = db /\ buying' = NoBuyer
        /\ counter' = IF k \in DOMAIN counter THEN [counter EXCEPT ![k] = @ + 1] ELSE counter
        /\ version' = IF k \in DOMAIN counter THEN Assign(version, k, TRUE) ELSE version
    BY <1>6 DEF Refuse
  <2>2. counter' \in [DOMAIN counter -> Nat]
    BY <2>1 DEF WorldTypes
  <2>3. version' = version \/ (k \in DOMAIN counter /\ version' = Assign(version, k, TRUE))
    BY <2>1
  <2> HIDE DEF k
  <2> QED BY <2>1, <2>2, <2>3 DEF WorldTypes, Assign
<1>7. ASSUME NEW y \in Types, NEW m \in WriterModes, Reserve(y, m) PROVE WorldTypes'
  <2> DEFINE k == PlanKey(y, m)
             known == k \in DOMAIN counter /\ (k \in DOMAIN version => version[k])
  <2>1. /\ db' = db
        /\ buying' = [type |-> y, plan |-> m, key |-> IF known THEN k ELSE NoKey]
        /\ version' = IF known THEN Assign(version, k, TRUE) ELSE version
        /\ counter' = IF k \in DOMAIN counter THEN [counter EXCEPT ![k] = @ - 1] ELSE counter
    BY <1>7 DEF Reserve, PlanKey
  <2>2. /\ buying'.type = y /\ buying'.plan = m /\ buying'.key \in {NoKey, k}
        /\ buying' \in [type: Types, plan: WriterModes, key: Keys \cup {NoKey}]
    BY <2>1, PlanKeyFacts
  <2>3. k \in Keys
    BY PlanKeyFacts
  <2>4. counter' \in [DOMAIN counter -> Nat]
    BY <1>7 DEF WorldTypes, Reserve, PlanKey
  <2>5. version' = version \/ (k \in DOMAIN counter /\ version' = Assign(version, k, TRUE))
    BY <2>1
  <2>6. buying'.key \in {NoKey, PlanKey(buying'.type, buying'.plan)}
    BY <2>2
  <2> HIDE DEF k, known
  <2>7. /\ DOMAIN counter' \subseteq Keys /\ counter' \in [DOMAIN counter' -> Nat]
        /\ \A x \in DOMAIN counter' : EventOf(x) \in db'.events
    BY <2>1, <2>4 DEF WorldTypes
  <2>8. /\ DOMAIN version' \subseteq Keys /\ version' \in [DOMAIN version' -> BOOLEAN]
        /\ \A x \in DOMAIN version' : EventOf(x) \in db'.events
    <3>1. CASE version' = version
      BY <2>1, <3>1 DEF WorldTypes
    <3>2. CASE k \in DOMAIN counter /\ version' = Assign(version, k, TRUE)
      <4>1. DOMAIN version' = DOMAIN version \cup {k} /\ version' \in [DOMAIN version' -> BOOLEAN]
        BY <3>2 DEF WorldTypes, Assign
      <4>2. EventOf(k) \in db.events
        BY <3>2 DEF WorldTypes
      <4> QED BY <2>1, <2>3, <4>1, <4>2 DEF WorldTypes
    <3> QED BY <2>5, <3>1, <3>2
  <2> QED BY <1>1, <2>1, <2>2, <2>6, <2>7, <2>8 DEF WorldTypes
<1>8. ASSUME NEW e \in Events, CreateEvent(e) PROVE WorldTypes'
  <2> DEFINE y == First(e)
             k == PlanKey(y, db.mode)
  <2>1. e \notin db.events /\ db' = Created(db, e) /\ buying' = buying
    BY <1>1, <1>8, CreationStep DEF CreateEvent
  <2>2. IsTables(db') /\ db'.events = db.events \cup {e}
    BY <1>1, <2>1, CreationFacts
  <2>3. k \in Keys /\ EventOf(k) = e /\ Capacity[y] \in Nat
    BY FirstFacts, PlanKeyFacts, CapacityAssumption
  <2>4. \/ UNCHANGED <<counter, version>>
        \/ /\ counter' = Assign(counter, k, Capacity[y])
           /\ version' = Assign(version, k, TRUE)
    BY <1>8, FirstFacts DEF CreateEvent, PlanKey, valkey
  <2> HIDE DEF k, y
  <2> QED BY <2>1, <2>2, <2>3, <2>4 DEF WorldTypes, Assign
<1>9. ASSUME NEW y \in Types, AddTicketType(y) PROVE WorldTypes'
  <2>1. db' = Added(db, y) /\ UNCHANGED <<counter, version, buying>>
    BY <1>9, AdditionStep DEF AddTicketType, valkey
  <2>2. IsTables(db') /\ db'.events = db.events
    BY <1>1, <1>9, <2>1, AdditionStep, AdditionFacts
  <2> QED BY <2>1, <2>2 DEF WorldTypes
<1>10. ASSUME NEW k \in Keys, Seed(k) PROVE WorldTypes'
  <2>1. /\ k \in KeysOf(db) /\ db' = db /\ buying' = buying
        /\ counter' = Assign(counter, k, Row(db, k).remaining)
        /\ version' = Assign(version, k, TRUE)
    BY <1>10 DEF Seed
  <2>2. Row(db, k).remaining \in Nat
    BY <1>1, <2>1, KeysOfTables DEF IsTables, Rows
  <2>3. EventOf(k) \in db.events
    BY <1>1, <2>1 DEF KeysOf, EventOf, IsTables
  <2> QED BY <2>1, <2>2, <2>3 DEF WorldTypes, Assign
<1>11. ASSUME NEW k \in Keys, Evict(k) PROVE WorldTypes'
  BY <1>11 DEF Evict, WorldTypes, Drop
<1>12. ASSUME NEW k \in Keys, Distort(k) PROVE WorldTypes'
  <2>1. db' = db /\ buying' = buying /\ k \in DOMAIN counter
    BY <1>12 DEF Distort
  <2>2. CASE (\E n \in {0, 9} : counter' = [counter EXCEPT ![k] = n]) /\ version' = version
    BY <2>1, <2>2 DEF WorldTypes
  <2>3. CASE version' = Assign(version, k, FALSE) /\ counter' = counter
    BY <2>1, <2>3 DEF WorldTypes, Assign
  <2> QED BY <1>12, <2>2, <2>3 DEF Distort
<1> QED BY <1>2, <1>3, <1>4, <1>5, <1>6, <1>7, <1>8, <1>9, <1>10, <1>11, <1>12 DEF World

\* The tables a check can find at first.
StartsOrderly(d) ==
  IsTables(d) /\ Orderly(d) /\ \A k \in KeysOf(d) : Row(d, k).remaining = Row(d, k).total

LEMMA StartTables ==
  ASSUME NEW m \in WriterModes, NEW e \in Events, NEW ys, \A y \in ys : y \in Types /\ Home[y] = e,
         First(e) \in ys, m = "legacy" => ys = {First(e)}
  PROVE  StartsOrderly(Tables(m, {e}, ys))
<1> SUFFICES ASSUME NEW d, d = Tables(m, {e}, ys) PROVE StartsOrderly(d)
  OBVIOUS
<1> DEFINE stock == [y \in ys |-> Fresh(Capacity[y])]
           p == [stock |-> stock]
<1>1. stock \in RowsOn(Types)
  <2>1. \A y \in ys : y \in Types /\ Fresh(Capacity[y]) \in Rows
    BY FreshRows
  <2>2. stock \in [ys -> Rows]
    BY <2>1
  <2> QED BY <2>1, <2>2, RowsOnMeans
<1>2. /\ d.mode = m /\ d.events = {e} /\ d.types = ys /\ d.defaults = ys \cap Defaults
      /\ d.stock = stock /\ d.legacy = [x \in {e} |-> Sums(p, x)] /\ d.orders = {} /\ d.bridge
      /\ DOMAIN d = {"mode", "events", "types", "defaults", "stock", "legacy", "orders", "bridge"}
  BY DEF Tables
<1>3. d = [mode |-> m, events |-> {e}, types |-> ys, defaults |-> ys \cap Defaults,
           stock |-> stock, legacy |-> [x \in {e} |-> Sums(p, x)], orders |-> {}, bridge |-> TRUE]
  BY DEF Tables
<1>4. Sums(p, e) \in Rows /\ Sums(p, e).remaining = Sums(p, e).total
  <2> DEFINE T == StockOf(p, e)
             f == [y \in T |-> p.stock[y].total]
             g == [y \in T |-> p.stock[y].remaining]
  <2>1. T \subseteq ys /\ T \subseteq Types
    BY DEF StockOf
  <2>2. IsFiniteSet(T)
    BY <2>1, FiniteAssumption, FS_Subset
  <2>3. \A y \in T : p.stock[y].total = Capacity[y] /\ p.stock[y].remaining = Capacity[y]
    BY <2>1 DEF Fresh
  <2>4. f = g /\ f \in [T -> Nat]
    BY <2>1, <2>3, CapacityAssumption
  <2>5. SumFunction(f) \in Nat
    <3> HIDE DEF f, g, T
    <3> QED BY <2>2, <2>4, SumTakeOut
  <2>6. Sums(p, e) = [total |-> SumFunction(f), remaining |-> SumFunction(g)]
    BY DEF Sums
  <2> HIDE DEF f, g
  <2> QED BY <2>4, <2>5, <2>6 DEF Rows
<1>5. [x \in {e} |-> Sums(p, x)] \in RowsOn(Events)
  <2>1. [x \in {e} |-> Sums(p, x)] \in [{e} -> Rows]
    BY <1>4
  <2> QED BY <2>1, RowsOnMeans
<1>6. IsTables(d)
  <2>1. d \in TablesType
    <3>1. ys \subseteq Types
      OBVIOUS
    <3> HIDE DEF stock, p
    <3>2. /\ m \in WriterModes \cup {"none"} /\ {e} \subseteq Events
          /\ ys \cap Defaults \subseteq Defaults
      OBVIOUS
    <3>3. PICK g : g = [x \in {e} |-> Sums(p, x)]
      OBVIOUS
    <3>4. /\ g \in RowsOn(Events)
          /\ d = [mode |-> m, events |-> {e}, types |-> ys, defaults |-> ys \cap Defaults,
                  stock |-> stock, legacy |-> g, orders |-> {}, bridge |-> TRUE]
      BY <1>3, <1>5, <3>3
    <3>5. /\ {e} \in SUBSET Events /\ ys \in SUBSET Types /\ ys \cap Defaults \in SUBSET Defaults
          /\ {} \in SUBSET [event: Events, type: Types \cup {NoType}] /\ TRUE \in BOOLEAN
      BY <3>1
    <3> QED BY ONLY <1>1, <3>2, <3>4, <3>5 DEF TablesType
  <2> QED BY <1>2, <2>1 DEF IsTables
<1>7. Orderly(d)
  <2>1. StockOf(d, e) = StockOf(p, e) /\ d.stock = p.stock
    BY <1>2 DEF StockOf
  <2>2. Sums(d, e) = Sums(p, e)
    BY <2>1, SameSums
  <2>3. d.legacy[e] = Sums(d, e)
    <3>1. d.legacy[e] = Sums(p, e)
      BY <1>2
    <3> QED BY <2>2, <3>1
  <2>4. First(e) \in d.defaults \cap d.types
    BY <1>2, FirstFacts
  <2>5. d.mode = "legacy" => d.types \subseteq Defaults
    BY <1>2, FirstFacts
  <2>6. DOMAIN d.legacy = d.events /\ DOMAIN d.stock = d.types
    BY <1>2
  <2> HIDE DEF stock, p
  <2> QED BY <1>2, <2>3, <2>4, <2>5, <2>6 DEF Orderly
<1>8. \A k \in KeysOf(d) : Row(d, k).remaining = Row(d, k).total
  <2> TAKE k \in KeysOf(d)
  <2>1. CASE k[1] = "type"
    <3>1. k[2] \in ys /\ Row(d, k) = stock[k[2]]
      BY <1>2, <2>1 DEF KeysOf, Row
    <3> QED BY <3>1 DEF Fresh
  <2>2. CASE k[1] # "type"
    <3>1. k[2] = e /\ Row(d, k) = d.legacy[e]
      BY <1>2, <2>2 DEF KeysOf, Row
    <3>2. d.legacy[e] = Sums(p, e)
      BY <1>2
    <3> QED BY <1>4, <3>1, <3>2
  <2> QED BY <2>1, <2>2
<1> QED BY <1>6, <1>7, <1>8 DEF StartsOrderly

LEMMA InitFacts ==
  ASSUME ReadinessInit
  PROVE  IsTables(db) /\ Orderly(db) /\ \A k \in KeysOf(db) : Row(db, k).remaining = Row(db, k).total
<1>1. PICK e \in Events, ys \in SUBSET Types, m \in WriterModes :
        /\ db = Tables(m, {e}, ys)
        /\ \A y \in ys : y \in Types /\ Home[y] = e
        /\ First(e) \in ys /\ (m = "legacy" => ys = {First(e)})
  <2>1. PICK e \in Events :
          \/ db = Tables("legacy", {e}, {First(e)})
          \/ \E ys \in SUBSET {y \in Types : Home[y] = e} :
               First(e) \in ys /\ db = Tables("ticket_type", {e}, ys)
    BY DEF ReadinessInit
  <2>2. First(e) \in Types /\ Home[First(e)] = e
    BY FirstFacts
  <2>3. CASE db = Tables("legacy", {e}, {First(e)})
    BY <2>2, <2>3 DEF WriterModes
  <2>4. CASE \E ys \in SUBSET {y \in Types : Home[y] = e} :
               First(e) \in ys /\ db = Tables("ticket_type", {e}, ys)
    BY <2>4 DEF WriterModes
  <2> QED BY <2>1, <2>3, <2>4
<1> QED BY <1>1, StartTables DEF StartsOrderly

LEMMA TypesInit == ReadinessInit => ReadinessTypes
<1> SUFFICES ASSUME ReadinessInit PROVE ReadinessTypes
  OBVIOUS
<1>1. IsTables(db) /\ db.mode \in WriterModes
  BY InitFacts DEF Orderly
<1>2. \A k \in KeysOf(db) : k \in Keys /\ Row(db, k).remaining \in Nat /\ EventOf(k) \in db.events
  <2>1. \A k \in KeysOf(db) : k \in Keys /\ Row(db, k) \in Rows
    BY <1>1, KeysOfTables DEF IsTables
  <2>2. \A k \in KeysOf(db) : EventOf(k) \in db.events
    BY <1>1 DEF KeysOf, EventOf, IsTables
  <2> QED BY <2>1, <2>2 DEF Rows
<1>3. /\ counter = [k \in KeysOf(db) |-> Row(db, k).remaining]
      /\ version = [k \in KeysOf(db) |-> TRUE] /\ buying = NoBuyer
  BY DEF ReadinessInit
<1>4. WorldTypes
  BY <1>1, <1>2, <1>3 DEF WorldTypes
<1>5. CheckTypes
  BY <1>1 DEF ReadinessInit, CheckTypes, TypeSteps, EventSteps
<1> QED BY <1>4, <1>5 DEF ReadinessTypes

Starts == \E m \in WriterModes, p \in {"preflight", "postflight"} : StartCheck(m, p)

\* A new check has looked at nothing.
LEMMA StartFacts ==
  ASSUME Starts
  PROVE  /\ UNCHANGED <<db, valkey, counter, version, cached, buying, calm, sound>>
         /\ expect' \in WriterModes /\ phase' \in {"preflight", "postflight"}
         /\ snap' = db /\ found' = DatabaseViolations(db, expect') /\ step' = "types"
         /\ cursor' = <<0, 0>> /\ scanned' = {} /\ code' = "none"
         /\ step = "ended" /\ still' = Keys /\ busy' = (buying # NoBuyer) /\ upset' = FALSE
BY DEF Starts, StartCheck, Proceed, valkey

LEMMA TypesNext == ReadinessTypes /\ [ReadinessNext]_readinessVars => ReadinessTypes'
<1> SUFFICES ASSUME ReadinessTypes, [ReadinessNext]_readinessVars PROVE ReadinessTypes'
  OBVIOUS
<1>1. CASE Starts
  <2>1. WorldTypes'
    BY <1>1, StartFacts DEF ReadinessTypes, WorldTypes
  <2>2. CheckTypes'
    BY <1>1, StartFacts DEF ReadinessTypes, CheckTypes, WorldTypes, TypeSteps, EventSteps
  <2> QED BY <2>1, <2>2 DEF ReadinessTypes
<1>2. CASE Check
  BY <1>2, CheckReadsOnly, CheckKeepsTypes DEF ReadinessTypes, WorldTypes, valkey
<1>3. CASE World
  BY <1>3, WorldKeepsTypes, WorldKeepsCheckTypes DEF ReadinessTypes
<1>4. CASE UNCHANGED readinessVars
  BY <1>4 DEF readinessVars, valkey, checker, watched, ReadinessTypes, WorldTypes, CheckTypes
<1> QED BY <1>1, <1>2, <1>3, <1>4 DEF ReadinessNext, Starts

-----------------------------------------------------------------------------
(* Pages.                                                                  *)

\* ahead[r] are the rows that sort before r: a finite, strict and total order.
Sorts(S, ahead) ==
  /\ IsFiniteSet(S) /\ ahead \in [S -> SUBSET S]
  /\ \A r \in S : r \notin ahead[r]
  /\ \A r, s \in S : r = s \/ r \in ahead[s] \/ s \in ahead[r]
  /\ \A r, s \in S : r \in ahead[s] => ahead[r] \subseteq ahead[s]

\* A set of rows has a first and a last.
LEMMA EndsOfRows ==
  ASSUME NEW S, NEW ahead, Sorts(S, ahead), NEW R \in SUBSET S, R # {}
  PROVE  /\ \E r \in R : \A s \in R \ {r} : r \in ahead[s]
         /\ \E r \in R : \A s \in R \ {r} : s \in ahead[r]
<1>1. IsFiniteSet(R)
  BY FS_Subset DEF Sorts
<1>2. \E r \in R : \A s \in R \ {r} : r \in ahead[s]
  <2> DEFINE B == {ahead[r] \cap R : r \in R}
  <2>1. PICK w \in B : \A v \in B : v \subseteq w => v = w
    <3>1. B \subseteq SUBSET R /\ B # {}
      OBVIOUS
    <3> HIDE DEF B
    <3> QED BY <1>1, <3>1, MinimalSubset
  <2>2. PICK r \in R : w = ahead[r] \cap R
    OBVIOUS
  <2>3. ASSUME NEW s \in R, s \in ahead[r] PROVE FALSE
    <3>1. ahead[s] \cap R \in B /\ ahead[s] \cap R \subseteq w /\ s \in w /\ s \notin ahead[s]
      BY <2>2, <2>3 DEF Sorts
    <3> QED BY <2>1, <3>1
  <2> QED BY <2>2, <2>3 DEF Sorts
<1>3. \E r \in R : \A s \in R \ {r} : s \in ahead[r]
  <2> DEFINE B == {R \ (ahead[r] \cup {r}) : r \in R}
  <2>1. PICK w \in B : \A v \in B : v \subseteq w => v = w
    <3>1. B \subseteq SUBSET R /\ B # {}
      OBVIOUS
    <3> HIDE DEF B
    <3> QED BY <1>1, <3>1, MinimalSubset
  <2>2. PICK r \in R : w = R \ (ahead[r] \cup {r})
    OBVIOUS
  <2>3. ASSUME NEW s \in R, s \notin ahead[r], s # r PROVE FALSE
    <3>1. r \in ahead[s] /\ s \in S /\ r \in S
      BY <2>2, <2>3 DEF Sorts
    <3>2. ahead[r] \subseteq ahead[s]
      BY <3>1 DEF Sorts
    <3>3. /\ R \ (ahead[s] \cup {s}) \in B
          /\ R \ (ahead[s] \cup {s}) \subseteq w
          /\ s \in w
      BY <2>2, <2>3, <3>1, <3>2
    <3> QED BY <2>1, <3>3
  <2> QED BY <2>2, <2>3
<1> QED BY <1>2, <1>3

\* A page is what comes next; a page that is short, as one without rows, is the last.
LEMMA FirstRowsFacts ==
  ASSUME NEW S, NEW ahead, Sorts(S, ahead)
  PROVE  /\ FirstRows(ahead) \subseteq S
         /\ \A s \in S \ FirstRows(ahead) : \A r \in FirstRows(ahead) : r \in ahead[s]
         /\ S \ FirstRows(ahead) # {} => Cardinality(FirstRows(ahead)) = PageSize
         /\ FirstRows(ahead) = {} => S = {}
<1> DEFINE rows == FirstRows(ahead)
<1>1. /\ \A T \in SUBSET S : IsFiniteSet(T) /\ Cardinality(T) \in Nat
      /\ \A T \in SUBSET S : \A U \in SUBSET T : Cardinality(U) <= Cardinality(T)
  BY FS_Subset, FS_CardinalityType DEF Sorts
<1>2. rows = {r \in S : Cardinality(ahead[r]) < PageSize}
  BY DEF FirstRows, Sorts
<1>3. \A r \in S : ahead[r] \in SUBSET S
  BY DEF Sorts
<1> HIDE DEF rows
<1>4. ASSUME NEW s \in S \ rows, NEW r \in rows PROVE r \in ahead[s]
  <2> SUFFICES ASSUME r \notin ahead[s] PROVE FALSE
    OBVIOUS
  <2>1. ahead[s] \subseteq ahead[r] /\ r \in S
    BY <1>2 DEF Sorts
  <2>2. /\ Cardinality(ahead[s]) <= Cardinality(ahead[r])
        /\ Cardinality(ahead[s]) \in Nat /\ Cardinality(ahead[r]) \in Nat
    BY <1>1, <1>3, <2>1
  <2>3. Cardinality(ahead[r]) < PageSize /\ ~(Cardinality(ahead[s]) < PageSize)
    BY <1>2
  <2> QED BY <2>2, <2>3, PageAssumption
<1>5. ASSUME S \ rows # {} PROVE Cardinality(rows) = PageSize
  <2>1. PICK s \in S \ rows : \A u \in (S \ rows) \ {s} : s \in ahead[u]
    <3> DEFINE R == S \ rows
    <3>1. R \in SUBSET S /\ R # {}
      BY <1>5
    <3> HIDE DEF R
    <3>2. \E s \in R : \A u \in R \ {s} : s \in ahead[u]
      BY <3>1, EndsOfRows
    <3> QED BY <3>2 DEF R
  <2>2. ahead[s] = rows
    <3>1. rows \subseteq ahead[s]
      BY <1>4
    <3>2. ASSUME NEW u \in ahead[s] PROVE u \in rows
      <4>1. u \in S /\ u # s /\ s \notin ahead[u]
        BY DEF Sorts
      <4> QED BY <2>1, <4>1
    <3> QED BY <3>1, <3>2
  <2>3. ~(Cardinality(rows) < PageSize) /\ Cardinality(rows) \in Nat
    BY <1>1, <1>2, <1>3, <2>2
  <2>4. rows # {} /\ rows \subseteq S
    BY <1>2, <2>3, FS_EmptySet, PageAssumption
  <2>5. PICK l \in rows : \A r \in rows \ {l} : r \in ahead[l]
    BY <2>4, EndsOfRows
  <2>6. rows \subseteq ahead[l] \cup {l} /\ ahead[l] \in SUBSET S /\ l \notin ahead[l]
    BY <1>2, <1>3, <2>5 DEF Sorts
  <2>7. Cardinality(ahead[l] \cup {l}) = Cardinality(ahead[l]) + 1
    BY <1>1, <2>6, FS_AddElement
  <2>8. Cardinality(rows) <= Cardinality(ahead[l] \cup {l}) /\ Cardinality(ahead[l]) \in Nat
    BY <1>1, <2>4, <2>6
  <2>9. Cardinality(ahead[l]) < PageSize
    BY <1>2
  <2> QED BY <2>3, <2>7, <2>8, <2>9, PageAssumption
<1>6. rows = {} => S = {}
  BY <1>5, FS_EmptySet, PageAssumption
<1>7. rows \subseteq S
  BY <1>2
<1> QED BY <1>4, <1>5, <1>6, <1>7 DEF rows

\* Both passes read their rows in an order.
LEMMA TypesSort ==
  ASSUME IsTables(snap), NEW c
  PROVE  Sorts(TypesBeyond(c), [y \in TypesBeyond(c) |-> {z \in TypesBeyond(c) : Precedes(z, y)}])
<1> DEFINE S == TypesBeyond(c)
           ahead == [y \in S |-> {z \in S : Precedes(z, y)}]
<1>1. S \subseteq Types
  BY RowsOnMeans DEF TypesBeyond, IsTables, TablesType
<1>2. IsFiniteSet(S)
  BY <1>1, FiniteAssumption, FS_Subset
<1>3. \A y \in S : y \in Nat /\ Home[y] \in Nat
  BY <1>1, IdsAssumption, HomeAssumption
<1> HIDE DEF S
<1>4. \A y, z \in S : z \in ahead[y] <=> Precedes(z, y)
  OBVIOUS
<1>5. \A y, z, u \in S : Precedes(y, z) /\ Precedes(z, u) => Precedes(y, u)
  BY <1>3 DEF Precedes
<1>6. \A y, z \in S : ~Precedes(y, y) /\ (y = z \/ Precedes(y, z) \/ Precedes(z, y))
  BY <1>3 DEF Precedes
<1>7. ahead \in [S -> SUBSET S]
  OBVIOUS
<1> HIDE DEF ahead
<1>8. Sorts(S, ahead)
  <2>1. ASSUME NEW r \in S, NEW s \in S, r \in ahead[s], NEW u \in ahead[r] PROVE u \in ahead[s]
    <3>1. u \in S
      BY <1>7, <2>1
    <3>2. Precedes(u, r) /\ Precedes(r, s)
      BY <1>4, <2>1, <3>1
    <3> QED BY <1>4, <1>5, <3>1, <3>2
  <2> QED BY <1>2, <1>4, <1>6, <1>7, <2>1 DEF Sorts
<1> QED BY <1>8 DEF S, ahead

LEMMA EventsSort ==
  ASSUME IsTables(snap), NEW c
  PROVE  Sorts(EventsBeyond(c), [e \in EventsBeyond(c) |-> {d \in EventsBeyond(c) : d < e}])
<1> DEFINE S == EventsBeyond(c)
           ahead == [e \in S |-> {d \in S : d < e}]
<1>1. S \subseteq Events
  BY RowsOnMeans DEF EventsBeyond, IsTables, TablesType
<1>2. IsFiniteSet(S)
  BY <1>1, FiniteAssumption, FS_Subset
<1>3. \A e \in S : e \in Nat
  BY <1>1, IdsAssumption
<1> HIDE DEF S
<1>4. \A e, d \in S : d \in ahead[e] <=> d < e
  OBVIOUS
<1>7. ahead \in [S -> SUBSET S]
  OBVIOUS
<1> HIDE DEF ahead
<1>8. Sorts(S, ahead)
  <2>1. ASSUME NEW r \in S, NEW s \in S, r \in ahead[s], NEW u \in ahead[r] PROVE u \in ahead[s]
    <3>1. u \in S
      BY <1>7, <2>1
    <3>2. u < r /\ r < s
      BY <1>4, <2>1, <3>1
    <3> QED BY <1>3, <1>4, <3>1, <3>2
  <2> QED BY <1>2, <1>3, <1>4, <1>7, <2>1 DEF Sorts
<1> QED BY <1>8 DEF S, ahead

\* A page in hand comes next after the cursor, and a short one is the last.
PageInv ==
  /\ step \in {"typeRows", "typeRevision"} =>
       /\ page # {} /\ page \subseteq TypesBeyond(cursor)
       /\ \A y \in TypesBeyond(cursor) \ page : full /\ \A z \in page : Precedes(z, y)
  /\ step \in {"eventRows", "eventCounter"} =>
       /\ page # {} /\ page \subseteq EventsBeyond(cursor)
       /\ \A e \in EventsBeyond(cursor) \ page : full /\ \A d \in page : d < e
  /\ step = "typeRevision" => StrictTypes

FirstOn(y) == y \in page /\ \A z \in page \ {y} : Precedes(y, z)

\* The next row of a page moves the cursor past itself only.
LEMMA NextTypeFacts ==
  ASSUME CheckTypes, PageInv, step \in {"typeRows", "typeRevision"}, NEW y \in Types, FirstOn(y),
         NextType(y), snap' = snap, full' = full
  PROVE  /\ TypesBeyond(cursor)' = TypesBeyond(cursor) \ {y} /\ y \in TypesBeyond(cursor)
         /\ PageInv' /\ step' \in {"typeRows", "types", "scan"}
         /\ step' = "scan" => TypesBeyond(cursor) = {y}
<1>1. /\ page # {} /\ page \subseteq TypesBeyond(cursor)
      /\ \A z \in TypesBeyond(cursor) \ page : full /\ \A u \in page : Precedes(u, z)
  BY DEF PageInv
<1>2. TypesBeyond(cursor) \subseteq Types /\ \A z \in Types : z \in Nat /\ Home[z] \in Nat
  BY RowsOnMeans, IdsAssumption, HomeAssumption DEF TypesBeyond, CheckTypes, IsTables, TablesType
<1>3. y \in TypesBeyond(cursor) /\ cursor[1] \in Nat /\ cursor[2] \in Nat
  BY <1>1 DEF FirstOn, CheckTypes
<1>4. /\ page' = page \ {y} /\ cursor' = <<Home[y], y>>
      /\ step' = IF page # {y} THEN "typeRows" ELSE IF full THEN "types" ELSE "scan"
  BY DEF NextType, Proceed
<1>5. \A z \in TypesBeyond(cursor) \ {y} : Precedes(y, z)
  BY <1>1 DEF FirstOn
<1>6. TypesBeyond(cursor)' = {z \in DOMAIN snap.stock : Precedes(y, z)}
  BY <1>4 DEF TypesBeyond, Beyond, Precedes
<1>7. ASSUME NEW z \in DOMAIN snap.stock, Precedes(y, z) PROVE z \in TypesBeyond(cursor) \ {y}
  <2>1. z \in Types
    BY RowsOnMeans DEF CheckTypes, IsTables, TablesType
  <2>2. Beyond(y, cursor)
    BY <1>3 DEF TypesBeyond
  <2>3. Beyond(z, cursor) /\ z # y
    BY <1>2, <1>3, <1>7, <2>1, <2>2 DEF Beyond, Precedes
  <2> QED BY <2>3 DEF TypesBeyond
<1>8. TypesBeyond(cursor)' = TypesBeyond(cursor) \ {y}
  BY <1>5, <1>6, <1>7 DEF TypesBeyond
<1>9. ASSUME page = {y}, ~full PROVE TypesBeyond(cursor) = {y}
  BY <1>1, <1>9
<1>10. PageInv'
  <2>1. step' \in {"typeRows", "typeRevision"} =>
          /\ page' # {} /\ page' \subseteq TypesBeyond(cursor)'
          /\ \A z \in TypesBeyond(cursor)' \ page' : full' /\ \A u \in page' : Precedes(u, z)
    BY <1>1, <1>4, <1>8
  <2> QED BY <1>4, <2>1 DEF PageInv
<1> QED BY <1>3, <1>4, <1>8, <1>9, <1>10

\* The Event read next is the least of its page.
LEMMA LeastEvent ==
  ASSUME CheckTypes, PageInv, step \in {"eventRows", "eventCounter"}
  PROVE  /\ Min(page) \in page /\ \A d \in page \ {Min(page)} : Min(page) < d
         /\ page \subseteq Events
<1>1. page # {} /\ page \subseteq EventsBeyond(cursor)
  BY DEF PageInv
<1>2. Sorts(EventsBeyond(cursor),
            [e \in EventsBeyond(cursor) |-> {d \in EventsBeyond(cursor) : d < e}])
  BY EventsSort DEF CheckTypes
<1>3. PICK r \in page : \A s \in page \ {r} :
              r \in [e \in EventsBeyond(cursor) |-> {d \in EventsBeyond(cursor) : d < e}][s]
  <2> DEFINE ahead == [e \in EventsBeyond(cursor) |-> {d \in EventsBeyond(cursor) : d < e}]
  <2> HIDE DEF ahead
  <2>1. Sorts(EventsBeyond(cursor), ahead) /\ page \in SUBSET EventsBeyond(cursor) /\ page # {}
    BY <1>1, <1>2 DEF ahead
  <2>2. \E r \in page : \A s \in page \ {r} : r \in ahead[s]
    BY <2>1, EndsOfRows
  <2> QED BY <2>2 DEF ahead
<1>4. \A s \in page \ {r} : r < s
  BY <1>1, <1>3
<1>5. page \subseteq Events /\ \A e \in Events : e \in Nat
  BY <1>1, RowsOnMeans, IdsAssumption DEF EventsBeyond, CheckTypes, IsTables, TablesType
<1>6. \A s \in page : r <= s
  BY <1>4, <1>5
<1>7. Min(page) \in page /\ \A s \in page : Min(page) <= s
  BY <1>6 DEF Min
<1> QED BY <1>5, <1>7

\* After the last read of an Event.
LEMMA NextEventFacts ==
  ASSUME CheckTypes, PageInv, step = "eventCounter", NEW e \in Events, EventCounter(e)
  PROVE  /\ EventsBeyond(cursor)' = EventsBeyond(cursor) \ {e} /\ e \in EventsBeyond(cursor)
         /\ PageInv' /\ step' \in {"eventRows", "events", "search"}
         /\ step' = "search" => EventsBeyond(cursor) = {e}
<1>1. /\ page # {} /\ page \subseteq EventsBeyond(cursor)
      /\ \A d \in EventsBeyond(cursor) \ page : full /\ \A u \in page : u < d
  BY DEF PageInv
<1>2. e \in page /\ \A d \in page \ {e} : e < d
  BY LeastEvent DEF EventCounter
<1>3. DOMAIN snap.legacy \subseteq Nat /\ cursor[1] \in Nat
  BY RowsOnMeans, IdsAssumption DEF CheckTypes, IsTables, TablesType
<1>4. /\ page' = page \ {e} /\ cursor' = <<e, 0>> /\ snap' = snap /\ full' = full
      /\ step' = IF page # {e} THEN "eventRows" ELSE IF full THEN "events" ELSE "search"
  BY DEF EventCounter, Proceed, Options
<1>5. EventsBeyond(cursor)' = {d \in DOMAIN snap.legacy : d > e}
  BY <1>4 DEF EventsBeyond
<1>6. EventsBeyond(cursor)' = EventsBeyond(cursor) \ {e}
  <2>1. e \in DOMAIN snap.legacy /\ e > cursor[1]
    BY <1>1, <1>2 DEF EventsBeyond
  <2>2. \A d \in EventsBeyond(cursor) \ {e} : d > e
    BY <1>1, <1>2, <1>3, <2>1 DEF EventsBeyond
  <2> QED BY <1>3, <1>5, <2>1, <2>2 DEF EventsBeyond
<1>7. ASSUME page = {e}, ~full PROVE EventsBeyond(cursor) = {e}
  BY <1>1, <1>7
<1>8. PageInv'
  <2>1. step' \in {"eventRows", "eventCounter"} =>
          /\ page' # {} /\ page' \subseteq EventsBeyond(cursor)'
          /\ \A d \in EventsBeyond(cursor)' \ page' : full' /\ \A u \in page' : u < d
    BY <1>1, <1>4, <1>6
  <2> QED BY <1>4, <2>1 DEF PageInv
<1> QED BY <1>1, <1>2, <1>4, <1>6, <1>7, <1>8

-----------------------------------------------------------------------------
(* What a check has seen.                                                  *)

Ending == {"search", "ended"}
Running == step # "ended" \/ code = "0"

TypeDone(y) == \/ step \in EventSteps \cup Ending \cup {"scan"}
               \/ step \in TypeSteps /\ ~Beyond(y, cursor)
EventDone(e) == \/ step \in Ending
                \/ step \in EventSteps /\ ~(e > cursor[1])

\* Rows whose counter has been read, those whose revision has been as well, and
\* types the SCAN has passed.
LookedType(y) ==
  y \in DOMAIN snap.stock /\ (TypeDone(y) \/ (step = "typeRevision" /\ FirstOn(y)))
CheckedType(y) == y \in DOMAIN snap.stock /\ TypeDone(y)
LookedEvent(e) == e \in DOMAIN snap.legacy /\ EventDone(e)
CheckedEvent(e) ==
  e \in DOMAIN snap.legacy /\ (EventDone(e) \/ (step = "eventCounter" /\ e = Min(page)))
Scanned(y) == TypeKey(y) \in scanned \/ step \in EventSteps \cup Ending

\* A step sees what it reads, and no more.
Sees ==
  /\ \A y \in Types : LookedType(y)' => LookedType(y) \/ TypeCounter(y)
  /\ \A y \in Types : CheckedType(y)' =>
        CheckedType(y) \/ TypeRevision(y) \/ (TypeCounter(y) /\ step' # "typeRevision")
  /\ \A e \in Events : LookedEvent(e)' => LookedEvent(e) \/ EventCounter(e)
  /\ \A e \in Events : CheckedEvent(e)' => CheckedEvent(e) \/ EventVersion(e)
  /\ \A y \in Types : Scanned(y)' => Scanned(y) \/ Scan(TypeKey(y))

LEMMA OneFirst ==
  ASSUME NEW y \in Types, NEW z \in Types, FirstOn(y), FirstOn(z) PROVE y = z
<1>1. y \in Nat /\ z \in Nat /\ Home[y] \in Nat /\ Home[z] \in Nat
  BY IdsAssumption, HomeAssumption
<1> QED BY <1>1 DEF FirstOn, Precedes

LEMMA FetchTypesSees == ASSUME CheckTypes, PageInv, FetchTypes PROVE Sees /\ PageInv'
<1> DEFINE S == TypesBeyond(cursor)
           ahead == [y \in S |-> {z \in S : Precedes(z, y)}]
           rows == FirstRows(ahead)
<1>1. /\ step = "types" /\ page' = rows /\ full' = (Cardinality(rows) = PageSize)
      /\ step' = IF rows = {} THEN "scan" ELSE "typeRows"
      /\ UNCHANGED <<snap, expect, phase, cursor, scanned>>
  BY DEF FetchTypes, Proceed, Options
<1>2. Sorts(S, ahead)
  BY TypesSort DEF CheckTypes
<1> HIDE DEF rows
<1>3. /\ rows \subseteq S
      /\ \A s \in S \ rows : \A r \in rows : r \in ahead[s]
      /\ S \ rows # {} => Cardinality(rows) = PageSize
      /\ rows = {} => S = {}
  <2> HIDE DEF S, ahead
  <2> QED BY <1>2, FirstRowsFacts DEF rows
<1>4. \A s \in S \ rows : full' /\ \A r \in rows : Precedes(r, s)
  BY <1>1, <1>3
<1>5. TypesBeyond(cursor)' = S
  BY <1>1 DEF TypesBeyond
<1>6. PageInv'
  <2> HIDE DEF S, ahead
  <2> QED BY <1>1, <1>3, <1>4, <1>5 DEF PageInv
<1>7. rows = {} => \A y \in DOMAIN snap.stock : ~Beyond(y, cursor)
  BY <1>3 DEF TypesBeyond
<1>8. Sees
  <2>1. \A y \in Types : CheckedType(y)' => CheckedType(y)
    BY <1>1, <1>7 DEF CheckedType, TypeDone, TypeSteps, EventSteps, Ending
  <2>2. \A y \in Types : LookedType(y)' => LookedType(y)
    BY <1>1, <1>7 DEF LookedType, TypeDone, TypeSteps, EventSteps, Ending
  <2>3. \A e \in Events : ~LookedEvent(e)' /\ ~CheckedEvent(e)'
    BY <1>1 DEF LookedEvent, CheckedEvent, EventDone, EventSteps, Ending
  <2>4. \A y \in Types : Scanned(y)' => Scanned(y)
    BY <1>1 DEF Scanned, EventSteps, Ending
  <2> QED BY <2>1, <2>2, <2>3, <2>4 DEF Sees
<1> QED BY <1>6, <1>8

LEMMA FetchEventsSees == ASSUME CheckTypes, PageInv, FetchEvents PROVE Sees /\ PageInv'
<1> DEFINE S == EventsBeyond(cursor)
           ahead == [e \in S |-> {d \in S : d < e}]
           rows == FirstRows(ahead)
<1>1. /\ step = "events" /\ page' = rows /\ full' = (Cardinality(rows) = PageSize)
      /\ step' = IF rows = {} THEN "search" ELSE "eventRows"
      /\ UNCHANGED <<snap, expect, phase, cursor, scanned>>
  BY DEF FetchEvents, Proceed, Options
<1>2. Sorts(S, ahead)
  BY EventsSort DEF CheckTypes
<1> HIDE DEF rows
<1>3. /\ rows \subseteq S
      /\ \A s \in S \ rows : \A r \in rows : r \in ahead[s]
      /\ S \ rows # {} => Cardinality(rows) = PageSize
      /\ rows = {} => S = {}
  <2> HIDE DEF S, ahead
  <2> QED BY <1>2, FirstRowsFacts DEF rows
<1>4. \A s \in S \ rows : full' /\ \A r \in rows : r < s
  BY <1>1, <1>3
<1>5. EventsBeyond(cursor)' = S
  BY <1>1 DEF EventsBeyond
<1>6. PageInv'
  <2> HIDE DEF S, ahead
  <2> QED BY <1>1, <1>3, <1>4, <1>5 DEF PageInv
<1>7. rows = {} => \A e \in DOMAIN snap.legacy : ~(e > cursor[1])
  BY <1>3 DEF EventsBeyond
<1>8. Sees
  <2>1. \A y \in Types : (CheckedType(y)' => CheckedType(y)) /\ (LookedType(y)' => LookedType(y))
    BY <1>1 DEF CheckedType, LookedType, TypeDone, TypeSteps, EventSteps, Ending
  <2>2. \A e \in Events : (LookedEvent(e)' => LookedEvent(e)) /\ (CheckedEvent(e)' => CheckedEvent(e))
    BY <1>1, <1>7 DEF LookedEvent, CheckedEvent, EventDone, EventSteps, Ending
  <2>3. \A y \in Types : Scanned(y)' => Scanned(y)
    BY <1>1 DEF Scanned, EventSteps, Ending
  <2> QED BY <2>1, <2>2, <2>3 DEF Sees
<1> QED BY <1>6, <1>8

\* The cursor moves past one type.
LEMMA NextTypeSees ==
  ASSUME CheckTypes, PageInv, step \in {"typeRows", "typeRevision"}, NEW y \in Types, FirstOn(y),
         NextType(y), UNCHANGED <<snap, full, scanned>>
  PROVE  /\ PageInv' /\ step' \in {"typeRows", "types", "scan"}
         /\ \A z \in Types : LookedType(z)' \/ CheckedType(z)' => CheckedType(z) \/ z = y
         /\ \A e \in Events : ~LookedEvent(e)' /\ ~CheckedEvent(e)'
         /\ \A z \in Types : Scanned(z)' => Scanned(z)
<1>1. /\ TypesBeyond(cursor)' = TypesBeyond(cursor) \ {y} /\ y \in TypesBeyond(cursor)
      /\ PageInv' /\ step' \in {"typeRows", "types", "scan"}
      /\ step' = "scan" => TypesBeyond(cursor) = {y}
  BY NextTypeFacts
<1>2. ASSUME NEW z \in Types, LookedType(z)' \/ CheckedType(z)', z # y PROVE CheckedType(z)
  <2>1. z \in DOMAIN snap.stock
    BY <1>2 DEF LookedType, CheckedType
  <2>2. z \notin TypesBeyond(cursor)
    <3>1. CASE step' = "scan"
      BY <1>1, <1>2, <3>1
    <3>2. CASE step' # "scan"
      <4>1. ~Beyond(z, cursor')
        BY <1>1, <1>2, <3>2 DEF LookedType, CheckedType, TypeDone, TypeSteps, EventSteps, Ending
      <4>2. z \notin TypesBeyond(cursor)'
        BY <4>1 DEF TypesBeyond
      <4> QED BY <1>1, <1>2, <4>2
    <3> QED BY <3>1, <3>2
  <2>3. ~Beyond(z, cursor)
    BY <2>1, <2>2 DEF TypesBeyond
  <2> QED BY <2>1, <2>3 DEF CheckedType, TypeDone, TypeSteps
<1>3. \A e \in Events : ~LookedEvent(e)' /\ ~CheckedEvent(e)'
  BY <1>1 DEF LookedEvent, CheckedEvent, EventDone, EventSteps, Ending
<1>4. \A z \in Types : Scanned(z)' => Scanned(z)
  BY <1>1 DEF Scanned, EventSteps, Ending
<1> QED BY <1>1, <1>2, <1>3, <1>4

LEMMA TypeCounterSees ==
  ASSUME CheckTypes, PageInv, NEW y \in Types, TypeCounter(y) PROVE Sees /\ PageInv'
<1>1. step = "typeRows" /\ FirstOn(y) /\ UNCHANGED <<snap, expect, phase, full, scanned>>
  BY DEF TypeCounter, FirstOn, Options
<1>2. CASE NextType(y)
  <2>1. /\ PageInv' /\ step' \in {"typeRows", "types", "scan"}
        /\ \A z \in Types : LookedType(z)' \/ CheckedType(z)' => CheckedType(z) \/ z = y
        /\ \A e \in Events : ~LookedEvent(e)' /\ ~CheckedEvent(e)'
        /\ \A z \in Types : Scanned(z)' => Scanned(z)
    BY <1>1, <1>2, NextTypeSees
  <2>2. \A z \in Types : CheckedType(z) => LookedType(z)
    BY DEF CheckedType, LookedType
  <2> QED BY <2>1, <2>2 DEF Sees
<1>3. CASE Proceed("typeRevision") /\ StrictTypes /\ UNCHANGED <<page, cursor>>
  <2>1. step' = "typeRevision" /\ page' = page /\ cursor' = cursor /\ StrictTypes'
    BY <1>1, <1>3 DEF Proceed, StrictTypes
  <2>2. TypesBeyond(cursor)' = TypesBeyond(cursor)
    BY <1>1, <2>1 DEF TypesBeyond
  <2>3. PageInv'
    BY <1>1, <2>1, <2>2 DEF PageInv
  <2>4. \A z \in Types : LookedType(z)' => LookedType(z) \/ z = y
    <3>1. \A z \in Types : FirstOn(z)' => z = y
      BY <1>1, <2>1, OneFirst DEF FirstOn
    <3> QED BY <1>1, <2>1, <3>1 DEF LookedType, TypeDone, TypeSteps, EventSteps, Ending
  <2>5. \A z \in Types : CheckedType(z)' => CheckedType(z)
    BY <1>1, <2>1 DEF CheckedType, TypeDone, TypeSteps, EventSteps, Ending
  <2>6. \A e \in Events : ~LookedEvent(e)' /\ ~CheckedEvent(e)'
    BY <2>1 DEF LookedEvent, CheckedEvent, EventDone, EventSteps, Ending
  <2>7. \A z \in Types : Scanned(z)' => Scanned(z)
    BY <1>1, <2>1 DEF Scanned, EventSteps, Ending
  <2> QED BY <2>3, <2>4, <2>5, <2>6, <2>7 DEF Sees
<1> QED BY <1>2, <1>3 DEF TypeCounter

LEMMA TypeRevisionSees ==
  ASSUME CheckTypes, PageInv, NEW y \in Types, TypeRevision(y) PROVE Sees /\ PageInv'
<1>1. step = "typeRevision" /\ FirstOn(y) /\ UNCHANGED <<snap, full, scanned>> /\ NextType(y)
  BY DEF TypeRevision, FirstOn, Options
<1>2. /\ PageInv' /\ step' \in {"typeRows", "types", "scan"}
      /\ \A z \in Types : LookedType(z)' \/ CheckedType(z)' => CheckedType(z) \/ z = y
      /\ \A e \in Events : ~LookedEvent(e)' /\ ~CheckedEvent(e)'
      /\ \A z \in Types : Scanned(z)' => Scanned(z)
  BY <1>1, NextTypeSees
<1>3. \A z \in Types : CheckedType(z) => LookedType(z)
  BY DEF CheckedType, LookedType
<1>4. LookedType(y)
  BY <1>1 DEF LookedType, FirstOn, PageInv, TypesBeyond
<1> QED BY <1>2, <1>3, <1>4 DEF Sees

LEMMA ScanSees ==
  ASSUME CheckTypes, PageInv, NEW k \in TypeKeys, Scan(k) PROVE Sees /\ PageInv'
<1>1. /\ step = "scan" /\ scanned' = scanned \cup {k} /\ UNCHANGED <<snap, page, full>>
      /\ IF scanned' = TypeKeys THEN step' = "events" /\ cursor' = <<0, 0>>
         ELSE step' = step /\ cursor' = cursor
  BY DEF Scan, Proceed, Options
<1>2. PageInv'
  BY <1>1 DEF PageInv
<1>3. \A y \in Types : (CheckedType(y)' => CheckedType(y)) /\ (LookedType(y)' => LookedType(y))
  BY <1>1 DEF CheckedType, LookedType, TypeDone, TypeSteps, EventSteps, Ending
<1>4. \A e \in Events : ~LookedEvent(e)' /\ ~CheckedEvent(e)'
  <2>1. \A e \in Events : e > 0
    BY IdsAssumption
  <2> QED BY <1>1, <2>1 DEF LookedEvent, CheckedEvent, EventDone, EventSteps, Ending
<1>5. \A y \in Types : Scanned(y)' => Scanned(y) \/ TypeKey(y) = k
  <2>1. \A y \in Types : TypeKey(y) \in TypeKeys
    BY KeyFacts
  <2> QED BY <1>1, <2>1 DEF Scanned, EventSteps, Ending
<1>6. \A y \in Types : TypeKey(y) = k => Scan(TypeKey(y))
  OBVIOUS
<1> QED BY <1>2, <1>3, <1>4, <1>5, <1>6 DEF Sees

LEMMA EventVersionSees ==
  ASSUME CheckTypes, PageInv, NEW e \in Events, EventVersion(e) PROVE Sees /\ PageInv'
<1>1. /\ step = "eventRows" /\ step' = "eventCounter" /\ e = Min(page)
      /\ UNCHANGED <<snap, page, cursor, full, scanned>>
  BY DEF EventVersion, Proceed, Options
<1>2. EventsBeyond(cursor)' = EventsBeyond(cursor)
  BY <1>1 DEF EventsBeyond
<1>3. PageInv'
  BY <1>1, <1>2 DEF PageInv
<1>4. \A y \in Types : /\ CheckedType(y)' => CheckedType(y)
                       /\ LookedType(y)' => LookedType(y)
                       /\ Scanned(y)' => Scanned(y)
  BY <1>1 DEF CheckedType, LookedType, Scanned, TypeDone, TypeSteps, EventSteps, Ending
<1>5. \A d \in Events : LookedEvent(d)' => LookedEvent(d)
  BY <1>1 DEF LookedEvent, EventDone, EventSteps, Ending
<1>6. \A d \in Events : CheckedEvent(d)' => CheckedEvent(d) \/ d = e
  BY <1>1 DEF CheckedEvent, EventDone, EventSteps, Ending
<1> QED BY <1>3, <1>4, <1>5, <1>6 DEF Sees

LEMMA EventCounterSees ==
  ASSUME CheckTypes, PageInv, NEW e \in Events, EventCounter(e) PROVE Sees /\ PageInv'
<1>1. step = "eventCounter" /\ e = Min(page) /\ UNCHANGED <<snap, full, scanned>>
  BY DEF EventCounter, Options
<1>2. /\ EventsBeyond(cursor)' = EventsBeyond(cursor) \ {e} /\ e \in EventsBeyond(cursor)
      /\ PageInv' /\ step' \in {"eventRows", "events", "search"}
      /\ step' = "search" => EventsBeyond(cursor) = {e}
  BY <1>1, NextEventFacts
<1>3. \A y \in Types : /\ CheckedType(y)' => CheckedType(y)
                       /\ LookedType(y)' => LookedType(y)
                       /\ Scanned(y)' => Scanned(y)
  BY <1>1, <1>2 DEF CheckedType, LookedType, Scanned, TypeDone, TypeSteps, EventSteps, Ending
<1>4. ASSUME NEW d \in Events, d # e, LookedEvent(d)' \/ CheckedEvent(d)' PROVE LookedEvent(d)
  <2>1. d \in DOMAIN snap.legacy
    BY <1>1, <1>4 DEF LookedEvent, CheckedEvent
  <2>2. d \notin EventsBeyond(cursor)
    <3>1. CASE step' = "search"
      BY <1>2, <1>4, <3>1
    <3>2. CASE step' # "search"
      <4>1. ~(d > cursor'[1])
        BY <1>2, <1>4, <3>2 DEF LookedEvent, CheckedEvent, EventDone, EventSteps, Ending
      <4>2. d \notin EventsBeyond(cursor)'
        BY <4>1 DEF EventsBeyond
      <4> QED BY <1>2, <1>4, <4>2
    <3> QED BY <3>1, <3>2
  <2>3. ~(d > cursor[1])
    BY <2>1, <2>2 DEF EventsBeyond
  <2> QED BY <1>1, <2>1, <2>3 DEF LookedEvent, EventDone, EventSteps
<1>5. CheckedEvent(e)
  BY <1>1, <1>2 DEF CheckedEvent, EventsBeyond
<1>6. \A d \in Events : LookedEvent(d) => CheckedEvent(d)
  BY DEF LookedEvent, CheckedEvent
<1> QED BY <1>2, <1>3, <1>4, <1>5, <1>6 DEF Sees

\* Every step of a check that does not fail.
LEMMA CheckSees == ASSUME CheckTypes, PageInv, Check, Running' PROVE Sees /\ PageInv'
<1>1. CASE CheckSearch
  <2>1. step = "search" /\ step' = "ended" /\ snap' = snap
    BY <1>1 DEF CheckSearch, Leave, Proceed, Options
  <2>2. PageInv'
    BY <2>1 DEF PageInv
  <2>3. \A y \in Types : /\ CheckedType(y)' => CheckedType(y)
                         /\ LookedType(y)' => LookedType(y)
                         /\ Scanned(y)' => Scanned(y)
    BY <2>1 DEF CheckedType, LookedType, Scanned, TypeDone, TypeSteps, EventSteps, Ending
  <2>4. \A e \in Events : /\ LookedEvent(e)' => LookedEvent(e)
                          /\ CheckedEvent(e)' => CheckedEvent(e)
    BY <2>1 DEF LookedEvent, CheckedEvent, EventDone, EventSteps, Ending
  <2> QED BY <2>2, <2>3, <2>4 DEF Sees
<1>2. ~CheckFails
  BY DEF CheckFails, Leave, Proceed, Running
<1> QED BY <1>1, <1>2, FetchTypesSees, FetchEventsSees, TypeCounterSees, TypeRevisionSees, ScanSees,
           EventVersionSees, EventCounterSees DEF Check

LEMMA PageInvNext ==
  ASSUME ReadinessTypes, PageInv, [ReadinessNext]_readinessVars PROVE PageInv'
<1>1. CASE Check
  <2>1. CASE Running'
    BY <1>1, <2>1, CheckSees DEF ReadinessTypes
  <2>2. CASE ~Running'
    BY <2>2 DEF PageInv, Running
  <2> QED BY <2>1, <2>2
<1>2. CASE World \/ UNCHANGED readinessVars
  <2>1. UNCHANGED <<expect, phase, snap, step, cursor, page, full>>
    BY <1>2, WorldIsApart DEF readinessVars, checker
  <2>2. /\ TypesBeyond(cursor)' = TypesBeyond(cursor)
        /\ EventsBeyond(cursor)' = EventsBeyond(cursor) /\ StrictTypes' = StrictTypes
    BY <2>1 DEF TypesBeyond, EventsBeyond, StrictTypes
  <2> QED BY <2>1, <2>2 DEF PageInv
<1>3. CASE Starts
  BY <1>3, StartFacts DEF PageInv
<1> QED BY <1>1, <1>2, <1>3 DEF ReadinessNext, Starts

-----------------------------------------------------------------------------
(* Green checks.                                                           *)

\* What a check without violations so far knows of keys that stayed as they were.
TypeRight(y) ==
  LET k == TypeKey(y) IN
  /\ LookedType(y) =>
       /\ StrictTypes => k \in DOMAIN counter
       /\ k \in DOMAIN counter => /\ counter[k] <= snap.stock[y].total
                                  /\ StrictTypes => counter[k] = snap.stock[y].remaining
  /\ Scanned(y) /\ k \in DOMAIN counter => y \in DOMAIN snap.stock
EventRight(e) ==
  LET k == EventKey(e) IN
  LookedEvent(e) =>
    /\ EventsBecomeActive => k \in DOMAIN counter
    /\ k \in DOMAIN counter => /\ counter[k] <= snap.legacy[e].total
                               /\ StrictEvents => counter[k] = snap.legacy[e].remaining

GreenInv ==
  found = {} /\ Running =>
    /\ DatabaseViolations(snap, expect) = {}
    /\ \A y \in Types : TypeKey(y) \in still => TypeRight(y)
    /\ \A e \in Events : EventKey(e) \in still => EventRight(e)

\* What a step that finds nothing has read.
LEMMA TypeCounterRight ==
  ASSUME CheckTypes, WorldTypes, NEW y \in Types, TypeCounter(y), found' = {},
         y \in DOMAIN snap.stock
  PROVE  LET k == TypeKey(y) IN
         /\ StrictTypes => k \in DOMAIN counter /\ step' = "typeRevision"
         /\ k \in DOMAIN counter => /\ counter[k] <= snap.stock[y].total
                                    /\ StrictTypes => counter[k] = snap.stock[y].remaining
<1> DEFINE k == TypeKey(y)
<1>1. snap.stock[y].total \in Nat
  BY RowsOnMeans DEF CheckTypes, IsTables, TablesType, Rows
<1>2. CASE k \notin DOMAIN counter
  BY <1>2 DEF TypeCounter, Finds
<1>3. CASE k \in DOMAIN counter
  <2>1. counter[k] \in Nat
    BY <1>3 DEF WorldTypes
  <2>2. ~(counter[k] > snap.stock[y].total)
    BY <1>3 DEF TypeCounter, Finds
  <2>3. StrictTypes => ~Differs(counter[k], snap.stock[y])
    BY <1>3, <2>2 DEF TypeCounter, Finds
  <2>4. StrictTypes => step' = "typeRevision"
    BY <1>3 DEF TypeCounter, Proceed
  <2> QED BY <1>1, <1>3, <2>1, <2>2, <2>3, <2>4 DEF Differs
<1> QED BY <1>2, <1>3

LEMMA EventCounterRight ==
  ASSUME CheckTypes, WorldTypes, NEW e \in Events, EventCounter(e), found' = {},
         e \in DOMAIN snap.legacy
  PROVE  LET k == EventKey(e) IN
         /\ EventsBecomeActive => k \in DOMAIN counter
         /\ k \in DOMAIN counter => /\ counter[k] <= snap.legacy[e].total
                                    /\ StrictEvents => counter[k] = snap.legacy[e].remaining
<1> DEFINE k == EventKey(e)
<1>1. snap.legacy[e].total \in Nat
  BY RowsOnMeans DEF CheckTypes, IsTables, TablesType, Rows
<1>2. CASE k \notin DOMAIN counter
  BY <1>2 DEF EventCounter, Finds
<1>3. CASE k \in DOMAIN counter
  <2>1. counter[k] \in Nat
    BY <1>3 DEF WorldTypes
  <2>2. ~(counter[k] > snap.legacy[e].total)
    BY <1>3 DEF EventCounter, Finds
  <2>3. StrictEvents => ~Differs(counter[k], snap.legacy[e])
    BY <1>3, <2>2 DEF EventCounter, Finds
  <2> QED BY <1>1, <1>3, <2>1, <2>2, <2>3 DEF Differs
<1> QED BY <1>2, <1>3

LEMMA RevisionRight ==
  ASSUME NEW y \in Types, TypeRevision(y), found' = {}
  PROVE  TypeKey(y) \in DOMAIN version /\ version[TypeKey(y)]
BY DEF TypeRevision, Finds

LEMMA VersionRight ==
  ASSUME NEW e \in Events, EventVersion(e), found' = {}
  PROVE  EventKey(e) \in DOMAIN version => version[EventKey(e)]
BY DEF EventVersion, Finds

LEMMA ScanRight ==
  ASSUME NEW y \in Types, Scan(TypeKey(y)), found' = {}
  PROVE  TypeKey(y) \in DOMAIN counter => y \in DOMAIN snap.stock
BY KeyFacts DEF Scan, Finds

\* A check that has found nothing had found nothing before.
LEMMA FoundGrows == ASSUME Check, Running' PROVE found \subseteq found'
<1>1. ~CheckFails
  BY DEF CheckFails, Leave, Proceed, Running
<1>2. CASE CheckSearch
  BY <1>2 DEF CheckSearch, SearchFinds, Finds
<1>3. ASSUME NEW y \in Types, TypeCounter(y) \/ TypeRevision(y) PROVE found \subseteq found'
  BY <1>3 DEF TypeCounter, TypeRevision, Finds
<1>4. ASSUME NEW k \in TypeKeys, Scan(k) PROVE found \subseteq found'
  BY <1>4 DEF Scan, Finds
<1>5. ASSUME NEW e \in Events, EventVersion(e) \/ EventCounter(e) PROVE found \subseteq found'
  BY <1>5 DEF EventVersion, EventCounter, Finds
<1> QED BY <1>1, <1>2, <1>3, <1>4, <1>5 DEF Check, FetchTypes, FetchEvents

LEMMA CheckRuns == ASSUME CheckTypes, Check PROVE step # "ended" /\ Running
BY DEF CheckTypes, Check, FetchTypes, FetchEvents, CheckSearch, CheckFails, TypeCounter,
       TypeRevision, Scan, EventVersion, EventCounter, Running

LEMMA GreenCheck ==
  ASSUME ReadinessTypes, PageInv, GreenInv, Check, found' = {}, Running' PROVE GreenInv'
<1>1. /\ UNCHANGED <<counter, version, expect, phase, snap>> /\ still' \subseteq still
      /\ StrictTypes' = StrictTypes /\ StrictEvents' = StrictEvents
      /\ EventsBecomeActive' = EventsBecomeActive
  BY CheckReadsOnly DEF valkey, StrictTypes, StrictEvents, EventsBecomeActive
<1>2. Sees
  BY CheckSees DEF ReadinessTypes
<1>3. found = {} /\ Running
  BY FoundGrows, CheckRuns DEF ReadinessTypes
<1>4. ASSUME NEW y \in Types, TypeKey(y) \in still' PROVE TypeRight(y)'
  <2>1. TypeRight(y)
    BY <1>1, <1>3, <1>4 DEF GreenInv
  <2>2. ASSUME LookedType(y)'
        PROVE  /\ StrictTypes => TypeKey(y) \in DOMAIN counter
               /\ TypeKey(y) \in DOMAIN counter =>
                    /\ counter[TypeKey(y)] <= snap.stock[y].total
                    /\ StrictTypes => counter[TypeKey(y)] = snap.stock[y].remaining
    <3>1. CASE LookedType(y)
      BY <2>1, <3>1 DEF TypeRight
    <3>2. CASE TypeCounter(y)
      <4>1. y \in DOMAIN snap.stock
        BY <1>1, <2>2 DEF LookedType
      <4> QED BY <3>2, <4>1, TypeCounterRight DEF ReadinessTypes
    <3> QED BY <1>2, <2>2, <3>1, <3>2 DEF Sees
  <2>3. Scanned(y)' /\ TypeKey(y) \in DOMAIN counter => y \in DOMAIN snap.stock
    BY <1>2, <2>1, ScanRight DEF Sees, TypeRight
  <2> QED BY <1>1, <2>2, <2>3 DEF TypeRight
<1>5. ASSUME NEW e \in Events, EventKey(e) \in still' PROVE EventRight(e)'
  <2>1. EventRight(e)
    BY <1>1, <1>3, <1>5 DEF GreenInv
  <2>2. ASSUME LookedEvent(e)'
        PROVE  /\ EventsBecomeActive => EventKey(e) \in DOMAIN counter
               /\ EventKey(e) \in DOMAIN counter =>
                    /\ counter[EventKey(e)] <= snap.legacy[e].total
                    /\ StrictEvents => counter[EventKey(e)] = snap.legacy[e].remaining
    <3>1. CASE LookedEvent(e)
      BY <2>1, <3>1 DEF EventRight
    <3>2. CASE EventCounter(e)
      <4>1. e \in DOMAIN snap.legacy
        BY <1>1, <2>2 DEF LookedEvent
      <4> QED BY <3>2, <4>1, EventCounterRight DEF ReadinessTypes
    <3> QED BY <1>2, <2>2, <3>1, <3>2 DEF Sees
  <2> QED BY <1>1, <2>2 DEF EventRight
<1>6. DatabaseViolations(snap, expect) = {}
  BY <1>3 DEF GreenInv
<1> QED BY <1>1, <1>4, <1>5, <1>6 DEF GreenInv

\* A key that is still has the counter it had.
LEMMA StillKeys ==
  ASSUME World, NEW k \in still'
  PROVE  /\ k \in still /\ (k \in DOMAIN counter' <=> k \in DOMAIN counter)
         /\ k \in DOMAIN counter => counter'[k] = counter[k]
<1>1. (still' = still /\ UNCHANGED counter) \/ Watch
  BY DEF World, Switch, Expire, Buy, Refuse, DirectSql, Reserve, CreateEvent, AddTicketType, Seed,
         Evict, Distort, watched, valkey
<1>2. CASE Watch
  BY <1>2 DEF Watch, Value
<1> QED BY <1>1, <1>2

\* Nothing that a check has seen is forgotten by the steps of others.
LEMMA WorldForgetsNothing ==
  ASSUME World \/ UNCHANGED readinessVars
  PROVE  /\ \A y \in Types : /\ LookedType(y)' <=> LookedType(y)
                             /\ CheckedType(y)' <=> CheckedType(y)
                             /\ Scanned(y)' <=> Scanned(y)
         /\ \A e \in Events : /\ LookedEvent(e)' <=> LookedEvent(e)
                              /\ CheckedEvent(e)' <=> CheckedEvent(e)
         /\ StrictTypes' = StrictTypes /\ StrictEvents' = StrictEvents
         /\ EventsBecomeActive' = EventsBecomeActive
         /\ found' = found /\ (Running' => Running)
         /\ UNCHANGED <<expect, phase, snap, step>>
<1>1. /\ UNCHANGED <<expect, phase, snap, step, cursor, page, scanned, found>>
      /\ code' \in {code, "none"}
  BY WorldIsApart DEF readinessVars, checker
<1> QED BY <1>1 DEF LookedType, CheckedType, Scanned, LookedEvent, CheckedEvent, TypeDone,
                    EventDone, FirstOn, Running, StrictTypes, StrictEvents, EventsBecomeActive

LEMMA GreenWorld == ASSUME GreenInv, World \/ UNCHANGED readinessVars PROVE GreenInv'
<1> SUFFICES ASSUME found' = {}, Running' PROVE GreenInv'
  BY DEF GreenInv
<1>1. found = {} /\ Running /\ snap' = snap /\ expect' = expect
  BY WorldForgetsNothing
<1>2. ASSUME NEW k \in still'
      PROVE  /\ k \in still /\ (k \in DOMAIN counter' <=> k \in DOMAIN counter)
             /\ k \in DOMAIN counter => counter'[k] = counter[k]
  BY <1>2, StillKeys DEF readinessVars, valkey, watched
<1>3. ASSUME NEW y \in Types, TypeKey(y) \in still' PROVE TypeRight(y)'
  <2>1. TypeRight(y)
    BY <1>1, <1>2, <1>3 DEF GreenInv
  <2>2. /\ LookedType(y)' <=> LookedType(y)
        /\ Scanned(y)' <=> Scanned(y)
        /\ StrictTypes' = StrictTypes
    BY WorldForgetsNothing
  <2> QED BY <1>1, <1>2, <1>3, <2>1, <2>2 DEF TypeRight
<1>4. ASSUME NEW e \in Events, EventKey(e) \in still' PROVE EventRight(e)'
  <2>1. EventRight(e)
    BY <1>1, <1>2, <1>4 DEF GreenInv
  <2>2. /\ LookedEvent(e)' <=> LookedEvent(e)
        /\ StrictEvents' = StrictEvents /\ EventsBecomeActive' = EventsBecomeActive
    BY WorldForgetsNothing
  <2> QED BY <1>1, <1>2, <1>4, <2>1, <2>2 DEF EventRight
<1>5. DatabaseViolations(snap, expect) = {}
  BY <1>1 DEF GreenInv
<1> QED BY <1>1, <1>3, <1>4, <1>5 DEF GreenInv

\* A new check has seen nothing.
LEMMA StartSees ==
  ASSUME Starts
  PROVE  /\ \A y \in Types : ~LookedType(y)' /\ ~CheckedType(y)' /\ ~Scanned(y)'
         /\ \A e \in Events : ~LookedEvent(e)' /\ ~CheckedEvent(e)'
<1>1. step' = "types" /\ cursor' = <<0, 0>> /\ scanned' = {}
  BY StartFacts
<1>2. \A y \in Types : Home[y] > 0
  <2>1. \A e \in Events : e > 0
    BY IdsAssumption
  <2> QED BY <2>1, HomeFacts
<1>3. \A y \in Types : Beyond(y, cursor')
  BY <1>1, <1>2 DEF Beyond
<1> QED BY <1>1, <1>3 DEF LookedType, CheckedType, Scanned, LookedEvent, CheckedEvent, TypeDone,
                          EventDone, TypeSteps, EventSteps, Ending

LEMMA GreenStart == ASSUME Starts PROVE GreenInv'
<1>1. \A y \in Types : TypeRight(y)'
  BY StartSees DEF TypeRight
<1>2. \A e \in Events : EventRight(e)'
  BY StartSees DEF EventRight
<1>3. found' = {} => DatabaseViolations(snap', expect') = {}
  BY StartFacts
<1> QED BY <1>1, <1>2, <1>3 DEF GreenInv

LEMMA GreenNext ==
  ASSUME ReadinessTypes, PageInv, GreenInv, [ReadinessNext]_readinessVars PROVE GreenInv'
<1>1. CASE Check
  <2>1. CASE found' = {} /\ Running'
    BY <1>1, <2>1, GreenCheck
  <2>2. CASE ~(found' = {} /\ Running')
    BY <2>2 DEF GreenInv
  <2> QED BY <2>1, <2>2
<1> QED BY <1>1, GreenWorld, GreenStart DEF ReadinessNext, Starts

\* Of the types' keys the check has read counter and SCAN, of the Events' the counter.
LEMMA GreenSays == ASSUME ReadinessTypes, GreenInv PROVE GreenMissedNothing
<1> SUFFICES ASSUME code = "0" PROVE GreenMissedNothing
  BY DEF GreenMissedNothing
<1>1. step = "ended" /\ found = {} /\ Running
  BY DEF ReadinessTypes, CheckTypes, Running
<1>2. DatabaseViolations(snap, expect) = {} /\ snap \in TablesType /\ still \subseteq Keys
  BY <1>1 DEF GreenInv, ReadinessTypes, CheckTypes, IsTables
<1>3. ASSUME NEW y \in Types, TypeKey(y) \in still
      PROVE  LET k == TypeKey(y) IN
             /\ k \in DOMAIN counter /\ k \in KeysOf(snap) =>
                  /\ counter[k] <= Row(snap, k).total
                  /\ StrictTypes => counter[k] = Row(snap, k).remaining
             /\ k \in KeysOf(snap) /\ StrictTypes => k \in DOMAIN counter
             /\ k \in DOMAIN counter => k \in KeysOf(snap)
  <2>1. TypeRight(y)
    BY <1>1, <1>3 DEF GreenInv
  <2>2. /\ TypeKey(y) \in KeysOf(snap) <=> y \in DOMAIN snap.stock
        /\ Row(snap, TypeKey(y)) = snap.stock[y]
    BY <1>2, KeysOfTables
  <2>3. Scanned(y) /\ (y \in DOMAIN snap.stock => LookedType(y))
    BY <1>1 DEF Scanned, LookedType, TypeDone, Ending
  <2> QED BY <2>1, <2>2, <2>3 DEF TypeRight
<1>4. ASSUME NEW e \in Events, EventKey(e) \in still
      PROVE  LET k == EventKey(e) IN
             /\ k \in DOMAIN counter /\ k \in KeysOf(snap) =>
                  /\ counter[k] <= Row(snap, k).total
                  /\ StrictEvents => counter[k] = Row(snap, k).remaining
             /\ k \in KeysOf(snap) /\ EventsBecomeActive => k \in DOMAIN counter
  <2>1. EventRight(e)
    BY <1>1, <1>4 DEF GreenInv
  <2>2. /\ EventKey(e) \in KeysOf(snap) <=> e \in DOMAIN snap.legacy
        /\ Row(snap, EventKey(e)) = snap.legacy[e]
    BY <1>2, KeysOfTables
  <2>3. e \in DOMAIN snap.legacy => LookedEvent(e)
    BY <1>1 DEF LookedEvent, EventDone, Ending
  <2> QED BY <2>1, <2>2, <2>3 DEF EventRight
<1>5. \A k \in still : (\E y \in Types : k = TypeKey(y) /\ k \in TypeKeys /\ k \notin EventKeys)
                       \/ (\E e \in Events : k = EventKey(e) /\ k \in EventKeys /\ k \notin TypeKeys)
  BY <1>2, KeyFacts
<1>6. ASSUME NEW k \in still
      PROVE  LET held == IF k \in TypeKeys THEN StrictTypes ELSE StrictEvents IN
             /\ k \in DOMAIN counter /\ k \in KeysOf(snap) =>
                  /\ counter[k] <= Row(snap, k).total
                  /\ held => counter[k] = Row(snap, k).remaining
             /\ k \in KeysOf(snap) \cap TypeKeys /\ held => k \in DOMAIN counter
             /\ k \in TypeKeys \cap DOMAIN counter => k \in KeysOf(snap)
             /\ k \in KeysOf(snap) \cap EventKeys /\ EventsBecomeActive => k \in DOMAIN counter
  <2>1. CASE \E y \in Types : k = TypeKey(y) /\ k \in TypeKeys /\ k \notin EventKeys
    BY <1>3, <2>1
  <2>2. CASE \E e \in Events : k = EventKey(e) /\ k \in EventKeys /\ k \notin TypeKeys
    BY <1>4, <2>2
  <2> QED BY <1>5, <2>1, <2>2
<1> QED BY <1>2, <1>6 DEF GreenMissedNothing

-----------------------------------------------------------------------------
(* What happens to the rows.                                               *)

LEMMA KeyCases ==
  ASSUME NEW d, d \in TablesType, NEW k \in KeysOf(d)
  PROVE  \/ \E y \in Types : y \in DOMAIN d.stock /\ k = TypeKey(y)
         \/ \E e \in Events : e \in DOMAIN d.legacy /\ k = EventKey(e)
<1>1. DOMAIN d.stock \subseteq Types /\ DOMAIN d.legacy \subseteq Events
  BY RowsOnMeans DEF TablesType
<1> QED BY <1>1 DEF KeysOf, TypeKey, EventKey

\* A sale takes a ticket from the type's row and the Event's, and leaves the others.
LEMMA BuyRows ==
  ASSUME WorldTypes, Orderly(db), Buy
  PROVE  /\ IsTables(db') /\ Orderly(db') /\ db'.mode = db.mode
         /\ db'.types = db.types /\ db'.events = db.events /\ KeysOf(db') = KeysOf(db)
         /\ buying.type \in Types
         /\ LET sold == {TypeKey(buying.type), EventKey(Home[buying.type])} IN
            /\ sold \subseteq KeysOf(db)
            /\ \A k \in sold : Row(db', k) = OneLess(Row(db, k)) /\ Row(db, k).remaining > 0
            /\ \A k \in KeysOf(db) \ sold : Row(db', k) = Row(db, k)
<1> DEFINE y == buying.type
<1>1. y \in Types /\ CanSell(db, y) /\ db' = Sold(db, y) /\ IsTables(db)
  BY DEF Buy, WorldTypes
<1> HIDE DEF y
<1>2. Home[y] \in Events
  BY <1>1, HomeAssumption
<1>3. /\ IsTables(db') /\ db'.mode = db.mode /\ db'.types = db.types /\ db'.events = db.events
      /\ DOMAIN db'.stock = DOMAIN db.stock /\ DOMAIN db'.legacy = DOMAIN db.legacy
  BY <1>1, SaleTypes
<1>4. /\ \A z \in Types \ {y} : db'.stock[z] = db.stock[z]
      /\ \A x \in Events \ {Home[y]} : db'.legacy[x] = db.legacy[x]
  BY <1>1, SaleTypes
<1>5. /\ Orderly(db')
      /\ db'.stock[y] = OneLess(db.stock[y]) /\ db.stock[y].remaining > 0
      /\ db'.legacy[Home[y]] = OneLess(db.legacy[Home[y]]) /\ db.legacy[Home[y]].remaining > 0
  BY <1>1, SaleKeepsOrder
<1>6. KeysOf(db') = KeysOf(db)
  BY <1>3 DEF KeysOf
<1>7. y \in DOMAIN db.stock /\ Home[y] \in DOMAIN db.legacy
  BY <1>1 DEF CanSell
<1>8. /\ \A z \in Types : Row(db, TypeKey(z)) = db.stock[z] /\ Row(db', TypeKey(z)) = db'.stock[z]
      /\ \A e \in Events : Row(db, EventKey(e)) = db.legacy[e] /\ Row(db', EventKey(e)) = db'.legacy[e]
  BY DEF Row, TypeKey, EventKey
<1>9. TypeKey(y) \in KeysOf(db) /\ EventKey(Home[y]) \in KeysOf(db)
  BY <1>7 DEF KeysOf, TypeKey, EventKey
<1>10. ASSUME NEW k \in KeysOf(db), k # TypeKey(y), k # EventKey(Home[y])
       PROVE  Row(db', k) = Row(db, k)
  <2>1. \/ \E z \in Types : z \in DOMAIN db.stock /\ k = TypeKey(z)
        \/ \E e \in Events : e \in DOMAIN db.legacy /\ k = EventKey(e)
    BY <1>1, KeyCases DEF IsTables
  <2> QED BY <1>4, <1>8, <1>10, <2>1
<1> QED BY <1>1, <1>2, <1>3, <1>5, <1>6, <1>8, <1>9, <1>10 DEF y

\* A new Event has two new keys, with one row.
LEMMA CreationRows ==
  ASSUME WorldTypes, Orderly(db), NEW e \in Events, CreateEvent(e)
  PROVE  /\ IsTables(db') /\ Orderly(db') /\ db'.mode = db.mode /\ db.mode \in WriterModes
         /\ db.types \subseteq db'.types /\ db'.events = db.events \cup {e} /\ e \notin db.events
         /\ LET new == {TypeKey(First(e)), EventKey(e)} IN
            /\ KeysOf(db') = KeysOf(db) \cup new /\ new \cap KeysOf(db) = {}
            /\ \A k \in new : Row(db', k) = Fresh(Capacity[First(e)]) /\ EventOf(k) = e
            /\ \A k \in KeysOf(db) : Row(db', k) = Row(db, k)
<1> DEFINE y == First(e)
<1>1. IsTables(db) /\ e \notin db.events /\ db.mode \in WriterModes /\ db' = Created(db, e)
  BY CreationStep DEF WorldTypes
<1>2. /\ IsTables(db') /\ db'.mode = db.mode
      /\ db'.events = db.events \cup {e} /\ db'.types = db.types \cup {y}
      /\ DOMAIN db'.stock = DOMAIN db.stock \cup {y} /\ y \notin DOMAIN db.stock
      /\ DOMAIN db'.legacy = DOMAIN db.legacy \cup {e} /\ e \notin DOMAIN db.legacy
  BY <1>1, CreationFacts
<1>3. /\ db'.stock[y] = Fresh(Capacity[y]) /\ db'.legacy[e] = Fresh(Capacity[y])
      /\ \A z \in DOMAIN db.stock : db'.stock[z] = db.stock[z]
      /\ \A z \in DOMAIN db.legacy : db'.legacy[z] = db.legacy[z]
      /\ Orderly(db')
  BY <1>1, CreationFacts
<1>4. y \in Types /\ Home[y] = e
  BY FirstFacts
<1> HIDE DEF y
<1>5. KeysOf(db') = KeysOf(db) \cup {TypeKey(y), EventKey(e)}
  BY <1>2 DEF KeysOf, TypeKey, EventKey
<1>6. TypeKey(y) \notin KeysOf(db) /\ EventKey(e) \notin KeysOf(db)
  BY <1>2 DEF KeysOf, TypeKey, EventKey
<1>7. /\ \A z \in Types : Row(db, TypeKey(z)) = db.stock[z] /\ Row(db', TypeKey(z)) = db'.stock[z]
      /\ \A x \in Events : Row(db, EventKey(x)) = db.legacy[x] /\ Row(db', EventKey(x)) = db'.legacy[x]
  BY DEF Row, TypeKey, EventKey
<1>8. \A k \in KeysOf(db) : Row(db', k) = Row(db, k)
  <2> TAKE k \in KeysOf(db)
  <2>1. \/ \E z \in Types : z \in DOMAIN db.stock /\ k = TypeKey(z)
        \/ \E x \in Events : x \in DOMAIN db.legacy /\ k = EventKey(x)
    BY <1>1, KeyCases DEF IsTables
  <2> QED BY <1>3, <1>7, <2>1
<1>9. EventOf(TypeKey(y)) = e /\ EventOf(EventKey(e)) = e
  BY <1>4 DEF EventOf, TypeKey, EventKey
<1> QED BY <1>1, <1>2, <1>3, <1>4, <1>5, <1>6, <1>7, <1>8, <1>9 DEF y

\* A further type has one new key, and changes its Event's row.
LEMMA AdditionRows ==
  ASSUME WorldTypes, Orderly(db), NEW y \in Types, AddTicketType(y)
  PROVE  /\ IsTables(db') /\ Orderly(db') /\ db'.mode = db.mode /\ db.mode = "ticket_type"
         /\ db.types \subseteq db'.types /\ db'.events = db.events
         /\ y \in db'.types /\ y \notin Defaults
         /\ KeysOf(db') = KeysOf(db) \cup {TypeKey(y)}
         /\ \A k \in KeysOf(db) \cap TypeKeys : Row(db', k) = Row(db, k)
<1>1. /\ IsTables(db) /\ db.mode = "ticket_type" /\ Home[y] \in db.events /\ y \notin Defaults
      /\ y \notin db.types \cup DOMAIN db.stock /\ db' = Added(db, y)
  BY AdditionStep DEF WorldTypes
<1>2. /\ IsTables(db') /\ db'.mode = db.mode
      /\ db'.events = db.events /\ db'.types = db.types \cup {y}
      /\ DOMAIN db'.stock = DOMAIN db.stock \cup {y}
      /\ DOMAIN db'.legacy = DOMAIN db.legacy \cup {Home[y]}
  BY <1>1, AdditionFacts
<1>3. /\ \A z \in DOMAIN db.stock : db'.stock[z] = db.stock[z]
      /\ Orderly(db')
  BY <1>1, AdditionFacts
<1>4. DOMAIN db'.legacy = DOMAIN db.legacy
  BY <1>1, <1>2 DEF Orderly
<1>5. KeysOf(db') = KeysOf(db) \cup {TypeKey(y)}
  BY <1>2, <1>4 DEF KeysOf, TypeKey
<1>6. \A k \in KeysOf(db) \cap TypeKeys : Row(db', k) = Row(db, k)
  BY <1>3 DEF KeysOf, TypeKeys, Row
<1> QED BY <1>1, <1>2, <1>3, <1>5, <1>6

\* The steps that are neither the switch nor made by hand.
Ordinary ==
  \/ Expire \/ Buy \/ Refuse
  \/ \E y \in Types, m \in WriterModes : Reserve(y, m)
  \/ \E e \in Events : CreateEvent(e)
  \/ \E y \in Types : AddTicketType(y)
  \/ \E k \in Keys : Seed(k) \/ Evict(k)

LEMMA WorldSteps ==
  World => Ordinary \/ Switch \/ DirectSql \/ \E k \in Keys : Distort(k)
BY DEF World, Ordinary

\* Order lasts, and no row gains tickets unless its Event gains a type.
LEMMA OrdinaryKeepsOrder ==
  ASSUME WorldTypes, Orderly(db), Ordinary
  PROVE  /\ IsTables(db') /\ Orderly(db') /\ db'.mode = db.mode
         /\ db.types \subseteq db'.types /\ db.events \subseteq db'.events
         /\ KeysOf(db) \subseteq KeysOf(db')
         /\ \A k \in KeysOf(db) : db'.types \subseteq Defaults \/ k \in Namespace(db.mode) =>
              Row(db', k).remaining <= Row(db, k).remaining
         /\ \A k \in KeysOf(db') \ KeysOf(db) :
              db'.types \subseteq Defaults => EventOf(k) \notin db.events
<1>1. IsTables(db)
  BY DEF WorldTypes
<1>2. \A k \in KeysOf(db) : k \in Keys /\ Row(db, k) \in Rows
  BY <1>1, KeysOfTables DEF IsTables
<1>3. \A k \in KeysOf(db) : Row(db, k).remaining \in Nat
  BY <1>2 DEF Rows
<1>4. CASE db' = db
  BY <1>1, <1>3, <1>4
<1>5. CASE Buy
  <2>1. /\ IsTables(db') /\ Orderly(db') /\ db'.mode = db.mode
        /\ db'.types = db.types /\ db'.events = db.events /\ KeysOf(db') = KeysOf(db)
    BY <1>5, BuyRows
  <2>2. \A k \in KeysOf(db) : Row(db', k) = Row(db, k) \/ Row(db', k) = OneLess(Row(db, k))
    BY <1>5, BuyRows
  <2>3. \A k \in KeysOf(db) : Row(db', k).remaining <= Row(db, k).remaining
    BY <1>2, <1>3, <2>2 DEF OneLess, Rows
  <2> QED BY <2>1, <2>3
<1>6. ASSUME NEW e \in Events, CreateEvent(e)
      PROVE  /\ IsTables(db') /\ Orderly(db') /\ db'.mode = db.mode
             /\ db.types \subseteq db'.types /\ db.events \subseteq db'.events
             /\ KeysOf(db) \subseteq KeysOf(db')
             /\ \A k \in KeysOf(db) : Row(db', k).remaining <= Row(db, k).remaining
             /\ \A k \in KeysOf(db') \ KeysOf(db) : EventOf(k) \notin db.events
  <2>1. /\ IsTables(db') /\ Orderly(db') /\ db'.mode = db.mode
        /\ db.types \subseteq db'.types /\ db'.events = db.events \cup {e} /\ e \notin db.events
    BY <1>6, CreationRows
  <2>2. /\ KeysOf(db) \subseteq KeysOf(db')
        /\ \A k \in KeysOf(db) : Row(db', k) = Row(db, k)
        /\ \A k \in KeysOf(db') \ KeysOf(db) : EventOf(k) = e
    BY <1>6, CreationRows
  <2> QED BY <1>3, <2>1, <2>2
<1>7. ASSUME NEW y \in Types, AddTicketType(y)
      PROVE  /\ IsTables(db') /\ Orderly(db') /\ db'.mode = db.mode
             /\ db.types \subseteq db'.types /\ db.events \subseteq db'.events
             /\ KeysOf(db) \subseteq KeysOf(db') /\ ~(db'.types \subseteq Defaults)
             /\ \A k \in KeysOf(db) \cap Namespace(db.mode) :
                  Row(db', k).remaining <= Row(db, k).remaining
  <2>1. /\ IsTables(db') /\ Orderly(db') /\ db'.mode = db.mode /\ db.mode = "ticket_type"
        /\ db.types \subseteq db'.types /\ db'.events = db.events
        /\ y \in db'.types /\ y \notin Defaults
        /\ KeysOf(db') = KeysOf(db) \cup {TypeKey(y)}
        /\ \A k \in KeysOf(db) \cap TypeKeys : Row(db', k) = Row(db, k)
    BY <1>7, AdditionRows
  <2>2. Namespace(db.mode) = TypeKeys
    BY <2>1 DEF Namespace
  <2> QED BY <1>3, <2>1, <2>2
<1>8. db' = db \/ Buy \/ (\E e \in Events : CreateEvent(e)) \/ \E y \in Types : AddTicketType(y)
  BY DEF Ordinary, Expire, Refuse, Reserve, Seed, Evict
<1> QED BY <1>4, <1>5, <1>6, <1>7, <1>8

-----------------------------------------------------------------------------
(* Counters that cover their rows.                                         *)

Held(k) == IF buying.key = k THEN 1 ELSE 0
Broken(k) == k \in DOMAIN version /\ ~version[k]
Covered(k) == k \in DOMAIN counter => counter[k] + Held(k) >= Row(db, k).remaining

\* A counter read as right stays so, or its revision is broken, which the check has
\* yet to see.
Sure(k) == Covered(k) \/ (Broken(k) /\ buying.key # k)

LEMMA NoNewBroken == ASSUME Ordinary, NEW k, ~Broken(k) PROVE ~Broken(k)'
<1>1. \/ version' = version
      \/ \E x : version' = Assign(version, x, TRUE)
      \/ \E x : version' = Drop(version, x)
  BY DEF Ordinary, Expire, Buy, Refuse, Reserve, CreateEvent, AddTicketType, Seed, Evict, valkey
<1>2. ASSUME NEW x, version' = Assign(version, x, TRUE) PROVE ~Broken(k)'
  BY <1>2 DEF Broken, Assign
<1>3. ASSUME NEW x, version' = Drop(version, x) PROVE ~Broken(k)'
  BY <1>3 DEF Broken, Drop
<1> QED BY <1>1, <1>2, <1>3 DEF Broken

\* The steps, and what they do to the counters and the purchase.
LEMMA ReserveStep ==
  ASSUME WorldTypes, NEW y \in Types, NEW m, Reserve(y, m)
  PROVE  LET k == PlanKey(y, m)
             known == k \in DOMAIN counter /\ ~Broken(k)
         IN /\ db' = db /\ buying = NoBuyer /\ busy' /\ y \in db.types
            /\ k \in DOMAIN counter => counter[k] > 0
            /\ buying' = [type |-> y, plan |-> m, key |-> IF known THEN k ELSE NoKey]
            /\ version' = IF known THEN Assign(version, k, TRUE) ELSE version
            /\ counter' = IF k \in DOMAIN counter THEN [counter EXCEPT ![k] = @ - 1] ELSE counter
            /\ calm' = (calm /\ m = db.mode)
BY DEF Reserve, PlanKey, Broken

LEMMA BuyStep ==
  ASSUME WorldTypes, Orderly(db), Buy
  PROVE  LET k == PlanKey(buying.type, buying.plan) IN
         /\ buying' = NoBuyer /\ buying # NoBuyer /\ UNCHANGED <<busy, calm>>
         /\ k \in KeysOf(db') /\ buying.key \in {k, NoKey}
         /\ k \in {TypeKey(buying.type), EventKey(Home[buying.type])}
         /\ \/ UNCHANGED <<counter, version>>
            \/ /\ counter' = Assign(counter, k, Row(db', k).remaining)
               /\ version' = Assign(version, k, TRUE)
<1> DEFINE k == PlanKey(buying.type, buying.plan)
<1>1. /\ buying.type \in Types /\ KeysOf(db') = KeysOf(db)
      /\ {TypeKey(buying.type), EventKey(Home[buying.type])} \subseteq KeysOf(db)
  BY BuyRows
<1>2. k \in {TypeKey(buying.type), EventKey(Home[buying.type])}
  BY <1>1, PlanKeyFacts
<1>3. buying # NoBuyer /\ buying.key \in {k, NoKey}
  BY DEF Buy, WorldTypes
<1>4. \/ UNCHANGED <<counter, version>>
      \/ /\ counter' = Assign(counter, k, Row(db', k).remaining)
         /\ version' = Assign(version, k, TRUE)
  BY DEF Buy, PlanKey, valkey
<1>5. buying' = NoBuyer /\ UNCHANGED <<busy, calm>>
  BY DEF Buy
<1> HIDE DEF k
<1> QED BY <1>1, <1>2, <1>3, <1>4, <1>5 DEF k

LEMMA RefuseStep ==
  ASSUME Refuse
  PROVE  LET k == buying.key IN
         /\ db' = db /\ buying' = NoBuyer /\ buying # NoBuyer /\ UNCHANGED <<busy, calm>>
         /\ counter' = IF k \in DOMAIN counter THEN [counter EXCEPT ![k] = @ + 1] ELSE counter
         /\ version' = IF k \in DOMAIN counter THEN Assign(version, k, TRUE) ELSE version
BY DEF Refuse

LEMMA CreateStep ==
  ASSUME NEW e \in Events, CreateEvent(e)
  PROVE  LET y == First(e)
             k == PlanKey(y, db.mode)
         IN /\ buying' = buying /\ busy'
            /\ \/ /\ counter' = Assign(counter, k, Capacity[y])
                  /\ version' = Assign(version, k, TRUE) /\ calm' = calm
               \/ UNCHANGED <<counter, version>> /\ ~calm'
BY FirstFacts DEF CreateEvent, PlanKey, valkey

LEMMA SeedStep ==
  ASSUME NEW k \in Keys, Seed(k)
  PROVE  /\ k \in KeysOf(db) \ Namespace(db.mode) /\ UNCHANGED <<db, buying, busy, calm>>
         /\ counter' = Assign(counter, k, Row(db, k).remaining)
         /\ version' = Assign(version, k, TRUE)
BY DEF Seed

LEMMA NoBuyerHolds == NoBuyer.key = NoKey /\ \A k \in Keys : k # NoKey
BY KeyFacts DEF NoBuyer

\* A counter that was made anew is right.
LEMMA NewCounter ==
  ASSUME WorldTypes, Orderly(db), Ordinary, NEW k \in DOMAIN counter', k \notin DOMAIN counter
  PROVE  k \in KeysOf(db') /\ Covered(k)' /\ ~Broken(k)'
<1>1. \A x \in KeysOf(db) : x \in Keys /\ Row(db, x).remaining \in Nat
  BY KeysOfTables DEF WorldTypes, IsTables, Rows
<1>2. Held(k)' \in {0, 1}
  BY DEF Held
<1>3. ASSUME NEW x \in KeysOf(db'), counter' = Assign(counter, x, Row(db', x).remaining),
             version' = Assign(version, x, TRUE), Row(db', x).remaining \in Nat
      PROVE  k \in KeysOf(db') /\ Covered(k)' /\ ~Broken(k)'
  <2>1. k = x /\ counter'[k] = Row(db', k).remaining /\ k \in DOMAIN version' /\ version'[k] = TRUE
    BY <1>3 DEF Assign
  <2>2. counter'[k] + Held(k)' >= Row(db', k).remaining
    BY <1>2, <1>3, <2>1
  <2> QED BY <1>3, <2>1, <2>2 DEF Covered, Broken
<1>4. CASE Buy
  <2> DEFINE x == PlanKey(buying.type, buying.plan)
  <2>1. /\ x \in KeysOf(db')
        /\ \/ UNCHANGED <<counter, version>>
           \/ /\ counter' = Assign(counter, x, Row(db', x).remaining)
              /\ version' = Assign(version, x, TRUE)
    BY <1>4, BuyStep
  <2>2. \A z \in KeysOf(db') : Row(db', z).remaining \in Nat
    <3>1. IsTables(db')
      BY <1>4, BuyRows
    <3> QED BY <3>1, KeysOfTables DEF IsTables, Rows
  <2> HIDE DEF x
  <2> QED BY <1>3, <2>1, <2>2
<1>5. ASSUME NEW e \in Events, CreateEvent(e) PROVE k \in KeysOf(db') /\ Covered(k)' /\ ~Broken(k)'
  <2> DEFINE x == PlanKey(First(e), db.mode)
             n == Capacity[First(e)]
  <2>1. /\ counter' = Assign(counter, x, n)
        /\ version' = Assign(version, x, TRUE)
    BY <1>5, CreateStep
  <2>2. x \in {TypeKey(First(e)), EventKey(e)}
    BY FirstFacts, PlanKeyFacts
  <2>3. x \in KeysOf(db') /\ Row(db', x) = Fresh(n)
    BY <1>5, <2>2, CreationRows
  <2>4. Row(db', x).remaining = n /\ n \in Nat
    BY <2>3, FirstFacts, CapacityAssumption DEF Fresh
  <2> HIDE DEF x, n
  <2> QED BY <1>3, <2>1, <2>3, <2>4
<1>6. ASSUME NEW x \in Keys, Seed(x) PROVE k \in KeysOf(db') /\ Covered(k)' /\ ~Broken(k)'
  BY <1>1, <1>3, <1>6, SeedStep
<1>7. DOMAIN counter' \subseteq DOMAIN counter
         \/ Buy \/ (\E e \in Events : CreateEvent(e)) \/ (\E x \in Keys : Seed(x))
  BY DEF Ordinary, Expire, Refuse, Reserve, AddTicketType, Evict, valkey, Drop
<1> QED BY <1>4, <1>5, <1>6, <1>7

LEMMA CoverKept ==
  ASSUME WorldTypes, Orderly(db), Ordinary, NEW k \in KeysOf(db), Sure(k),
         Row(db', k).remaining <= Row(db, k).remaining, Row(db', k).remaining \in Nat,
         ~(Broken(k) /\ k \notin DOMAIN version')
  PROVE  Sure(k)'
<1> DEFINE r == Row(db, k).remaining
           r2 == Row(db', k).remaining
<1>1. k \in Keys /\ r \in Nat /\ r2 \in Nat /\ r2 <= r
  BY KeysOfTables DEF WorldTypes, IsTables, Rows
<1>2. k \in DOMAIN counter => counter[k] \in Nat
  BY DEF WorldTypes
<1>3. buying = NoBuyer => buying.key # k
  BY <1>1, NoBuyerHolds
<1>4. CASE k \notin DOMAIN counter
  <2>1. CASE k \in DOMAIN counter'
    BY <1>4, <2>1, NewCounter DEF Sure
  <2>2. CASE k \notin DOMAIN counter'
    BY <2>2 DEF Sure, Covered
  <2> QED BY <2>1, <2>2
<1> SUFFICES ASSUME k \in DOMAIN counter PROVE Sure(k)'
  BY <1>4
<1>5. \/ counter[k] + Held(k) >= r
      \/ Broken(k) /\ buying.key # k
  BY DEF Sure, Covered
<1>6. CASE /\ UNCHANGED <<counter, version>> /\ (buying' = buying \/ buying' = NoBuyer)
           /\ (buying.key = k => buying'.key = k)
  <2>1. Held(k)' = Held(k) /\ (buying.key # k => buying'.key # k)
    BY <1>1, <1>6, NoBuyerHolds DEF Held
  <2>2. Held(k) \in {0, 1}
    BY DEF Held
  <2>3. Broken(k)' = Broken(k)
    BY <1>6 DEF Broken
  <2>4. counter[k] + Held(k) >= r => counter'[k] + Held(k)' >= r2
    BY <1>1, <1>2, <1>6, <2>1, <2>2
  <2> HIDE DEF r, r2
  <2> QED BY <1>5, <2>1, <2>3, <2>4 DEF Sure, Covered, r2
<1>7. ASSUME NEW y \in Types, NEW m \in WriterModes, Reserve(y, m) PROVE Sure(k)'
  <2> DEFINE x == PlanKey(y, m)
             known == x \in DOMAIN counter /\ ~Broken(x)
  <2>1. /\ db' = db /\ buying = NoBuyer
        /\ x \in DOMAIN counter => counter[x] > 0
        /\ buying' = [type |-> y, plan |-> m, key |-> IF known THEN x ELSE NoKey]
        /\ version' = IF known THEN Assign(version, x, TRUE) ELSE version
        /\ counter' = IF x \in DOMAIN counter THEN [counter EXCEPT ![x] = @ - 1] ELSE counter
    BY <1>7, ReserveStep
  <2>2. buying.key # k /\ Held(k) = 0
    BY <1>3, <2>1 DEF Held
  <2>3. buying'.key = IF known THEN x ELSE NoKey
    BY <2>1
  <2>4. x \in Keys /\ k # NoKey
    BY <1>1, PlanKeyFacts, NoBuyerHolds
  <2> HIDE DEF x
  <2>5. CASE k # x
    <3>1. counter'[k] = counter[k] /\ buying'.key # k /\ Held(k)' = 0
      BY <2>1, <2>3, <2>4, <2>5 DEF Held
    <3>2. Broken(k) => Broken(k)'
      BY <2>1, <2>5 DEF Broken, Assign
    <3> QED BY <1>1, <1>2, <1>5, <2>2, <3>1, <3>2 DEF Sure, Covered
  <2>6. CASE k = x /\ known
    <3>1. counter'[k] = counter[k] - 1 /\ Held(k)' = 1
      BY <2>1, <2>3, <2>6 DEF Held
    <3>2. counter[k] >= r
      BY <1>2, <1>5, <2>2, <2>6
    <3> QED BY <1>1, <1>2, <3>1, <3>2 DEF Sure, Covered
  <2>7. CASE k = x /\ ~known
    <3>1. Broken(k)' /\ buying'.key # k
      BY <2>1, <2>3, <2>4, <2>7 DEF Broken
    <3> QED BY <3>1 DEF Sure
  <2> QED BY <2>5, <2>6, <2>7
<1>8. CASE Refuse
  <2> DEFINE x == buying.key
  <2>1. /\ db' = db /\ buying' = NoBuyer
        /\ counter' = IF x \in DOMAIN counter THEN [counter EXCEPT ![x] = @ + 1] ELSE counter
        /\ version' = IF x \in DOMAIN counter THEN Assign(version, x, TRUE) ELSE version
    BY <1>8, RefuseStep
  <2>2. buying'.key # k /\ Held(k)' = 0
    BY <1>1, <2>1, NoBuyerHolds DEF Held
  <2>3. CASE k = x
    <3>1. counter'[k] = counter[k] + 1 /\ counter[k] + 1 >= r
      BY <1>5, <2>1, <2>3 DEF Held
    <3> QED BY <1>1, <1>2, <2>2, <3>1 DEF Sure, Covered
  <2>4. CASE k # x
    <3>1. counter'[k] = counter[k] /\ Held(k) = 0
      BY <2>1, <2>4 DEF Held
    <3>2. Broken(k) => Broken(k)'
      BY <2>1, <2>4 DEF Broken, Assign
    <3> QED BY <1>1, <1>2, <1>5, <2>2, <3>1, <3>2 DEF Sure, Covered
  <2> QED BY <2>3, <2>4
<1>9. CASE Buy
  <2> DEFINE x == PlanKey(buying.type, buying.plan)
             sold == {TypeKey(buying.type), EventKey(Home[buying.type])}
  <2>1. /\ buying' = NoBuyer /\ x \in KeysOf(db') /\ buying.key \in {x, NoKey} /\ x \in sold
        /\ \/ UNCHANGED <<counter, version>>
           \/ /\ counter' = Assign(counter, x, Row(db', x).remaining)
              /\ version' = Assign(version, x, TRUE)
    BY <1>9, BuyStep
  <2>2. \A z \in sold : Row(db', z) = OneLess(Row(db, z)) /\ Row(db, z).remaining > 0
    BY <1>9, BuyRows
  <2>3. buying'.key # k /\ Held(k)' = 0
    BY <1>1, <2>1, NoBuyerHolds DEF Held
  <2>4. buying.key = k => r2 = r - 1 /\ r > 0
    <3>1. ASSUME buying.key = k PROVE k \in sold
      BY <1>1, <2>1, <3>1, NoBuyerHolds
    <3>2. Row(db, k) \in Rows
      BY KeysOfTables DEF WorldTypes, IsTables
    <3> HIDE DEF sold
    <3> QED BY <2>2, <3>1, <3>2 DEF OneLess, Rows
  <2> HIDE DEF x, sold
  <2>5. CASE UNCHANGED <<counter, version>>
    <3>1. Broken(k)' = Broken(k)
      BY <2>5 DEF Broken
    <3>2. ASSUME counter[k] + Held(k) >= r PROVE counter'[k] + Held(k)' >= r2
      <4>1. CASE buying.key = k
        BY <1>1, <1>2, <2>3, <2>4, <2>5, <3>2, <4>1 DEF Held
      <4>2. CASE buying.key # k
        BY <1>1, <1>2, <2>3, <2>5, <3>2, <4>2 DEF Held
      <4> QED BY <4>1, <4>2
    <3> QED BY <1>5, <2>3, <3>1, <3>2 DEF Sure, Covered
  <2>6. CASE counter' = Assign(counter, x, Row(db', x).remaining)
             /\ version' = Assign(version, x, TRUE)
    <3>1. CASE k = x
      <4>1. counter'[k] = r2
        BY <2>6, <3>1 DEF Assign
      <4> QED BY <1>1, <2>3, <4>1 DEF Sure, Covered
    <3>2. CASE k # x
      <4>1. counter'[k] = counter[k] /\ Held(k) = 0
        BY <1>1, <2>1, <2>6, <3>2, NoBuyerHolds DEF Assign, Held
      <4>2. Broken(k) => Broken(k)'
        BY <2>6, <3>2 DEF Broken, Assign
      <4> QED BY <1>1, <1>2, <1>5, <2>3, <4>1, <4>2 DEF Sure, Covered
    <3> QED BY <3>1, <3>2
  <2> QED BY <2>1, <2>5, <2>6
<1>10. ASSUME NEW e \in Events, CreateEvent(e) PROVE Sure(k)'
  <2> DEFINE x == PlanKey(First(e), db.mode)
  <2>1. /\ buying' = buying
        /\ \/ /\ counter' = Assign(counter, x, Capacity[First(e)])
              /\ version' = Assign(version, x, TRUE)
           \/ UNCHANGED <<counter, version>>
    BY <1>10, CreateStep
  <2>2. x # k
    <3>1. x \in {TypeKey(First(e)), EventKey(e)}
      BY FirstFacts, PlanKeyFacts
    <3>2. {TypeKey(First(e)), EventKey(e)} \cap KeysOf(db) = {}
      BY <1>10, CreationRows
    <3> QED BY <3>1, <3>2
  <2> HIDE DEF x
  <2>3. counter'[k] = counter[k] /\ Held(k)' = Held(k) /\ buying'.key = buying.key
    BY <2>1, <2>2 DEF Assign, Held
  <2>4. Broken(k) => Broken(k)'
    BY <2>1, <2>2 DEF Broken, Assign
  <2>5. Held(k) \in {0, 1}
    BY DEF Held
  <2> QED BY <1>1, <1>2, <1>5, <2>3, <2>4, <2>5 DEF Sure, Covered
<1>11. ASSUME NEW x \in Keys, Seed(x) PROVE Sure(k)'
  <2>1. /\ UNCHANGED <<db, buying>>
        /\ counter' = Assign(counter, x, Row(db, x).remaining)
        /\ version' = Assign(version, x, TRUE)
    BY <1>11, SeedStep
  <2>2. Held(k)' = Held(k) /\ Held(k) \in {0, 1}
    BY <2>1 DEF Held
  <2>3. CASE k = x
    <3>1. counter'[k] = r /\ r2 = r
      BY <2>1, <2>3 DEF Assign
    <3> QED BY <1>1, <2>2, <3>1 DEF Sure, Covered
  <2>4. CASE k # x
    <3>1. counter'[k] = counter[k]
      BY <2>1, <2>4 DEF Assign
    <3>2. Broken(k) => Broken(k)'
      BY <2>1, <2>4 DEF Broken, Assign
    <3> QED BY <1>1, <1>2, <1>5, <2>1, <2>2, <3>1, <3>2 DEF Sure, Covered
  <2> QED BY <2>3, <2>4
<1>12. ASSUME NEW x \in Keys, Evict(x) PROVE Sure(k)'
  <2>1. buying' = buying /\ (\/ counter' = Drop(counter, x) /\ version' = version
                             \/ version' = Drop(version, x) /\ counter' = counter)
    BY <1>12 DEF Evict
  <2>2. Held(k)' = Held(k) /\ Held(k) \in {0, 1}
    BY <2>1 DEF Held
  <2>3. CASE k \in DOMAIN counter'
    <3>1. counter'[k] = counter[k]
      BY <2>1, <2>3 DEF Drop
    <3>2. Broken(k) => Broken(k)'
      <4>1. Broken(k) => k \in DOMAIN version'
        OBVIOUS
      <4> QED BY <2>1, <4>1 DEF Broken, Drop
    <3> QED BY <1>1, <1>2, <1>5, <2>1, <2>2, <3>1, <3>2 DEF Sure, Covered
  <2>4. CASE k \notin DOMAIN counter'
    BY <2>4 DEF Sure, Covered
  <2> QED BY <2>3, <2>4
<1>13. CASE Expire \/ \E y \in Types : AddTicketType(y)
  BY <1>6, <1>13 DEF Expire, AddTicketType, valkey
<1> QED BY <1>7, <1>8, <1>9, <1>10, <1>11, <1>12, <1>13 DEF Ordinary

-----------------------------------------------------------------------------
(* What a preflight without violations so far knows of the counters that   *)
(* the switch would put to use, whoever has changed them meanwhile.        *)

Looked(k) == (k \in TypeKeys /\ LookedType(k[2])) \/ (k \in EventKeys /\ LookedEvent(k[2]))
Checked(k) == (k \in TypeKeys /\ CheckedType(k[2])) \/ (k \in EventKeys /\ CheckedEvent(k[2]))
Passed(k) == k \in TypeKeys /\ Scanned(k[2])

Attested == phase = "preflight" /\ ~upset /\ found = {} /\ Running

KeyFit(k) ==
  /\ Looked(k) => Sure(k)
  /\ Checked(k) => ~Broken(k)
  /\ k \in KeysOf(db) \ KeysOf(snap) => Covered(k) /\ ~Broken(k)
  /\ k \notin KeysOf(db) /\ Passed(k) => k \notin DOMAIN counter

SwitchInv ==
  Attested =>
    /\ Orderly(db) /\ db.mode = expect
    /\ KeysOf(snap) \subseteq KeysOf(db)
    /\ db.types \subseteq Defaults =>
         /\ \A k \in KeysOf(snap) : Row(db, k).remaining <= Row(snap, k).remaining
         /\ \A k \in Namespace(OtherMode(expect)) : KeyFit(k)

LEMMA LookedRows ==
  ASSUME CheckTypes, NEW k, Looked(k) \/ Checked(k) PROVE k \in KeysOf(snap) /\ k \in Keys
<1>1. snap \in TablesType
  BY DEF CheckTypes, IsTables
<1>2. CASE k \in TypeKeys
  <2>1. k[2] \in DOMAIN snap.stock /\ k[2] \in Types /\ k = TypeKey(k[2])
    BY <1>2, KeyFacts DEF Looked, Checked, LookedType, CheckedType
  <2> QED BY <1>1, <2>1, KeysOfTables
<1>3. CASE k \in EventKeys
  <2>1. k[2] \in DOMAIN snap.legacy /\ k[2] \in Events /\ k = EventKey(k[2])
    BY <1>3, KeyFacts DEF Looked, Checked, LookedEvent, CheckedEvent
  <2> QED BY <1>1, <2>1, KeysOfTables
<1> QED BY <1>2, <1>3 DEF Looked, Checked

\* A broken revision does not go unnoticed, but by eviction.
LEMMA BrokenStays ==
  ASSUME Ordinary, ~upset', NEW k, Broken(k) PROVE k \in DOMAIN version' /\ ~upset
<1>1. ASSUME NEW x, Evict(x) PROVE k \in DOMAIN version' /\ ~upset
  <2>1. version' = Drop(version, x) \/ version' = version
    BY <1>1 DEF Evict
  <2>2. ~upset /\ ~(x \notin DOMAIN version' /\ x \in DOMAIN version /\ ~version[x])
    BY <1>1 DEF Evict
  <2> QED BY <2>1, <2>2 DEF Drop, Broken
<1>2. CASE ~ \E x \in Keys : Evict(x)
  <2>1. version' = version \/ \E x : version' = Assign(version, x, TRUE)
    BY <1>2 DEF Ordinary, Expire, Buy, Refuse, Reserve, CreateEvent, AddTicketType, Seed, valkey
  <2>2. upset' = upset
    BY <1>2 DEF Ordinary, Expire, Buy, Refuse, Reserve, CreateEvent, AddTicketType, Seed, watched
  <2> QED BY <2>1, <2>2 DEF Assign, Broken
<1> QED BY <1>1, <1>2

LEMMA UpsetLasts == ASSUME Ordinary, ~upset' PROVE ~upset
BY DEF Ordinary, Expire, Buy, Refuse, Reserve, CreateEvent, AddTicketType, Seed, Evict, watched

LEMMA SwitchOrdinary == ASSUME ReadinessTypes, SwitchInv, Ordinary PROVE SwitchInv'
<1> SUFFICES ASSUME Attested' PROVE SwitchInv'
  BY DEF SwitchInv
<1>1. /\ World
      /\ UNCHANGED <<expect, phase, snap, step>> /\ found' = found /\ (Running' => Running)
      /\ \A y \in Types : /\ LookedType(y)' <=> LookedType(y)
                          /\ CheckedType(y)' <=> CheckedType(y)
                          /\ Scanned(y)' <=> Scanned(y)
      /\ \A e \in Events : /\ LookedEvent(e)' <=> LookedEvent(e)
                           /\ CheckedEvent(e)' <=> CheckedEvent(e)
  <2>1. World
    BY DEF Ordinary, World
  <2> QED BY <2>1, WorldForgetsNothing
<1>2. Attested
  BY <1>1, UpsetLasts DEF Attested
<1>3. /\ Orderly(db) /\ db.mode = expect /\ KeysOf(snap) \subseteq KeysOf(db)
      /\ WorldTypes /\ CheckTypes
      /\ ~upset'
  BY <1>2 DEF SwitchInv, ReadinessTypes, Attested
<1>4. /\ IsTables(db') /\ Orderly(db') /\ db'.mode = db.mode
      /\ db.types \subseteq db'.types /\ db.events \subseteq db'.events
      /\ KeysOf(db) \subseteq KeysOf(db')
  BY <1>3, OrdinaryKeepsOrder
<1>5. ASSUME db'.types \subseteq Defaults
      PROVE  /\ \A k \in KeysOf(snap) : Row(db', k).remaining <= Row(snap, k).remaining
             /\ \A k \in Namespace(OtherMode(expect)) : KeyFit(k)'
  <2>1. /\ \A k \in KeysOf(snap) : Row(db, k).remaining <= Row(snap, k).remaining
        /\ \A k \in Namespace(OtherMode(expect)) : KeyFit(k)
    BY <1>2, <1>4, <1>5 DEF SwitchInv
  <2>2. /\ \A k \in KeysOf(db) : Row(db', k).remaining <= Row(db, k).remaining
        /\ \A k \in KeysOf(db') \ KeysOf(db) : EventOf(k) \notin db.events
    BY <1>3, <1>5, OrdinaryKeepsOrder
  <2>3. /\ \A k \in KeysOf(db) : Row(db, k).remaining \in Nat
        /\ \A k \in KeysOf(db') : Row(db', k).remaining \in Nat
        /\ \A k \in KeysOf(snap) : Row(snap, k).remaining \in Nat
    BY <1>3, <1>4, KeysOfTables DEF WorldTypes, CheckTypes, IsTables, Rows
  <2>4. ASSUME NEW k \in KeysOf(snap) PROVE Row(db', k).remaining <= Row(snap, k).remaining
    <3>1. /\ Row(db', k).remaining <= Row(db, k).remaining
          /\ Row(db, k).remaining <= Row(snap, k).remaining
          /\ Row(db', k).remaining \in Nat /\ Row(db, k).remaining \in Nat
          /\ Row(snap, k).remaining \in Nat
      BY <1>3, <1>4, <2>1, <2>2, <2>3
    <3> QED BY <3>1
  <2>5. ASSUME NEW k \in KeysOf(db), Sure(k) PROVE Sure(k)'
    <3>1. ~(Broken(k) /\ k \notin DOMAIN version')
      BY <1>3, BrokenStays
    <3>2. Row(db', k).remaining <= Row(db, k).remaining /\ Row(db', k).remaining \in Nat
      BY <1>4, <2>2, <2>3
    <3> QED BY <1>3, <2>5, <3>1, <3>2, CoverKept
  <2>6. ASSUME NEW k \in Namespace(OtherMode(expect)) PROVE KeyFit(k)'
    <3>1. KeyFit(k)
      BY <2>1, <2>6
    <3>2. (Looked(k)' <=> Looked(k)) /\ (Checked(k)' <=> Checked(k)) /\ (Passed(k)' <=> Passed(k))
      BY <1>1, KeyFacts DEF Looked, Checked, Passed
    <3>3. Looked(k)' => Sure(k)'
      BY <1>3, <2>5, <3>1, <3>2, LookedRows DEF KeyFit
    <3>4. Checked(k)' => ~Broken(k)'
      BY <3>1, <3>2, NoNewBroken DEF KeyFit
    <3>5. ASSUME k \in KeysOf(db') \ KeysOf(snap) PROVE Covered(k)' /\ ~Broken(k)'
      <4>1. CASE k \in KeysOf(db)
        <5>1. Covered(k) /\ ~Broken(k)
          BY <1>1, <3>1, <3>5, <4>1 DEF KeyFit
        <5>2. Sure(k)' /\ ~Broken(k)'
          BY <2>5, <4>1, <5>1, NoNewBroken DEF Sure
        <5> QED BY <5>2 DEF Sure
      <4>2. CASE k \notin KeysOf(db)
        <5>1. k \notin DOMAIN counter /\ k \notin DOMAIN version
          BY <1>3, <2>2, <3>5, <4>2 DEF WorldTypes
        <5>2. ~Broken(k)'
          BY <5>1, NoNewBroken DEF Broken
        <5>3. k \in DOMAIN counter' => Covered(k)'
          BY <1>3, <5>1, NewCounter
        <5> QED BY <5>2, <5>3 DEF Covered
      <4> QED BY <4>1, <4>2
    <3>6. k \notin KeysOf(db') /\ Passed(k)' => k \notin DOMAIN counter'
      <4>1. ASSUME k \notin KeysOf(db'), Passed(k)' PROVE k \notin DOMAIN counter
        BY <1>4, <3>1, <3>2, <4>1 DEF KeyFit
      <4> QED BY <1>3, <4>1, NewCounter
    <3> QED BY <1>1, <3>3, <3>4, <3>5, <3>6 DEF KeyFit
  <2> QED BY <2>4, <2>6
<1> QED BY <1>1, <1>3, <1>4, <1>5 DEF SwitchInv

LEMMA SwitchWorld ==
  ASSUME ReadinessTypes, SwitchInv, World \/ UNCHANGED readinessVars PROVE SwitchInv'
<1>1. CASE Ordinary
  BY <1>1, SwitchOrdinary
<1>2. CASE Switch
  <2>1. ~Running'
    BY <1>2 DEF Switch, Running
  <2> QED BY <2>1 DEF SwitchInv, Attested
<1>3. CASE DirectSql
  BY <1>3 DEF DirectSql, Manual, SwitchInv, Attested
<1>4. ASSUME NEW x \in Keys, Distort(x) PROVE SwitchInv'
  BY <1>4 DEF Distort, Manual, SwitchInv, Attested
<1>5. CASE UNCHANGED readinessVars
  <2>1. /\ UNCHANGED <<db, counter, version, buying, upset, found>>
        /\ UNCHANGED <<expect, phase, snap, step>> /\ (Running' => Running)
        /\ \A y \in Types : /\ LookedType(y)' <=> LookedType(y)
                            /\ CheckedType(y)' <=> CheckedType(y)
                            /\ Scanned(y)' <=> Scanned(y)
        /\ \A e \in Events : /\ LookedEvent(e)' <=> LookedEvent(e)
                             /\ CheckedEvent(e)' <=> CheckedEvent(e)
    BY <1>5, WorldForgetsNothing DEF readinessVars, valkey, checker, watched
  <2>2. Attested' => Attested
    BY <2>1 DEF Attested
  <2>3. ASSUME NEW k, KeyFit(k) PROVE KeyFit(k)'
    <3>1. (Looked(k)' <=> Looked(k)) /\ (Checked(k)' <=> Checked(k)) /\ (Passed(k)' <=> Passed(k))
      BY <2>1, KeyFacts DEF Looked, Checked, Passed
    <3>2. (Sure(k)' <=> Sure(k)) /\ (Covered(k)' <=> Covered(k)) /\ (Broken(k)' <=> Broken(k))
      BY <2>1 DEF Sure, Covered, Broken, Held
    <3> QED BY <2>1, <2>3, <3>1, <3>2 DEF KeyFit
  <2> QED BY <2>1, <2>2, <2>3 DEF SwitchInv
<1> QED BY <1>1, <1>2, <1>3, <1>4, <1>5, WorldSteps

\* A new preflight has nothing to show yet but the tables.
LEMMA SwitchStart == ASSUME ReadinessTypes, Starts PROVE SwitchInv'
<1> SUFFICES ASSUME Attested' PROVE SwitchInv'
  BY DEF SwitchInv
<1>1. /\ UNCHANGED <<db, counter, version, buying>> /\ snap' = db
      /\ expect' \in WriterModes /\ DatabaseViolations(db, expect') = {}
  BY StartFacts DEF Attested
<1>2. Orderly(db) /\ db.mode = expect'
  BY <1>1, GreenMeansOrderly DEF ReadinessTypes, WorldTypes
<1>3. \A k \in KeysOf(db) : Row(db, k).remaining <= Row(db, k).remaining
  <2>1. \A k \in KeysOf(db) : Row(db, k).remaining \in Nat
    BY KeysOfTables DEF ReadinessTypes, WorldTypes, IsTables, Rows
  <2> QED BY <2>1
<1>4. ASSUME NEW k PROVE KeyFit(k)'
  <2>1. ~Looked(k)' /\ ~Checked(k)' /\ ~Passed(k)'
    BY StartSees, KeyFacts DEF Looked, Checked, Passed
  <2> QED BY <1>1, <2>1 DEF KeyFit
<1> QED BY <1>1, <1>2, <1>3, <1>4 DEF SwitchInv

LEMMA SwitchCheck == ASSUME ReadinessTypes, PageInv, SwitchInv, Check PROVE SwitchInv'
<1> SUFFICES ASSUME Attested' PROVE SwitchInv'
  BY DEF SwitchInv
<1>1. UNCHANGED <<db, counter, version, buying, upset, expect, phase, snap>>
  BY CheckReadsOnly DEF valkey
<1>2. found' = {} /\ Running' /\ phase = "preflight" /\ ~upset /\ CheckTypes /\ WorldTypes
  BY <1>1 DEF Attested, ReadinessTypes
<1>3. found = {} /\ Running
  BY <1>2, FoundGrows, CheckRuns
<1>4. Sees
  BY <1>2, CheckSees
<1>5. Attested /\ StrictTypes /\ StrictEvents
  BY <1>2, <1>3 DEF Attested, StrictTypes, StrictEvents
<1>6. /\ Orderly(db) /\ db.mode = expect /\ KeysOf(snap) \subseteq KeysOf(db)
      /\ db.types \subseteq Defaults =>
         /\ \A k \in KeysOf(snap) : Row(db, k).remaining <= Row(snap, k).remaining
         /\ \A k \in Namespace(OtherMode(expect)) : KeyFit(k)
  BY <1>5 DEF SwitchInv
<1>7. /\ \A k \in KeysOf(snap) : Row(snap, k).remaining \in Nat
      /\ \A k \in KeysOf(db) : Row(db, k).remaining \in Nat
  BY <1>2, KeysOfTables DEF WorldTypes, CheckTypes, IsTables, Rows
<1>8. /\ \A y \in Types : Row(snap, TypeKey(y)) = snap.stock[y]
      /\ \A e \in Events : Row(snap, EventKey(e)) = snap.legacy[e]
  BY <1>2, KeysOfTables DEF CheckTypes, IsTables
<1>9. ASSUME db.types \subseteq Defaults, NEW k \in Namespace(OtherMode(expect))
      PROVE  KeyFit(k)'
  <2>1. KeyFit(k) /\ k \in Keys
    BY <1>6, <1>9, KeyFacts DEF Namespace
  <2>2. ASSUME Looked(k)' PROVE Sure(k)'
    <3>1. k \in KeysOf(snap)
      <4>1. CheckTypes'
        BY <1>2, CheckKeepsTypes
      <4>2. (k \in KeysOf(snap))' /\ (k \in Keys)'
        <5> QED BY <2>2, <1>1, <1>2, KeyFacts, KeysOfTables
            DEF Looked, LookedType, LookedEvent, CheckTypes, IsTables
      <4> QED BY <1>1, <4>2
    <3>2. counter[k] = Row(snap, k).remaining \/ k \notin DOMAIN counter \/ Looked(k)
      <4>1. CASE k \in TypeKeys
        <5>1. k[2] \in Types /\ k = TypeKey(k[2]) /\ LookedType(k[2])' /\ k \notin EventKeys
          BY <2>2, <4>1, KeyFacts DEF Looked
        <5>2. CASE LookedType(k[2])
          BY <4>1, <5>2 DEF Looked
        <5>3. CASE TypeCounter(k[2])
          <6>1. k[2] \in DOMAIN snap.stock
            BY <1>1, <5>1 DEF LookedType
          <6>2. k \in DOMAIN counter => counter[k] = snap.stock[k[2]].remaining
            BY <1>2, <1>5, <5>1, <5>3, <6>1, TypeCounterRight
          <6> QED BY <1>8, <5>1, <6>2
        <5> QED BY <1>4, <5>1, <5>2, <5>3 DEF Sees
      <4>2. CASE k \in EventKeys
        <5>1. k[2] \in Events /\ k = EventKey(k[2]) /\ LookedEvent(k[2])'
          BY <2>2, <4>2, KeyFacts DEF Looked
        <5>2. CASE LookedEvent(k[2])
          BY <4>2, <5>2 DEF Looked
        <5>3. CASE EventCounter(k[2])
          <6>1. k[2] \in DOMAIN snap.legacy
            BY <1>1, <5>1 DEF LookedEvent
          <6>2. k \in DOMAIN counter => counter[k] = snap.legacy[k[2]].remaining
            BY <1>2, <1>5, <5>1, <5>3, <6>1, EventCounterRight
          <6> QED BY <1>8, <5>1, <6>2
        <5> QED BY <1>4, <5>1, <5>2, <5>3 DEF Sees
      <4> QED BY <2>1, <4>1, <4>2 DEF Keys
    <3>3. Sure(k)
      <4>1. CASE Looked(k)
        BY <2>1, <4>1 DEF KeyFit
      <4>2. CASE k \notin DOMAIN counter
        BY <4>2 DEF Sure, Covered
      <4>3. CASE counter[k] = Row(snap, k).remaining
        <5>1. Row(db, k).remaining <= Row(snap, k).remaining /\ Row(db, k).remaining \in Nat
              /\ Row(snap, k).remaining \in Nat
          BY <1>6, <1>7, <1>9, <3>1
        <5>2. Held(k) \in {0, 1}
          BY DEF Held
        <5> QED BY <4>3, <5>1, <5>2 DEF Sure, Covered
      <4> QED BY <3>2, <4>1, <4>2, <4>3
    <3> QED BY <1>1, <3>3 DEF Sure, Covered, Broken, Held
  <2>3. ASSUME Checked(k)' PROVE ~Broken(k)'
    <3>1. CASE k \in TypeKeys
      <4>1. k[2] \in Types /\ k = TypeKey(k[2]) /\ CheckedType(k[2])'
        BY <2>3, <3>1, KeyFacts DEF Checked
      <4>2. CASE CheckedType(k[2])
        BY <1>1, <2>1, <3>1, <4>2 DEF KeyFit, Checked, Broken
      <4>3. CASE TypeRevision(k[2])
        BY <1>1, <1>2, <4>1, <4>3, RevisionRight DEF Broken
      <4>4. CASE TypeCounter(k[2]) /\ step' # "typeRevision"
        <5>1. k[2] \in DOMAIN snap.stock
          BY <1>1, <4>1 DEF CheckedType
        <5> QED BY <1>2, <1>5, <4>1, <4>4, <5>1, TypeCounterRight
      <4> QED BY <1>4, <4>1, <4>2, <4>3, <4>4 DEF Sees
    <3>2. CASE k \in EventKeys
      <4>1. k[2] \in Events /\ k = EventKey(k[2]) /\ CheckedEvent(k[2])'
        BY <2>3, <3>2, KeyFacts DEF Checked
      <4>2. CASE CheckedEvent(k[2])
        BY <1>1, <2>1, <3>2, <4>2 DEF KeyFit, Checked, Broken
      <4>3. CASE EventVersion(k[2])
        BY <1>1, <1>2, <4>1, <4>3, VersionRight DEF Broken
      <4> QED BY <1>4, <4>1, <4>2, <4>3 DEF Sees
    <3> QED BY <2>1, <3>1, <3>2 DEF Keys
  <2>4. ASSUME k \notin KeysOf(db), Passed(k)' PROVE k \notin DOMAIN counter
    <3>1. k[2] \in Types /\ k = TypeKey(k[2]) /\ k \in TypeKeys /\ Scanned(k[2])'
      BY <2>4, KeyFacts DEF Passed
    <3>2. CASE Scanned(k[2])
      BY <2>1, <2>4, <3>1, <3>2 DEF KeyFit, Passed
    <3>3. CASE Scan(TypeKey(k[2]))
      <4>1. k \in DOMAIN counter => k[2] \in DOMAIN snap.stock
        BY <1>2, <3>1, <3>3, ScanRight
      <4>2. k \notin KeysOf(snap)
        BY <1>6, <2>4
      <4> QED BY <1>2, <3>1, <4>1, <4>2, KeysOfTables DEF CheckTypes, IsTables
    <3> QED BY <1>4, <3>1, <3>2, <3>3 DEF Sees
  <2>5. k \in KeysOf(db) \ KeysOf(snap) => Covered(k) /\ ~Broken(k)
    BY <2>1 DEF KeyFit
  <2>6. Covered(k)' = Covered(k) /\ Broken(k)' = Broken(k)
    BY <1>1 DEF Covered, Broken, Held
  <2> QED BY <1>1, <2>2, <2>3, <2>4, <2>5, <2>6 DEF KeyFit
<1> QED BY <1>1, <1>6, <1>9 DEF SwitchInv

LEMMA SwitchNext ==
  ASSUME ReadinessTypes, PageInv, SwitchInv, [ReadinessNext]_readinessVars PROVE SwitchInv'
BY SwitchWorld, SwitchStart, SwitchCheck DEF ReadinessNext, Starts

-----------------------------------------------------------------------------
(* After the switch.                                                       *)

SoundInv ==
  sound =>
    /\ Orderly(db)
    /\ \A k \in DOMAIN counter \cap Namespace(db.mode) :
         k \in KeysOf(db) /\ ~Broken(k) /\ Covered(k)

LEMMA SoundOrdinary == ASSUME ReadinessTypes, SoundInv, Ordinary PROVE SoundInv'
<1> SUFFICES ASSUME sound' PROVE SoundInv'
  BY DEF SoundInv
<1>1. sound /\ WorldTypes
  BY DEF Ordinary, Expire, Buy, Refuse, Reserve, CreateEvent, AddTicketType, Seed, Evict, watched,
         ReadinessTypes
<1>2. /\ Orderly(db)
      /\ \A k \in DOMAIN counter \cap Namespace(db.mode) :
           k \in KeysOf(db) /\ ~Broken(k) /\ Covered(k)
  BY <1>1 DEF SoundInv
<1>3. /\ IsTables(db') /\ Orderly(db') /\ db'.mode = db.mode
      /\ KeysOf(db) \subseteq KeysOf(db')
      /\ \A k \in KeysOf(db) \cap Namespace(db.mode) :
           Row(db', k).remaining <= Row(db, k).remaining
  BY <1>1, <1>2, OrdinaryKeepsOrder
<1>4. \A k \in KeysOf(db') : Row(db', k).remaining \in Nat
  BY <1>3, KeysOfTables DEF IsTables, Rows
<1>5. ASSUME NEW k \in DOMAIN counter', k \in Namespace(db.mode)
      PROVE  k \in KeysOf(db') /\ ~Broken(k)' /\ Covered(k)'
  <2>1. CASE k \notin DOMAIN counter
    BY <1>1, <1>2, <2>1, NewCounter
  <2>2. CASE k \in DOMAIN counter
    <3>1. k \in KeysOf(db) /\ ~Broken(k) /\ Sure(k)
      BY <1>2, <1>5, <2>2 DEF Sure
    <3>2. Row(db', k).remaining <= Row(db, k).remaining /\ Row(db', k).remaining \in Nat
      BY <1>3, <1>4, <1>5, <3>1
    <3>3. Sure(k)' /\ ~Broken(k)'
      BY <1>1, <1>2, <3>1, <3>2, CoverKept, NoNewBroken
    <3> QED BY <1>3, <3>1, <3>3 DEF Sure
  <2> QED BY <2>1, <2>2
<1> QED BY <1>3, <1>5 DEF SoundInv

LEMMA SoundSwitch == ASSUME ReadinessTypes, SwitchInv, SoundInv, Switch PROVE SoundInv'
<1> DEFINE m == OtherMode(expect)
           d == [db EXCEPT !.mode = m]
<1>1. /\ step = "ended" /\ code = "0" /\ found = {} /\ phase = "preflight" /\ Running
      /\ UNCHANGED <<counter, version, buying>> /\ expect \in WriterModes
  BY DEF Switch, ReadinessTypes, CheckTypes, Running, valkey
<1>2. CASE UNCHANGED <<db, sound>>
  BY <1>1, <1>2 DEF SoundInv, Broken, Covered, Held
<1>3. CASE /\ DatabaseViolations(d, m) = {} /\ DatabaseViolations(db, expect) = {}
           /\ db' = d /\ sound' = ~upset
  <2> SUFFICES ASSUME sound' PROVE SoundInv'
    BY DEF SoundInv
  <2>1. Attested
    BY <1>1, <1>3 DEF Attested
  <2>2. /\ IsTables(db) /\ IsTables(d) /\ m \in WriterModes /\ d.mode = m
        /\ d.types = db.types /\ d.stock = db.stock /\ d.legacy = db.legacy
    BY <1>1 DEF ReadinessTypes, WorldTypes, IsTables, TablesType, OtherMode, WriterModes
  <2> HIDE DEF d
  <2>3. Orderly(d) /\ Orderly(db) /\ db.mode = expect
    BY <1>1, <1>3, <2>2, GreenMeansOrderly
  <2>4. db.types \subseteq Defaults
    BY <1>1, <2>2, <2>3 DEF Orderly, OtherMode, WriterModes
  <2>5. /\ KeysOf(snap) \subseteq KeysOf(db)
        /\ \A k \in Namespace(m) : KeyFit(k)
    BY <2>1, <2>4 DEF SwitchInv
  <2>6. KeysOf(d) = KeysOf(db) /\ \A k : Row(d, k) = Row(db, k)
    BY <2>2 DEF KeysOf, Row
  <2>7. ASSUME NEW k \in DOMAIN counter, k \in Namespace(m)
        PROVE  k \in KeysOf(db) /\ ~Broken(k) /\ Covered(k)
    <3>1. KeyFit(k) /\ k \in Keys /\ EventOf(k) \in db.events
      BY <2>5, <2>7 DEF ReadinessTypes, WorldTypes
    <3>2. k \in KeysOf(db)
      <4>1. CASE k \in TypeKeys
        <5>1. Passed(k)
          BY <1>1, <4>1 DEF Passed, Scanned, Ending
        <5> QED BY <3>1, <5>1, <2>7 DEF KeyFit
      <4>2. CASE k \in EventKeys
        <5>1. k[2] \in Events /\ k = EventKey(k[2]) /\ EventOf(k) = k[2]
          BY <4>2, KeyFacts DEF EventOf
        <5>2. k[2] \in DOMAIN db.legacy
          BY <2>3, <3>1, <5>1 DEF Orderly
        <5> QED BY <2>2, <5>1, <5>2, KeysOfTables DEF IsTables
      <4> QED BY <3>1, <4>1, <4>2 DEF Keys
    <3>3. CASE k \in KeysOf(snap)
      <4>1. Looked(k) /\ Checked(k)
        <5>1. snap \in TablesType
          BY DEF ReadinessTypes, CheckTypes, IsTables
        <5>2. CASE k \in TypeKeys
          <6>1. k[2] \in Types /\ k = TypeKey(k[2])
            BY <5>2, KeyFacts
          <6>2. k[2] \in DOMAIN snap.stock
            BY <3>3, <5>1, <6>1, KeysOfTables
          <6> QED BY <1>1, <5>2, <6>2 DEF Looked, Checked, LookedType, CheckedType, TypeDone, Ending
        <5>3. CASE k \in EventKeys
          <6>1. k[2] \in Events /\ k = EventKey(k[2])
            BY <5>3, KeyFacts
          <6>2. k[2] \in DOMAIN snap.legacy
            BY <3>3, <5>1, <6>1, KeysOfTables
          <6> QED BY <1>1, <5>3, <6>2
              DEF Looked, Checked, LookedEvent, CheckedEvent, EventDone, Ending
        <5> QED BY <3>1, <5>2, <5>3 DEF Keys
      <4> QED BY <3>1, <3>2, <4>1 DEF KeyFit, Sure
    <3>4. CASE k \notin KeysOf(snap)
      BY <3>1, <3>2, <3>4 DEF KeyFit
    <3> QED BY <3>2, <3>3, <3>4
  <2>8. \A k : (Broken(k)' <=> Broken(k)) /\ (Covered(k)' <=> Covered(k))
    BY <1>1, <1>3, <2>6 DEF Broken, Covered, Held
  <2> QED BY <1>1, <1>3, <2>2, <2>3, <2>6, <2>7, <2>8 DEF SoundInv
<1> QED BY <1>2, <1>3 DEF Switch

LEMMA SoundNext ==
  ASSUME ReadinessTypes, SwitchInv, SoundInv, [ReadinessNext]_readinessVars PROVE SoundInv'
<1>1. CASE UNCHANGED <<db, counter, version, buying, sound>>
  BY <1>1 DEF SoundInv, Broken, Covered, Held
<1>2. CASE Check
  BY <1>1, <1>2, CheckReadsOnly DEF valkey
<1>3. CASE Starts
  BY <1>1, <1>3, StartFacts
<1>4. CASE UNCHANGED readinessVars
  BY <1>1, <1>4 DEF readinessVars, valkey, watched
<1>5. CASE Ordinary
  BY <1>5, SoundOrdinary
<1>6. CASE Switch
  BY <1>6, SoundSwitch
<1>7. CASE DirectSql \/ \E k \in Keys : Distort(k)
  BY <1>7 DEF DirectSql, Distort, Manual, SoundInv
<1> QED BY <1>2, <1>3, <1>4, <1>5, <1>6, <1>7, WorldSteps DEF ReadinessNext, Starts

LEMMA SoundSays == ASSUME SoundInv PROVE NoFalseSoldOut
BY DEF SoundInv, NoFalseSoldOut, Covered, Held

-----------------------------------------------------------------------------
(* Normal operation.                                                       *)

\* A counter of the namespace in use is its row less what a purchase holds; no
\* counter is above its row's total.
InUse(k) == k \in DOMAIN counter /\ counter[k] + Held(k) = Row(db, k).remaining
InBounds(k) == k \in KeysOf(db) \cap DOMAIN version /\ counter[k] + Held(k) <= Row(db, k).total
InPlan == buying.plan = db.mode /\ buying.key = PlanKey(buying.type, buying.plan)
          /\ buying.key \in KeysOf(db)

CalmInv ==
  calm =>
    /\ Orderly(db)
    /\ \A k \in KeysOf(db) : Row(db, k).remaining <= Row(db, k).total
    /\ \A k \in DOMAIN version : version[k]
    /\ \A k \in DOMAIN counter : InBounds(k)
    /\ \A k \in KeysOf(db) \cap Namespace(db.mode) : InUse(k)
    /\ buying # NoBuyer => InPlan

QuietInv ==
  calm /\ ~busy /\ (step # "ended" \/ code \in {"0", "2"}) =>
    /\ db = snap /\ buying = NoBuyer
    /\ phase = "postflight" /\ expect = snap.mode => found \subseteq {"opensearch_projection_diff"}
    /\ phase = "preflight" /\ found = {} =>
         \A k \in Namespace(OtherMode(expect)) :
           Looked(k) => k \in DOMAIN counter /\ counter[k] = Row(snap, k).remaining

LEMMA CalmInit == ReadinessInit => CalmInv /\ QuietInv /\ SoundInv
<1> SUFFICES ASSUME ReadinessInit PROVE CalmInv /\ QuietInv /\ SoundInv
  OBVIOUS
<1>1. /\ counter = [k \in KeysOf(db) |-> Row(db, k).remaining]
      /\ version = [k \in KeysOf(db) |-> TRUE] /\ buying = NoBuyer
      /\ step = "ended" /\ code = "none" /\ ~sound
  BY DEF ReadinessInit
<1>2. IsTables(db) /\ Orderly(db) /\ \A k \in KeysOf(db) : Row(db, k).remaining = Row(db, k).total
  BY InitFacts
<1>3. \A k \in KeysOf(db) : k \in Keys /\ Row(db, k).remaining \in Nat
  BY <1>2, KeysOfTables DEF IsTables, Rows
<1>4. \A k \in KeysOf(db) : Held(k) = 0
  BY <1>1, <1>3, NoBuyerHolds DEF Held
<1>5. \A k \in KeysOf(db) : InUse(k) /\ InBounds(k) /\ Row(db, k).remaining <= Row(db, k).total
  BY <1>1, <1>2, <1>3, <1>4 DEF InUse, InBounds
<1> QED BY <1>1, <1>2, <1>5 DEF CalmInv, QuietInv, SoundInv

\* The key of a plan in use.
LEMMA PlanInUse ==
  ASSUME NEW y \in Types, NEW m \in WriterModes
  PROVE  PlanKey(y, m) \in Namespace(m)
BY KeyFacts, HomeAssumption DEF PlanKey, Namespace, WriterModes

LEMMA CalmReserve ==
  ASSUME ReadinessTypes, CalmInv, NEW y \in Types, NEW m \in WriterModes,
         Reserve(y, m)
  PROVE  CalmInv'
<1> SUFFICES ASSUME calm' PROVE CalmInv'
  BY DEF CalmInv
<1> DEFINE x == PlanKey(y, m)
           known == x \in DOMAIN counter /\ ~Broken(x)
<1>1. /\ db' = db /\ buying = NoBuyer /\ y \in db.types
      /\ x \in DOMAIN counter => counter[x] > 0
      /\ buying' = [type |-> y, plan |-> m, key |-> IF known THEN x ELSE NoKey]
      /\ version' = IF known THEN Assign(version, x, TRUE) ELSE version
      /\ counter' = IF x \in DOMAIN counter THEN [counter EXCEPT ![x] = @ - 1] ELSE counter
  <2>1. WorldTypes
    BY DEF ReadinessTypes
  <2> QED BY <2>1, ReserveStep
<1>2. /\ calm /\ m = db.mode /\ Orderly(db)
      /\ \A k \in KeysOf(db) : Row(db, k).remaining <= Row(db, k).total
      /\ \A k \in DOMAIN version : version[k]
      /\ \A k \in DOMAIN counter : InBounds(k)
      /\ \A k \in KeysOf(db) \cap Namespace(db.mode) : InUse(k)
  BY <1>1 DEF CalmInv, Reserve
<1>3. x \in KeysOf(db) \cap Namespace(db.mode)
  <2>1. y \in DOMAIN db.stock /\ Home[y] \in DOMAIN db.legacy
    BY <1>1, <1>2 DEF Orderly, ReadinessTypes, WorldTypes, IsTables
  <2>2. TypeKey(y) \in KeysOf(db) /\ EventKey(Home[y]) \in KeysOf(db)
    BY <2>1 DEF KeysOf, TypeKey, EventKey
  <2> QED BY <1>2, <2>2, PlanKeyFacts, PlanInUse
<1>4. known /\ x \in DOMAIN counter /\ x # NoKey
  BY <1>2, <1>3, KeyFacts, PlanKeyFacts DEF InUse, Broken
<1>5. /\ buying' # NoBuyer /\ buying'.key = x /\ buying'.plan = m /\ buying'.type = y
      /\ version' = Assign(version, x, TRUE) /\ counter' = [counter EXCEPT ![x] = @ - 1]
  <2>1. buying' = [type |-> y, plan |-> m, key |-> x]
    BY <1>1, <1>4
  <2> QED BY <1>1, <1>4, <2>1 DEF NoBuyer
<1>6. /\ \A k \in DOMAIN counter : counter[k] \in Nat
      /\ \A k \in KeysOf(db) : Row(db, k).remaining \in Nat /\ Row(db, k).total \in Nat /\ k # NoKey
  <2>1. \A k \in KeysOf(db) : k \in Keys /\ Row(db, k) \in Rows
    BY KeysOfTables DEF ReadinessTypes, WorldTypes, IsTables
  <2> QED BY <2>1, KeyFacts DEF ReadinessTypes, WorldTypes, Rows
<1>7. \A k \in KeysOf(db) : Held(k) = 0 /\ Held(k)' = (IF k = x THEN 1 ELSE 0)
  BY <1>1, <1>5, <1>6, NoBuyerHolds DEF Held
<1>8. \A k \in KeysOf(db) \cap DOMAIN counter :
        /\ counter'[k] + Held(k)' = counter[k] + Held(k)
        /\ k \in DOMAIN counter'
  BY <1>1, <1>4, <1>5, <1>6, <1>7
<1>9. DOMAIN counter' = DOMAIN counter /\ DOMAIN version \subseteq DOMAIN version'
      /\ \A k \in DOMAIN version' : version'[k]
  BY <1>2, <1>5 DEF Assign
<1> HIDE DEF x, known
<1>10. \A k \in DOMAIN counter' : InBounds(k)'
  BY <1>1, <1>2, <1>8, <1>9 DEF InBounds
<1>11. \A k \in KeysOf(db) \cap Namespace(db.mode) : InUse(k)'
  BY <1>1, <1>2, <1>8, <1>9 DEF InUse
<1>12. InPlan'
  BY <1>1, <1>2, <1>3, <1>5 DEF InPlan, x
<1> QED BY <1>1, <1>2, <1>9, <1>10, <1>11, <1>12 DEF CalmInv

LEMMA CalmBuy == ASSUME ReadinessTypes, CalmInv, Buy PROVE CalmInv'
<1> SUFFICES ASSUME calm' PROVE CalmInv'
  BY DEF CalmInv
<1> DEFINE x == PlanKey(buying.type, buying.plan)
           sold == {TypeKey(buying.type), EventKey(Home[buying.type])}
<1>1. calm /\ buying # NoBuyer
  BY DEF Buy
<1>2. /\ Orderly(db)
      /\ \A k \in KeysOf(db) : Row(db, k).remaining <= Row(db, k).total
      /\ \A k \in DOMAIN version : version[k]
      /\ \A k \in DOMAIN counter : InBounds(k)
      /\ \A k \in KeysOf(db) \cap Namespace(db.mode) : InUse(k)
      /\ buying.plan = db.mode /\ buying.key = x /\ x \in KeysOf(db)
  BY <1>1 DEF CalmInv, InPlan
<1>3. /\ IsTables(db') /\ Orderly(db') /\ db'.mode = db.mode /\ KeysOf(db') = KeysOf(db)
      /\ buying.type \in Types
  BY <1>2, BuyRows DEF ReadinessTypes
<1>4. /\ sold \subseteq KeysOf(db)
      /\ \A k \in sold : Row(db', k) = OneLess(Row(db, k)) /\ Row(db, k).remaining > 0
      /\ \A k \in KeysOf(db) \ sold : Row(db', k) = Row(db, k)
  BY <1>2, BuyRows DEF ReadinessTypes
<1>5. /\ buying' = NoBuyer /\ x \in sold
      /\ \/ UNCHANGED <<counter, version>>
         \/ /\ counter' = Assign(counter, x, Row(db', x).remaining)
            /\ version' = Assign(version, x, TRUE)
  BY <1>2, BuyStep DEF ReadinessTypes
<1>6. /\ \A k \in DOMAIN counter : counter[k] \in Nat
      /\ \A k \in KeysOf(db) : Row(db, k) \in Rows /\ k \in Keys
  BY KeysOfTables DEF ReadinessTypes, WorldTypes, IsTables
<1>7. \A k \in KeysOf(db) :
        /\ Row(db, k).remaining \in Nat /\ Row(db, k).total \in Nat
        /\ Row(db', k).total = Row(db, k).total
        /\ Row(db', k).remaining = Row(db, k).remaining - (IF k \in sold THEN 1 ELSE 0)
        /\ k \in sold => Row(db, k).remaining > 0
        /\ Row(db', k).remaining \in Nat
  <2> HIDE DEF sold
  <2> TAKE k \in KeysOf(db)
  <2>1. Row(db, k) \in Rows
    BY <1>6
  <2>2. CASE k \in sold
    BY <1>4, <2>1, <2>2 DEF OneLess, Rows
  <2>3. CASE k \notin sold
    BY <1>4, <2>1, <2>3 DEF Rows
  <2> QED BY <2>2, <2>3
<1>8. \A k \in KeysOf(db) : Held(k)' = 0 /\ Held(k) = (IF k = x THEN 1 ELSE 0)
  BY <1>2, <1>5, <1>6, NoBuyerHolds DEF Held
<1>9. \A k \in sold : k \in Namespace(db.mode) => k = x
  <2>1. db.mode \in WriterModes
    BY <1>2 DEF Orderly
  <2>2. Home[buying.type] \in Events
    BY <1>3, HomeAssumption
  <2> QED BY <1>2, <1>3, <2>1, <2>2, KeyFacts DEF Namespace, PlanKey, WriterModes
<1>10. x \in Namespace(db.mode) /\ x \in DOMAIN counter
  <2>1. x \in Namespace(db.mode)
    BY <1>2, <1>3, PlanInUse DEF Orderly
  <2> QED BY <1>2, <2>1 DEF InUse
<1> HIDE DEF x, sold
<1>11. \A k \in KeysOf(db) : Row(db', k).remaining <= Row(db', k).total
  BY <1>2, <1>7
<1>12. counter[x] = Row(db', x).remaining
  <2>1. counter[x] + 1 = Row(db, x).remaining
    BY <1>2, <1>8, <1>10 DEF InUse
  <2> QED BY <1>2, <1>5, <1>6, <1>7, <1>10, <2>1
<1>13. /\ DOMAIN counter' = DOMAIN counter /\ \A k \in DOMAIN counter : counter'[k] = counter[k]
       /\ DOMAIN version \subseteq DOMAIN version' /\ \A k \in DOMAIN version' : version'[k]
  BY <1>2, <1>5, <1>10, <1>12 DEF Assign
<1>14. \A k \in DOMAIN counter' : InBounds(k)'
  <2> TAKE k \in DOMAIN counter'
  <2>1. k \in DOMAIN counter /\ k \in KeysOf(db) /\ k \in DOMAIN version
        /\ counter[k] + Held(k) <= Row(db, k).total
    BY <1>2, <1>13 DEF InBounds
  <2>2. counter'[k] + Held(k)' <= Row(db', k).total
    BY <1>6, <1>7, <1>8, <1>13, <2>1
  <2> QED BY <1>3, <1>13, <2>1, <2>2 DEF InBounds
<1>15. \A k \in KeysOf(db) \cap Namespace(db.mode) : InUse(k)'
  <2> TAKE k \in KeysOf(db) \cap Namespace(db.mode)
  <2>1. k \in DOMAIN counter /\ counter[k] + Held(k) = Row(db, k).remaining
    BY <1>2 DEF InUse
  <2>2. CASE k = x
    BY <1>6, <1>8, <1>10, <1>12, <1>13, <2>2 DEF InUse
  <2>3. CASE k # x
    <3>1. k \notin sold
      BY <1>9, <2>3
    <3> QED BY <1>6, <1>7, <1>8, <1>13, <2>1, <2>3, <3>1 DEF InUse
  <2> QED BY <2>2, <2>3
<1> QED BY <1>3, <1>5, <1>11, <1>13, <1>14, <1>15 DEF CalmInv

LEMMA CalmRefuse == ASSUME ReadinessTypes, CalmInv, Refuse PROVE CalmInv'
<1> SUFFICES ASSUME calm' PROVE CalmInv'
  BY DEF CalmInv
<1> DEFINE x == buying.key
<1>1. /\ db' = db /\ buying' = NoBuyer /\ buying # NoBuyer /\ calm
      /\ counter' = IF x \in DOMAIN counter THEN [counter EXCEPT ![x] = @ + 1] ELSE counter
      /\ version' = IF x \in DOMAIN counter THEN Assign(version, x, TRUE) ELSE version
  BY RefuseStep
<1>2. /\ Orderly(db)
      /\ \A k \in KeysOf(db) : Row(db, k).remaining <= Row(db, k).total
      /\ \A k \in DOMAIN version : version[k]
      /\ \A k \in DOMAIN counter : InBounds(k)
      /\ \A k \in KeysOf(db) \cap Namespace(db.mode) : InUse(k)
  BY <1>1 DEF CalmInv
<1>3. /\ \A k \in DOMAIN counter : counter[k] \in Nat
      /\ \A k \in KeysOf(db) : k \in Keys
  BY KeysOfTables DEF ReadinessTypes, WorldTypes, IsTables
<1>4. \A k \in KeysOf(db) : Held(k)' = 0 /\ Held(k) = (IF k = x THEN 1 ELSE 0)
  BY <1>1, <1>3, NoBuyerHolds DEF Held
<1> HIDE DEF x
<1>5. /\ DOMAIN counter' = DOMAIN counter /\ DOMAIN version \subseteq DOMAIN version'
      /\ \A k \in DOMAIN version' : version'[k]
      /\ \A k \in DOMAIN counter : counter'[k] = counter[k] + (IF k = x THEN 1 ELSE 0)
  <2>1. CASE x \in DOMAIN counter
    <3>1. version' = Assign(version, x, TRUE) /\ counter' = [counter EXCEPT ![x] = @ + 1]
      BY <1>1, <2>1
    <3>2. DOMAIN version \subseteq DOMAIN version' /\ \A k \in DOMAIN version' : version'[k]
      BY <1>2, <3>1 DEF Assign
    <3>3. DOMAIN counter' = DOMAIN counter
      BY <3>1
    <3>4. \A k \in DOMAIN counter : counter'[k] = counter[k] + (IF k = x THEN 1 ELSE 0)
      BY <1>3, <3>1
    <3> QED BY <3>2, <3>3, <3>4
  <2>2. CASE x \notin DOMAIN counter
    BY <1>1, <1>2, <1>3, <2>2
  <2> QED BY <2>1, <2>2
<1>6. \A k \in KeysOf(db) \cap DOMAIN counter : counter'[k] + Held(k)' = counter[k] + Held(k)
  BY <1>3, <1>4, <1>5
<1>7. \A k \in DOMAIN counter' : InBounds(k)'
  BY <1>1, <1>2, <1>5, <1>6 DEF InBounds
<1>8. \A k \in KeysOf(db) \cap Namespace(db.mode) : InUse(k)'
  BY <1>1, <1>2, <1>5, <1>6 DEF InUse
<1> QED BY <1>1, <1>2, <1>5, <1>7, <1>8 DEF CalmInv

LEMMA CalmCreate ==
  ASSUME ReadinessTypes, CalmInv, NEW e \in Events, CreateEvent(e) PROVE CalmInv'
<1> SUFFICES ASSUME calm' PROVE CalmInv'
  BY DEF CalmInv
<1> DEFINE n == Capacity[First(e)]
           x == PlanKey(First(e), db.mode)
           new == {TypeKey(First(e)), EventKey(e)}
<1>1. /\ buying' = buying /\ calm
      /\ counter' = Assign(counter, x, n) /\ version' = Assign(version, x, TRUE)
  BY CreateStep
<1>2. /\ Orderly(db)
      /\ \A k \in KeysOf(db) : Row(db, k).remaining <= Row(db, k).total
      /\ \A k \in DOMAIN version : version[k]
      /\ \A k \in DOMAIN counter : InBounds(k)
      /\ \A k \in KeysOf(db) \cap Namespace(db.mode) : InUse(k)
      /\ buying # NoBuyer => InPlan
  BY <1>1 DEF CalmInv
<1>3. /\ IsTables(db') /\ Orderly(db') /\ db'.mode = db.mode /\ db.mode \in WriterModes
      /\ KeysOf(db') = KeysOf(db) \cup new /\ new \cap KeysOf(db) = {}
      /\ \A k \in new : Row(db', k) = Fresh(n) /\ EventOf(k) = e
      /\ \A k \in KeysOf(db) : Row(db', k) = Row(db, k)
  BY <1>2, CreationRows DEF ReadinessTypes
<1>4. e \notin db.events
  BY DEF CreateEvent
<1>5. \A k \in new : k \notin DOMAIN counter
  BY <1>3, <1>4 DEF ReadinessTypes, WorldTypes
<1>6. x \in new /\ \A k \in new : k \in Namespace(db.mode) => k = x
  <2>1. First(e) \in Types /\ Home[First(e)] = e
    BY FirstFacts
  <2> QED BY <1>3, <2>1, KeyFacts DEF PlanKey, Namespace, WriterModes
<1>7. n \in Nat
  BY FirstFacts, CapacityAssumption
<1>8. \A k \in new : Row(db', k).remaining = n /\ Row(db', k).total = n
  BY <1>3 DEF Fresh
<1>9. \A k \in new : Held(k) = 0
  <2>1. buying = NoBuyer \/ buying.key \in KeysOf(db)
    BY <1>2 DEF InPlan
  <2>2. new \subseteq Keys
    BY FirstFacts, KeyFacts
  <2> QED BY <1>3, <2>1, <2>2, NoBuyerHolds DEF Held
<1>10. \A k : Held(k)' = Held(k)
  BY <1>1 DEF Held
<1> HIDE DEF x, n, new
<1>11. /\ DOMAIN counter' = DOMAIN counter \cup {x} /\ counter'[x] = n
       /\ \A k \in DOMAIN counter : counter'[k] = counter[k]
       /\ DOMAIN version' = DOMAIN version \cup {x}
       /\ \A k \in DOMAIN version' : version'[k]
  BY <1>1, <1>2, <1>5, <1>6 DEF Assign
<1>12. \A k \in DOMAIN counter' : InBounds(k)'
  <2> TAKE k \in DOMAIN counter'
  <2>1. CASE k \in DOMAIN counter
    BY <1>2, <1>3, <1>10, <1>11, <2>1 DEF InBounds
  <2>2. CASE k = x
    BY <1>3, <1>6, <1>7, <1>8, <1>9, <1>10, <1>11, <2>2 DEF InBounds
  <2> QED BY <1>11, <2>1, <2>2
<1>13. \A k \in KeysOf(db') \cap Namespace(db.mode) : InUse(k)'
  <2> TAKE k \in KeysOf(db') \cap Namespace(db.mode)
  <2>1. CASE k \in KeysOf(db)
    BY <1>2, <1>3, <1>10, <1>11, <2>1 DEF InUse
  <2>2. CASE k = x
    BY <1>3, <1>6, <1>7, <1>8, <1>9, <1>10, <1>11, <2>2 DEF InUse
  <2> QED BY <1>3, <1>6, <2>1, <2>2
<1>14. \A k \in KeysOf(db') : Row(db', k).remaining <= Row(db', k).total
  BY <1>2, <1>3, <1>7, <1>8
<1>15. buying' # NoBuyer => InPlan'
  BY <1>1, <1>2, <1>3 DEF InPlan
<1> QED BY <1>3, <1>11, <1>12, <1>13, <1>14, <1>15 DEF CalmInv

LEMMA CalmSeed == ASSUME ReadinessTypes, CalmInv, NEW x \in Keys, Seed(x) PROVE CalmInv'
<1> SUFFICES ASSUME calm' PROVE CalmInv'
  BY DEF CalmInv
<1>1. /\ x \in KeysOf(db) \ Namespace(db.mode) /\ UNCHANGED <<db, buying, calm>>
      /\ counter' = Assign(counter, x, Row(db, x).remaining)
      /\ version' = Assign(version, x, TRUE)
  BY SeedStep
<1>2. /\ Orderly(db)
      /\ \A k \in KeysOf(db) : Row(db, k).remaining <= Row(db, k).total
      /\ \A k \in DOMAIN version : version[k]
      /\ \A k \in DOMAIN counter : InBounds(k)
      /\ \A k \in KeysOf(db) \cap Namespace(db.mode) : InUse(k)
      /\ buying # NoBuyer => InPlan
  BY <1>1 DEF CalmInv
<1>3. Row(db, x).remaining \in Nat /\ Row(db, x).total \in Nat
  BY <1>1, KeysOfTables DEF ReadinessTypes, WorldTypes, IsTables, Rows
<1>4. Held(x) = 0
  <2>1. CASE buying = NoBuyer
    BY <2>1, NoBuyerHolds DEF Held
  <2>2. CASE buying # NoBuyer
    <3>1. buying.plan = db.mode /\ buying.key = PlanKey(buying.type, buying.plan)
          /\ buying.type \in Types /\ db.mode \in WriterModes
      BY <1>2, <2>2 DEF InPlan, Orderly, ReadinessTypes, WorldTypes
    <3>2. buying.key \in Namespace(db.mode)
      BY <3>1, PlanInUse
    <3> QED BY <1>1, <3>2 DEF Held
  <2> QED BY <2>1, <2>2
<1>5. \A k : Held(k)' = Held(k)
  BY <1>1 DEF Held
<1>6. /\ DOMAIN counter' = DOMAIN counter \cup {x} /\ counter'[x] = Row(db, x).remaining
      /\ \A k \in DOMAIN counter : k # x => counter'[k] = counter[k]
      /\ DOMAIN version' = DOMAIN version \cup {x}
      /\ \A k \in DOMAIN version' : version'[k]
  BY <1>1, <1>2 DEF Assign
<1>7. \A k \in DOMAIN counter' : InBounds(k)'
  <2> TAKE k \in DOMAIN counter'
  <2>1. CASE k = x
    <3>1. Row(db, x).remaining <= Row(db, x).total
      BY <1>1, <1>2
    <3>2. k \in KeysOf(db) /\ k \in DOMAIN version' /\ db' = db
      BY <1>1, <1>6, <2>1
    <3>3. counter'[k] = Row(db, k).remaining /\ Held(k)' = 0
      BY <1>4, <1>5, <1>6, <2>1
    <3>4. counter'[k] + Held(k)' <= Row(db, k).total
      BY <1>3, <2>1, <3>1, <3>3
    <3> QED BY <3>2, <3>4 DEF InBounds
  <2>2. CASE k # x
    BY <1>1, <1>2, <1>5, <1>6, <2>2 DEF InBounds
  <2> QED BY <2>1, <2>2
<1>8. \A k \in KeysOf(db) \cap Namespace(db.mode) : InUse(k)'
  BY <1>1, <1>2, <1>5, <1>6 DEF InUse
<1>9. InPlan' <=> InPlan
  BY <1>1 DEF InPlan
<1> QED BY <1>1, <1>2, <1>6, <1>7, <1>8, <1>9 DEF CalmInv

\* The switch after a quiet check.
LEMMA CalmSwitch == ASSUME ReadinessTypes, CalmInv, QuietInv, Switch PROVE CalmInv'
<1> SUFFICES ASSUME calm' PROVE CalmInv'
  BY DEF CalmInv
<1> DEFINE m == OtherMode(expect)
           d == [db EXCEPT !.mode = m]
<1>1. /\ step = "ended" /\ code = "0" /\ found = {} /\ phase = "preflight"
      /\ UNCHANGED <<counter, version, buying>> /\ expect \in WriterModes /\ IsTables(db)
      /\ IsTables(snap)
  BY DEF Switch, ReadinessTypes, WorldTypes, CheckTypes, valkey
<1>2. CASE UNCHANGED <<db, calm>>
  BY <1>1, <1>2 DEF CalmInv, InBounds, InUse, InPlan, Held
<1>3. CASE db' = d /\ DatabaseViolations(d, m) = {} /\ calm /\ ~busy
  <2>1. /\ \A k \in KeysOf(db) : Row(db, k).remaining <= Row(db, k).total
        /\ \A k \in DOMAIN version : version[k]
        /\ \A k \in DOMAIN counter : InBounds(k)
    BY <1>3 DEF CalmInv
  <2>2. /\ db = snap /\ buying = NoBuyer
        /\ \A k \in Namespace(m) :
             Looked(k) => k \in DOMAIN counter /\ counter[k] = Row(snap, k).remaining
    BY <1>1, <1>3 DEF QuietInv
  <2>3. /\ IsTables(d) /\ m \in WriterModes /\ d.mode = m
        /\ d.stock = db.stock /\ d.legacy = db.legacy
    BY <1>1 DEF IsTables, TablesType, OtherMode, WriterModes
  <2> HIDE DEF d
  <2>4. Orderly(d)
    BY <1>3, <2>3, GreenMeansOrderly
  <2>5. KeysOf(d) = KeysOf(db) /\ \A k : Row(d, k) = Row(db, k)
    BY <2>3 DEF KeysOf, Row
  <2>6. \A k \in KeysOf(db) : Row(db, k).remaining \in Nat /\ Held(k) = 0
    BY <1>1, <2>2, KeysOfTables, NoBuyerHolds DEF IsTables, Rows, Held
  <2>7. ASSUME NEW k \in KeysOf(db) \cap Namespace(m) PROVE InUse(k)
    <3>1. Looked(k)
      <4>1. CASE k \in TypeKeys
        <5>1. k[2] \in Types /\ k = TypeKey(k[2])
          BY <4>1, KeyFacts
        <5>2. k[2] \in DOMAIN snap.stock
          BY <1>1, <2>2, <2>7, <5>1, KeysOfTables DEF IsTables
        <5> QED BY <1>1, <4>1, <5>2 DEF Looked, LookedType, TypeDone, Ending
      <4>2. CASE k \in EventKeys
        <5>1. k[2] \in Events /\ k = EventKey(k[2])
          BY <4>2, KeyFacts
        <5>2. k[2] \in DOMAIN snap.legacy
          BY <1>1, <2>2, <2>7, <5>1, KeysOfTables DEF IsTables
        <5> QED BY <1>1, <4>2, <5>2 DEF Looked, LookedEvent, EventDone, Ending
      <4> QED BY <2>7, <4>1, <4>2 DEF Namespace
    <3> QED BY <2>2, <2>6, <2>7, <3>1 DEF InUse
  <2>8. /\ \A k : InUse(k)' <=> InUse(k)
        /\ \A k : InBounds(k)' <=> InBounds(k)
    BY <1>1, <1>3, <2>5 DEF InUse, InBounds, Held
  <2> QED BY <1>1, <1>3, <2>1, <2>2, <2>3, <2>4, <2>5, <2>7, <2>8 DEF CalmInv
<1> QED BY <1>2, <1>3 DEF Switch

LEMMA CalmNext ==
  ASSUME ReadinessTypes, CalmInv, QuietInv, [ReadinessNext]_readinessVars PROVE CalmInv'
<1>1. CASE UNCHANGED <<db, counter, version, buying, calm>>
  BY <1>1 DEF CalmInv, InBounds, InUse, InPlan, Held
<1>2. CASE Check
  BY <1>1, <1>2, CheckReadsOnly DEF valkey
<1>3. CASE Starts
  BY <1>1, <1>3, StartFacts
<1>4. CASE UNCHANGED readinessVars
  BY <1>1, <1>4 DEF readinessVars, valkey, watched
<1>5. CASE Expire
  BY <1>1, <1>5 DEF Expire, valkey, watched
<1>6. CASE DirectSql \/ (\E y \in Types : AddTicketType(y)) \/ \E k \in Keys : Distort(k) \/ Evict(k)
  BY <1>6 DEF DirectSql, AddTicketType, Distort, Evict, Manual, CalmInv
<1> QED BY <1>2, <1>3, <1>4, <1>5, <1>6, CalmReserve, CalmBuy, CalmRefuse,
        CalmCreate, CalmSeed, CalmSwitch
        DEF ReadinessNext, Starts, World

\* What others do during a check in normal operation: nothing that it could see.
LEMMA QuietWorld ==
  ASSUME ReadinessTypes, QuietInv, World \/ UNCHANGED readinessVars PROVE QuietInv'
<1> SUFFICES ASSUME calm', ~busy', step' # "ended" \/ code' \in {"0", "2"} PROVE QuietInv'
  BY DEF QuietInv
<1>1. /\ UNCHANGED <<expect, phase, snap, step>> /\ found' = found
      /\ \A y \in Types : LookedType(y)' <=> LookedType(y)
      /\ \A e \in Events : LookedEvent(e)' <=> LookedEvent(e)
  BY WorldForgetsNothing
<1>2. \A k : Looked(k)' <=> Looked(k)
  BY <1>1, KeyFacts DEF Looked
<1>3. code' \in {code, "none"} /\ (step # "ended" \/ code \in {"0", "2"})
  BY <1>1, WorldIsApart DEF readinessVars, checker
<1>4. CASE calm /\ ~busy /\ UNCHANGED <<db, counter, buying>>
  <2>1. /\ db = snap /\ buying = NoBuyer
        /\ phase = "postflight" /\ expect = snap.mode =>
             found \subseteq {"opensearch_projection_diff"}
        /\ phase = "preflight" /\ found = {} =>
             \A k \in Namespace(OtherMode(expect)) :
               Looked(k) => k \in DOMAIN counter /\ counter[k] = Row(snap, k).remaining
    BY <1>3, <1>4 DEF QuietInv
  <2> QED BY <1>1, <1>2, <1>4, <2>1 DEF QuietInv
<1>5. ASSUME NEW x \in Keys, Seed(x) PROVE QuietInv'
  <2>1. /\ x \in KeysOf(db) /\ UNCHANGED <<db, buying, busy, calm>>
        /\ counter' = Assign(counter, x, Row(db, x).remaining)
    BY <1>5, SeedStep
  <2>2. /\ db = snap /\ buying = NoBuyer
        /\ phase = "postflight" /\ expect = snap.mode =>
             found \subseteq {"opensearch_projection_diff"}
        /\ phase = "preflight" /\ found = {} =>
             \A k \in Namespace(OtherMode(expect)) :
               Looked(k) => k \in DOMAIN counter /\ counter[k] = Row(snap, k).remaining
    BY <1>3, <2>1 DEF QuietInv
  <2>3. \A k : k \in DOMAIN counter /\ counter[k] = Row(snap, k).remaining
               => k \in DOMAIN counter' /\ counter'[k] = Row(snap, k).remaining
    BY <2>1, <2>2 DEF Assign
  <2> QED BY <1>1, <1>2, <2>1, <2>2, <2>3 DEF QuietInv
<1>6. CASE Buy \/ Refuse
  BY <1>3, <1>6 DEF Buy, Refuse, QuietInv
<1>7. CASE Switch
  BY <1>7 DEF Switch
<1>8. CASE (\E y \in Types, m \in WriterModes : Reserve(y, m)) \/ \E e \in Events : CreateEvent(e)
  BY <1>8 DEF Reserve, CreateEvent
<1>9. CASE DirectSql \/ (\E y \in Types : AddTicketType(y)) \/ \E k \in Keys : Distort(k) \/ Evict(k)
  BY <1>9 DEF DirectSql, AddTicketType, Distort, Evict, Manual
<1>10. CASE Expire \/ UNCHANGED readinessVars
  <2>1. UNCHANGED <<db, counter, buying, busy, calm>>
    BY <1>10 DEF Expire, readinessVars, valkey, watched
  <2> QED BY <1>4, <2>1
<1> QED BY <1>5, <1>6, <1>7, <1>8, <1>9, <1>10 DEF World

LEMMA QuietStart == ASSUME ReadinessTypes, CalmInv, Starts PROVE QuietInv'
<1> SUFFICES ASSUME calm', ~busy' PROVE QuietInv'
  BY DEF QuietInv
<1>1. /\ UNCHANGED <<db, counter, version, buying, calm>> /\ snap' = db
      /\ expect' \in WriterModes /\ found' = DatabaseViolations(db, expect') /\ buying = NoBuyer
  BY StartFacts
<1>2. Orderly(db)
  BY <1>1 DEF CalmInv
<1>3. expect' = db.mode => found' = {}
  BY <1>1, <1>2, GreenMeansOrderly DEF ReadinessTypes, WorldTypes
<1>4. \A k : ~Looked(k)'
  BY StartSees, KeyFacts DEF Looked
<1> QED BY <1>1, <1>3, <1>4 DEF QuietInv

\* Normal operation in the mode expected gives a postflight nothing to find.
LEMMA NothingToFind ==
  ASSUME ReadinessTypes, PageInv, CalmInv, calm, db = snap, buying = NoBuyer, expect = snap.mode,
         phase = "postflight", Check, ~CheckFails, ~CheckSearch
  PROVE  found' = found
<1>1. /\ \A k \in KeysOf(snap) : Row(snap, k).total \in Nat /\ Row(snap, k).remaining \in Nat
                                 /\ k \in Keys /\ Held(k) = 0
      /\ \A k \in DOMAIN counter : counter[k] \in Nat
      /\ snap \in TablesType /\ CheckTypes
  <2>1. /\ \A k \in KeysOf(snap) : Row(snap, k) \in Rows /\ k \in Keys
        /\ snap \in TablesType /\ CheckTypes
    BY KeysOfTables DEF ReadinessTypes, CheckTypes, IsTables
  <2>2. \A k \in Keys : Held(k) = 0
    BY NoBuyerHolds DEF Held
  <2> QED BY <2>1, <2>2 DEF Rows, ReadinessTypes, WorldTypes
<1>2. /\ \A k \in DOMAIN version : version[k]
      /\ \A k \in DOMAIN counter : /\ k \in KeysOf(snap) \cap DOMAIN version
                                   /\ counter[k] <= Row(snap, k).total
      /\ \A k \in KeysOf(snap) \cap Namespace(snap.mode) :
           k \in DOMAIN counter /\ counter[k] = Row(snap, k).remaining
      /\ snap.mode \in WriterModes
  <2>1. /\ \A k \in DOMAIN version : version[k]
        /\ \A k \in DOMAIN counter : InBounds(k)
        /\ \A k \in KeysOf(snap) \cap Namespace(snap.mode) : InUse(k)
        /\ Orderly(snap)
    BY DEF CalmInv
  <2>2. \A k \in DOMAIN counter : k \in KeysOf(snap) \cap DOMAIN version
                                  /\ counter[k] <= Row(snap, k).total
    BY <1>1, <2>1 DEF InBounds
  <2>3. \A k \in KeysOf(snap) \cap Namespace(snap.mode) :
           k \in DOMAIN counter /\ counter[k] = Row(snap, k).remaining
    BY <1>1, <2>1 DEF InUse
  <2> QED BY <2>1, <2>2, <2>3 DEF Orderly
<1>3. /\ StrictTypes => Namespace(snap.mode) = TypeKeys
      /\ StrictEvents => Namespace(snap.mode) = EventKeys
      /\ ~EventsBecomeActive
  BY <1>2 DEF StrictTypes, StrictEvents, EventsBecomeActive, Namespace, WriterModes
<1>4. ASSUME NEW y \in Types, y \in DOMAIN snap.stock
      PROVE  LET k == TypeKey(y) IN
             /\ StrictTypes => k \in DOMAIN counter
             /\ k \in DOMAIN counter => /\ ~(counter[k] > snap.stock[y].total)
                                        /\ StrictTypes => ~Differs(counter[k], snap.stock[y])
             /\ StrictTypes => k \in DOMAIN version /\ version[k]
  <2> DEFINE k == TypeKey(y)
  <2>1. k \in TypeKeys /\ k \in KeysOf(snap) /\ Row(snap, k) = snap.stock[y]
    BY <1>1, <1>4, KeyFacts, KeysOfTables
  <2> HIDE DEF k
  <2>2. StrictTypes => k \in DOMAIN counter /\ counter[k] = snap.stock[y].remaining
    BY <1>2, <1>3, <2>1
  <2>3. k \in DOMAIN counter => ~(counter[k] > snap.stock[y].total)
    BY <1>1, <1>2, <2>1
  <2> QED BY <1>2, <2>2, <2>3 DEF Differs, k
<1>5. ASSUME NEW e \in Events, e \in DOMAIN snap.legacy
      PROVE  LET k == EventKey(e) IN
             k \in DOMAIN counter => /\ ~(counter[k] > snap.legacy[e].total)
                                     /\ StrictEvents => ~Differs(counter[k], snap.legacy[e])
  <2> DEFINE k == EventKey(e)
  <2>1. k \in EventKeys /\ k \in KeysOf(snap) /\ Row(snap, k) = snap.legacy[e]
    BY <1>1, <1>5, KeyFacts, KeysOfTables
  <2> HIDE DEF k
  <2>2. StrictEvents => k \in DOMAIN counter /\ counter[k] = snap.legacy[e].remaining
    BY <1>2, <1>3, <2>1
  <2>3. k \in DOMAIN counter => ~(counter[k] > snap.legacy[e].total)
    BY <1>1, <1>2, <2>1
  <2> QED BY <2>2, <2>3 DEF Differs, k
<1>6. ASSUME NEW y \in Types, TypeCounter(y) PROVE found' = found
  <2>1. y \in DOMAIN snap.stock
    BY <1>6 DEF TypeCounter, PageInv, TypesBeyond
  <2>2. /\ StrictTypes => TypeKey(y) \in DOMAIN counter
        /\ TypeKey(y) \in DOMAIN counter =>
             /\ ~(counter[TypeKey(y)] > snap.stock[y].total)
             /\ StrictTypes => ~Differs(counter[TypeKey(y)], snap.stock[y])
    BY <1>4, <2>1
  <2>3. CASE TypeKey(y) \in DOMAIN counter
    BY <1>6, <2>2, <2>3 DEF TypeCounter
  <2>4. CASE TypeKey(y) \notin DOMAIN counter
    BY <1>6, <2>2, <2>4 DEF TypeCounter
  <2> QED BY <2>3, <2>4
<1>7. ASSUME NEW y \in Types, TypeRevision(y) PROVE found' = found
  <2>1. y \in DOMAIN snap.stock /\ StrictTypes
    BY <1>7 DEF TypeRevision, PageInv, TypesBeyond
  <2>2. TypeKey(y) \in DOMAIN version /\ version[TypeKey(y)]
    BY <1>4, <2>1
  <2> QED BY <1>7, <2>2 DEF TypeRevision
<1>8. ASSUME NEW k \in TypeKeys, Scan(k) PROVE found' = found
  <2>1. k \in DOMAIN counter => k[2] \in DOMAIN snap.stock
    BY <1>1, <1>2, KeyFacts, KeysOfTables
  <2> QED BY <1>8, <2>1 DEF Scan
<1>9. ASSUME NEW e \in Events, EventVersion(e) PROVE found' = found
  BY <1>2, <1>9 DEF EventVersion
<1>10. ASSUME NEW e \in Events, EventCounter(e) PROVE found' = found
  <2>1. step = "eventCounter"
    BY <1>10 DEF EventCounter
  <2>2. e \in DOMAIN snap.legacy
    BY <1>1, <1>10, <2>1, NextEventFacts DEF EventsBeyond
  <2>3. EventKey(e) \in DOMAIN counter =>
          /\ ~(counter[EventKey(e)] > snap.legacy[e].total)
          /\ StrictEvents => ~Differs(counter[EventKey(e)], snap.legacy[e])
    BY <1>5, <2>2
  <2> QED BY <1>3, <1>10, <2>3 DEF EventCounter
<1>11. CASE FetchTypes \/ FetchEvents
  BY <1>11 DEF FetchTypes, FetchEvents
<1> QED BY <1>6, <1>7, <1>8, <1>9, <1>10, <1>11 DEF Check

LEMMA QuietCheck ==
  ASSUME ReadinessTypes, PageInv, CalmInv, QuietInv, Check PROVE QuietInv'
<1> SUFFICES ASSUME calm', ~busy', step' # "ended" \/ code' \in {"0", "2"} PROVE QuietInv'
  BY DEF QuietInv
<1>1. UNCHANGED <<db, counter, version, buying, busy, calm, expect, phase, snap>>
  BY CheckReadsOnly DEF valkey
<1>2. step # "ended" /\ CheckTypes /\ WorldTypes
  BY CheckRuns DEF ReadinessTypes
<1>3. /\ db = snap /\ buying = NoBuyer
      /\ phase = "postflight" /\ expect = snap.mode =>
           found \subseteq {"opensearch_projection_diff"}
      /\ phase = "preflight" /\ found = {} =>
           \A k \in Namespace(OtherMode(expect)) :
             Looked(k) => k \in DOMAIN counter /\ counter[k] = Row(snap, k).remaining
  BY <1>1, <1>2 DEF QuietInv
<1>4. ~CheckFails
  BY DEF CheckFails, Leave, Proceed
<1>5. ASSUME phase = "postflight", expect = snap.mode
      PROVE  found' \subseteq {"opensearch_projection_diff"}
  <2>1. CASE CheckSearch
    BY <1>3, <1>5, <2>1 DEF CheckSearch, SearchFinds, Finds
  <2>2. CASE ~CheckSearch
    <3>1. found' = found
      BY <1>1, <1>3, <1>4, <1>5, <2>2, NothingToFind
    <3> QED BY <1>3, <1>5, <3>1
  <2> QED BY <2>1, <2>2
<1>6. ASSUME phase = "preflight", found' = {}, NEW k \in Namespace(OtherMode(expect)), Looked(k)'
      PROVE  k \in DOMAIN counter /\ counter[k] = Row(snap, k).remaining
  <2>1. Running'
    <3>1. CASE CheckSearch
      BY <1>6, <3>1 DEF CheckSearch, ExitCode, Running, Leave, Proceed
    <3>2. CASE ~CheckSearch
      <4>1. code' = code
        BY <1>4, <3>2 DEF Check, FetchTypes, FetchEvents, TypeCounter, TypeRevision, Scan,
                          EventVersion, EventCounter
      <4> QED BY <1>2, <4>1 DEF CheckTypes, Running
    <3> QED BY <3>1, <3>2
  <2>2. Sees
    BY <1>2, <2>1, CheckSees
  <2>3. found = {}
    BY <1>6, <2>1, FoundGrows
  <2>4. StrictTypes /\ StrictEvents
    BY <1>6 DEF StrictTypes, StrictEvents
  <2>5. CASE Looked(k)
    BY <1>3, <1>6, <2>3, <2>5
  <2>6. CASE ~Looked(k) /\ k \in TypeKeys
    <3>1. k[2] \in Types /\ k = TypeKey(k[2]) /\ LookedType(k[2])' /\ ~LookedType(k[2])
      BY <1>6, <2>6, KeyFacts DEF Looked
    <3>2. TypeCounter(k[2]) /\ k[2] \in DOMAIN snap.stock
      BY <1>1, <2>2, <3>1 DEF Sees, LookedType
    <3>3. k \in DOMAIN counter /\ counter[k] = snap.stock[k[2]].remaining
      BY <1>2, <1>6, <2>4, <3>1, <3>2, TypeCounterRight
    <3> QED BY <1>2, <3>1, <3>3, KeysOfTables DEF CheckTypes, IsTables
  <2>7. CASE ~Looked(k) /\ k \in EventKeys
    <3>1. k[2] \in Events /\ k = EventKey(k[2]) /\ LookedEvent(k[2])' /\ ~LookedEvent(k[2])
      BY <1>6, <2>7, KeyFacts DEF Looked
    <3>2. EventCounter(k[2]) /\ k[2] \in DOMAIN snap.legacy
      BY <1>1, <2>2, <3>1 DEF Sees, LookedEvent
    <3>3. EventsBecomeActive
      BY <1>2, <1>6, <2>7, KeyFacts
          DEF EventsBecomeActive, Namespace, OtherMode, CheckTypes, WriterModes
    <3>4. k \in DOMAIN counter /\ counter[k] = snap.legacy[k[2]].remaining
      BY <1>2, <1>6, <2>4, <3>1, <3>2, <3>3, EventCounterRight
    <3> QED BY <1>2, <3>1, <3>4, KeysOfTables DEF CheckTypes, IsTables
  <2> QED BY <1>6, <2>5, <2>6, <2>7 DEF Namespace
<1> QED BY <1>1, <1>3, <1>5, <1>6 DEF QuietInv

LEMMA QuietNext ==
  ASSUME ReadinessTypes, PageInv, CalmInv, QuietInv, [ReadinessNext]_readinessVars PROVE QuietInv'
BY QuietWorld, QuietStart, QuietCheck DEF ReadinessNext, Starts

LEMMA QuietSays == ASSUME QuietInv PROVE NormalOperationIsGreen
BY DEF QuietInv, NormalOperationIsGreen

-----------------------------------------------------------------------------
(* The theorems.                                                           *)

ReadinessInv ==
  ReadinessTypes /\ PageInv /\ GreenInv /\ SwitchInv /\ SoundInv /\ CalmInv /\ QuietInv

\* What a check knows at every step, of the rows, the counters and the keys nobody has
\* touched, and what the world around it leaves true of that.
THEOREM ReadinessInvariant == ReadinessSpec => []ReadinessInv
<1>1. ReadinessInit => ReadinessInv
  <2> SUFFICES ASSUME ReadinessInit PROVE ReadinessInv
    OBVIOUS
  <2>1. step = "ended" /\ code = "none"
    BY DEF ReadinessInit
  <2>2. PageInv /\ GreenInv /\ SwitchInv
    BY <2>1 DEF PageInv, GreenInv, SwitchInv, Attested, Running
  <2> QED BY <2>2, TypesInit, CalmInit DEF ReadinessInv
<1>2. ReadinessInv /\ [ReadinessNext]_readinessVars => ReadinessInv'
  BY TypesNext, PageInvNext, GreenNext, SwitchNext, SoundNext, CalmNext, QuietNext DEF ReadinessInv
<1> QED BY <1>1, <1>2, PTL DEF ReadinessSpec

\* A check that ends green has missed nothing of what nobody touched meanwhile, of any
\* number of Events and types and for any size of page: the walk through the pages and the
\* SCAN (runTicketTypeCutoverReadinessChecks) leaves no row and no key out.
THEOREM GreenChecksMissNothing == ReadinessSpec => []GreenMissedNothing
<1>1. ReadinessInv => GreenMissedNothing
  BY GreenSays DEF ReadinessInv
<1> QED BY <1>1, ReadinessInvariant, PTL

\* After a switch that a green preflight preceded, no counter the writers use is below
\* its row: what purchases, creations, seeds and evictions did during the check and
\* between the check and the switch cannot turn a buyer away.
THEOREM SwitchesTurnNobodyAway == ReadinessSpec => []NoFalseSoldOut
<1>1. ReadinessInv => NoFalseSoldOut
  BY SoundSays DEF ReadinessInv
<1> QED BY <1>1, ReadinessInvariant, PTL

\* A postflight finds nothing but search differences when counters were only used as the
\* code uses them: its rules for the namespace left behind are relaxed enough.
THEOREM PostflightsAreGreen == ReadinessSpec => []NormalOperationIsGreen
<1>1. ReadinessInv => NormalOperationIsGreen
  BY QuietSays DEF ReadinessInv
<1> QED BY <1>1, ReadinessInvariant, PTL
=================================================================================
