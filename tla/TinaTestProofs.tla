--------------------------- MODULE TinaTestProofs ---------------------------
(***************************************************************************)
(* tinatest never sleeps through the end of a test case: for every list, any  *)
(* run_cnt_up_to and any faults, power cuts and signals, when task_begin waits *)
(* on an empty pipe the list is full or the byte is about to be written.      *)
(* And the types.                                                            *)
(***************************************************************************)
EXTENDS TinaTest, TLAPS

\* Where the main thread has a task in hand that is not counted yet.
Starting == {"alone", "lock", "reboot", "status", "fill", "last", "limits", "fork", "record",
             "unlock", "kill", "clean", "tell", "lastsub", "started"}

WakeType ==
  /\ DOMAIN pc = Threads
  /\ running_cnt \in Int
  /\ tokens \in Nat

\* The list is full, or the recycle thread is about to write the byte.
WakeDue ==
  running_cnt >= UpTo \/ (pc[Recycle] = "tell" /\ running_cnt + 1 = UpTo)

\* The inductive invariant.  That the count never exceeds run_cnt_up_to is what makes
\* the comparison in task_recycle_end see the one end that matters; it needs in
\* turn that there is a place left for the task in hand.
WakeInv ==
  /\ WakeType
  /\ running_cnt <= UpTo
  /\ pc["main"] \in Starting => running_cnt < UpTo
  /\ pc["main"] = "wait" /\ tokens = 0 => WakeDue

-----------------------------------------------------------------------------
(* The recycle thread never starts a test case that has had its runs: it is   *)
(* never in that part of task_do that counts a task down without waking the   *)
(* main thread.                                                             *)

\* Before the main thread has recorded a run of its task; for runs in parallel it
\* records the first and forks the next.
Early(t) ==
  \/ pc["main"] \in {"list", "wait", "alone", "lock", "reboot", "status", "fill", "last", "limits"}
  \/ pc["main"] \in {"fork", "record"} /\ ~Env[t].run_parallel

RunType ==
  /\ DOMAIN pc = Threads
  /\ cur \in 1..(N + 1) /\ tsk \in Tasks /\ got[1] \in Tasks
  /\ pc["main"] \notin {"list", "join"} => cur \in Tasks
  /\ pc[Recycle] = "match" /\ got[3] # "leader" => got[2] \in Slots
  /\ run_times \in [Tasks -> Nat] /\ reboot_run_times \in Nat
  /\ sfile \in Nat \cup {None, Empty} /\ sback \in Nat \cup {None, Empty}
  /\ pid \in [Tasks -> [Slots -> {"none", "set", "done"}]]

\* Of a task that was not started nothing is recorded.
Fresh == \A t \in Tasks :
  t > cur \/ (t = cur /\ Early(t)) => \A k \in Slots : pid[t][k] = "none"

\* Where the recycle thread has a task in hand, and where it starts it again.
InHand  == {"check", "lock", "reboot", "status", "fill", "last", "limits", "fork", "record"}
Restart == {"lock", "reboot", "status", "fill", "last", "limits", "fork", "record"}

\* A run of the task in hand has been recorded.
HandKnown == pc[Recycle] \in InHand => \E k \in Slots : pid[tsk][k] # "none"

\* After a reboot: a test case that was started has runs left after the rebooted one.
ResumeBelow == \A t \in Tasks :
  Env[t].may_reboot /\ reboot_mode /\ (\E k \in Slots : pid[t][k] # "none") =>
    reboot_run_times < Limit(t)

\* The main thread starts a rebooted test case with the run the status file names.
MainResumes ==
  /\ Env[cur].may_reboot /\ reboot_mode
       /\ pc["main"] \in {"status", "fill", "last", "limits", "fork", "record"} =>
     run_times[cur] >= reboot_run_times
  /\ Env[cur].may_reboot /\ pc["main"] \in {"limits", "fork", "record"} =>
     run_times[cur] < Limit(cur)

RecyclerBelow ==
  /\ pc[Recycle] # "lastsub"
  /\ pc[Recycle] = "reboot" => Env[tsk].may_reboot
  /\ pc[Recycle] \in Restart => ~Env[tsk].run_parallel /\ run_times[tsk] < Limit(tsk)

RunInv ==
  /\ RunType
  /\ Fresh
  /\ HandKnown
  /\ ResumeBelow
  /\ MainResumes
  /\ RecyclerBelow

\* Init: no run is recorded.
LEMMA RunInit == Init => RunInv
  BY TinaAssumption
  DEF Init, RunInv, RunType, Fresh, HandKnown, ResumeBelow, MainResumes, RecyclerBelow, Early,
      AtStart, InHand, Restart, Threads, Recycle, Tasks, NoDeath, Every, EveryRun

\* The two threads do not work on the same task: what the recycle thread has in hand
\* the main thread has left, except for runs in parallel.
LEMMA Apart ==
  ASSUME Fresh, HandKnown, pc[Recycle] \in InHand, tsk \in Tasks
  PROVE  ~(tsk > cur) /\ ~(tsk = cur /\ Early(tsk))
  BY DEF Fresh, HandKnown

\* The steps of task_recycle_end move a thread and at most leave reboot mode.
LEMMA RunRecycleEnd ==
  ASSUME RunInv, NEW h \in Threads, task_recycle_end(h)
  PROVE  RunInv'
<1> USE TinaAssumption DEF RunInv, RunType, Fresh, HandKnown, ResumeBelow, MainResumes,
      RecyclerBelow, Early, InHand, Restart, Threads, Recycle, At, Goto, Limit
<1>1. CASE KillLimits(h)
  BY <1>1 DEF KillLimits, others, local, tasks, reboots
<1>2. CASE task_clean_reboot(h)
  BY <1>2 DEF task_clean_reboot, others, local, tasks
<1>3. CASE CountEnd(h)
  BY <1>3 DEF CountEnd, others, local, tasks, reboots, flash
<1>4. CASE TELL_PARENT(h)
  BY <1>4 DEF TELL_PARENT, others, local, reboots, flash
<1>5. QED
  BY <1>1, <1>2, <1>3, <1>4 DEF task_recycle_end

\* The steps of task_do.
LEMMA RunDo ==
  ASSUME RunInv, NEW h \in Threads, task_do(h)
  PROVE  RunInv'
<1> USE TinaAssumption DEF RunInv, RunType, Fresh, HandKnown, ResumeBelow, MainResumes,
      RecyclerBelow, Early, InHand, Restart, Threads, Recycle, At, Goto, Leave, Limit
<1>1. CASE LockTask(h)
  BY <1>1 DEF LockTask, T, rest, tasks, reboots, flash
<1>2. CASE task_init_reboot_mode(h)
  <2>1. /\ h = "main" => cur \in Tasks /\ (tsk = cur => pc[Recycle] \notin InHand)
        /\ h = Recycle => tsk # cur \/ ~Early(cur)
    BY <1>2, Apart DEF task_init_reboot_mode
  <2>2. T(h) \in Tasks /\ UNCHANGED <<cur, tsk, got, pid>>
    BY <1>2, <2>1 DEF task_init_reboot_mode, T
  <2>3. \A t \in Tasks : t # T(h) => run_times'[t] = run_times[t]
    BY <1>2, <2>2 DEF task_init_reboot_mode, ResumeAt
  <2>4. RunType'
    <3>1. run_times' \in [Tasks -> Nat] /\ reboot_run_times' \in Nat
      BY <1>2, <2>2 DEF task_init_reboot_mode, ResumeAt, reboots
    <3>2. sfile' \in Nat \cup {None, Empty} /\ sback' \in Nat \cup {None, Empty}
      BY <1>2 DEF task_init_reboot_mode, flash
    <3>3. QED
      BY <1>2, <2>2, <3>1, <3>2 DEF task_init_reboot_mode
  <2>9. Fresh' /\ HandKnown'
    BY <1>2, <2>2 DEF task_init_reboot_mode
  <2>5. ResumeBelow'
    <3>1. CASE reboot_mode
      BY <1>2, <2>2, <3>1 DEF task_init_reboot_mode, reboots
    <3>2. CASE ~reboot_mode
      BY <1>2, <3>2 DEF task_init_reboot_mode
    <3>3. QED
      BY <3>1, <3>2
  <2>6. MainResumes'
    BY <1>2, <2>1, <2>2, <2>3 DEF task_init_reboot_mode, ResumeAt, reboots, T
  <2>7. RecyclerBelow'
    BY <1>2, <2>1, <2>2, <2>3 DEF task_init_reboot_mode, ResumeAt, reboots, T
  <2>8. QED
    BY <2>4, <2>5, <2>6, <2>7, <2>9
<1>3. CASE task_create_reboot_status(h)
  <2>1. UNCHANGED <<cur, tsk, got, pid, run_times, reboot_run_times>>
    BY <1>3 DEF task_create_reboot_status, tasks
  <2>2. sfile' \in Nat \cup {None, Empty} /\ sback' \in Nat \cup {None, Empty}
    <3>1. T(h) \in Tasks
      BY <1>3 DEF task_create_reboot_status, T
    <3>2. QED
      BY <1>3, <3>1 DEF task_create_reboot_status, StatusOpened
  <2>5. reboot_mode' = reboot_mode \/ reboot_mode' = FALSE
    BY <1>3 DEF task_create_reboot_status
  <2>3. \/ pc' = [pc EXCEPT ![h] = "fill"] /\ pc[h] = "status"
        \/ pc' = [pc EXCEPT ![h] = "last"] /\ pc[h] \in {"status", "fill"}
        \/ pc' = [pc EXCEPT ![h] = "unlock"] /\ pc[h] = "status"
    BY <1>3 DEF task_create_reboot_status
  <2>4. QED
    BY <2>1, <2>2, <2>3, <2>5
<1>4. CASE LastTimes(h)
  BY <1>4 DEF LastTimes, T, others, local, rest, tasks, reboots, flash
<1>5. CASE LastSub(h)
  BY <1>5 DEF LastSub, tasks, reboots, flash
<1>6. CASE DoLimits(h)
  BY <1>6 DEF DoLimits, T, reboots, flash
<1>7. CASE ForkTestcase(h)
  BY <1>7 DEF ForkTestcase, tasks, reboots, flash
<1>8. CASE RecordPid(h)
  <2>1. /\ h = "main" => cur \in Tasks /\ (tsk = cur => pc[Recycle] \notin InHand \/ ~Early(cur))
        /\ h = Recycle => tsk # cur \/ ~Early(cur)
    BY <1>8, Apart DEF RecordPid
  <2>2. T(h) \in Tasks
    BY <1>8, <2>1 DEF RecordPid, T
  <2>3. UNCHANGED <<cur, tsk, got, reboot_run_times, reboot_mode, sfile, sback>>
    BY <1>8 DEF RecordPid, reboots, flash
  <2>4. \A t \in Tasks : t # T(h) => pid'[t] = pid[t] /\ run_times'[t] = run_times[t]
    BY <1>8, <2>2 DEF RecordPid
  <2>5. RunType'
    <3>1. run_times' \in [Tasks -> Nat]
      BY <1>8, <2>2 DEF RecordPid
    <3>2. pid' \in [Tasks -> [Slots -> {"none", "set", "done"}]]
      BY <1>8, <2>2 DEF RecordPid
    <3>3. QED
      BY <1>8, <2>3, <3>1, <3>2 DEF RecordPid
  <2>6. Fresh'
    BY <1>8, <2>1, <2>2, <2>3, <2>4 DEF RecordPid, T
  <2>7. HandKnown'
    BY <1>8, <2>1, <2>2, <2>3, <2>4 DEF RecordPid, T
  <2>8. ResumeBelow'
    BY <1>8, <2>1, <2>2, <2>3, <2>4 DEF RecordPid, T
  <2>9. MainResumes'
    BY <1>8, <2>1, <2>2, <2>3, <2>4 DEF RecordPid, T
  <2>10. RecyclerBelow'
    BY <1>8, <2>1, <2>2, <2>3, <2>4 DEF RecordPid, T
  <2>11. QED
    BY <2>5, <2>6, <2>7, <2>8, <2>9, <2>10
<1>9. CASE UnlockTask(h)
  BY <1>9 DEF UnlockTask, rest, tasks, reboots, flash
<1>10. QED
  BY <1>1, <1>2, <1>3, <1>4, <1>5, <1>6, <1>7, <1>8, <1>9 DEF task_do

\* The steps of task_begin.
LEMMA RunBegin ==
  ASSUME RunInv, task_begin
  PROVE  RunInv'
<1> USE TinaAssumption DEF RunInv, RunType, Fresh, HandKnown, ResumeBelow, MainResumes,
      RecyclerBelow, Early, InHand, Restart, Threads, Recycle, At, Goto, NextTask, Limit
<1>1. CASE ListTop
  BY <1>1 DEF ListTop, Tasks, others, local, rest, tasks, reboots, flash
<1>2. CASE WAIT_CHILD
  BY <1>2 DEF WAIT_CHILD, others, local, tasks, reboots, flash
<1>3. CASE BeginTask
  <2>1. /\ UNCHANGED <<tsk, got, run_times, pid, reboot_mode, reboot_run_times, sfile, sback>>
        /\ pc["main"] = "alone" /\ cur \in Tasks
    BY <1>3 DEF BeginTask, reboots, flash
  <2>2. \/ cur' = cur + 1 /\ pc' = [pc EXCEPT !["main"] = "list"]
        \/ cur' = cur /\ pc' = [pc EXCEPT !["main"] = "lock"]
    BY <1>3 DEF BeginTask
  <2>3. QED
    BY <2>1, <2>2 DEF Tasks
<1>4. CASE TaskStarted
  BY <1>4 DEF TaskStarted, others, local, tasks, reboots, flash
<1>5. CASE TaskFailed
  BY <1>5 DEF TaskFailed, reboots, flash, Tasks
<1>6. CASE WaitAlone
  BY <1>6 DEF WaitAlone, rest, tasks, reboots, flash, Tasks
<1>7. CASE task_quit_clean
  <2>1. UNCHANGED <<pc, cur, tsk, got, run_times, pid, reboot_mode, reboot_run_times, sfile, sback>>
    BY <1>7 DEF task_quit_clean, sched, rest, tasks, reboots, flash
  <2>2. QED
    BY <2>1
<1>8. QED
  BY <1>1, <1>2, <1>3, <1>4, <1>5, <1>6, <1>7 DEF task_begin

\* The steps of task_recycle.
LEMMA RunRecycle ==
  ASSUME RunInv, task_recycle
  PROVE  RunInv'
<1> USE TinaAssumption DEF RunInv, RunType, Fresh, HandKnown, ResumeBelow, MainResumes,
      RecyclerBelow, Early, InHand, Restart, Threads, Recycle, At, Goto, Limit
<1>1. CASE RecycleTop
  BY <1>1 DEF RecycleTop, others, local, rest, tasks, reboots, flash
<1>2. CASE wait4
  BY <1>2 DEF wait4, tasks, reboots, flash
<1>3. CASE MatchLeader
  BY <1>3 DEF MatchLeader, local, reboots, flash, NoDeath, Tasks
<1>4. CASE task_recycle_once
  BY <1>4 DEF task_recycle_once, Recorded, reboots, flash
<1>5. CASE NoMatch
  <2>1. UNCHANGED <<cur, tsk, run_times, pid, reboot_mode, reboot_run_times, sfile, sback>>
    BY <1>5 DEF NoMatch, local, tasks, reboots, flash
  <2>2. pc' = [pc EXCEPT ![Recycle] = "top"] /\ got'[1] \in Tasks
    BY <1>5 DEF NoMatch, NoDeath, Tasks
  <2>3. QED
    BY <2>1, <2>2
<1>6. CASE task_check_end
  BY <1>6 DEF task_check_end, Ended, others, local, rest, tasks, reboots, flash
<1>7. CASE Again
  BY <1>7 DEF Again, local, rest, tasks, reboots, flash, NoDeath, Tasks
<1>8. QED
  BY <1>1, <1>2, <1>3, <1>4, <1>5, <1>6, <1>7 DEF task_recycle

\* The steps of the test cases, their limits, the signals and the machine.
LEMMA RunOutside ==
  ASSUME RunInv,
         \/ \E t \in Tasks : OnceLimit(t) \/ WholeLimit(t) \/ \E k \in Slots : Exit(t, k)
         \/ task_signal_quit \/ PowerOff \/ task_do_crash
         \/ task_recover_after_reboot \/ Stopped
         \/ UNCHANGED vars
  PROVE  RunInv'
<1> USE DEF RunInv, RunType, Fresh, HandKnown, ResumeBelow, MainResumes, RecyclerBelow, Early
<1>1. ASSUME NEW t \in Tasks, OnceLimit(t) PROVE RunInv'
  BY <1>1 DEF OnceLimit, sched, tasks, reboots, flash
<1>2. ASSUME NEW t \in Tasks, WholeLimit(t) PROVE RunInv'
  BY <1>2 DEF WholeLimit, sched, reboots, flash
<1>3. ASSUME NEW t \in Tasks, NEW k \in Slots, Exit(t, k) PROVE RunInv'
  BY <1>3 DEF Exit, sched, tasks, reboots, flash
<1>4. CASE task_signal_quit
  BY <1>4 DEF task_signal_quit, sched, tasks, reboots, flash
<1>5. CASE PowerOff
  BY <1>5 DEF PowerOff, sched, tasks, reboots, flash
<1>6. CASE task_recover_after_reboot
  BY <1>6, TinaAssumption
  DEF task_recover_after_reboot, FollowingRun, AtStart, InHand, Restart, Threads, Recycle, Tasks,
      NoDeath, Every, EveryRun, flash, None, Empty
<1>7. CASE Stopped \/ UNCHANGED vars
  BY <1>7 DEF Stopped, vars
<1>8. CASE task_do_crash
  BY <1>8 DEF task_do_crash, sched, tasks, reboots, flash
<1>9. QED
  BY <1>1, <1>2, <1>3, <1>4, <1>5, <1>6, <1>7, <1>8

\* RunInv holds in every reachable state.
LEMMA RunInvariant == Spec => []RunInv
<1>1. RunInv /\ [Next]_vars => RunInv'
  <2> SUFFICES ASSUME RunInv, [Next]_vars PROVE RunInv'
    OBVIOUS
  <2>1. CASE Main
    BY <2>1, RunBegin, RunDo, RunRecycleEnd DEF Main, Thread, Threads
  <2>2. CASE Recycler
    BY <2>2, RunRecycle, RunDo, RunRecycleEnd DEF Recycler, Thread, Threads, Recycle
  <2>3. CASE ~Main /\ ~Recycler
    BY <2>3, RunOutside DEF Next
  <2>4. QED
    BY <2>1, <2>2, <2>3
<1>2. QED
  BY RunInit, <1>1, PTL DEF Spec

-----------------------------------------------------------------------------
\* Init: nothing runs, the main thread is at the top of its list.
LEMMA WakeInit == Init => WakeInv
  BY TinaAssumption DEF Init, WakeInv, WakeType, WakeDue, AtStart, Starting, Threads, Recycle

\* The steps of task_recycle_end, by either thread.
LEMMA WakeRecycleEnd ==
  ASSUME WakeInv, NEW h \in Threads, task_recycle_end(h)
  PROVE  WakeInv'
<1> USE TinaAssumption DEF WakeInv, WakeType, WakeDue, Starting, Threads, Recycle, At, Goto
<1>1. CASE KillLimits(h)
  BY <1>1 DEF KillLimits, counts
<1>2. CASE task_clean_reboot(h)
  BY <1>2 DEF task_clean_reboot, SUB
<1>3. CASE CountEnd(h)
  BY <1>3 DEF CountEnd, SUB
<1>4. CASE TELL_PARENT(h)
  BY <1>4 DEF TELL_PARENT, GaveUpLast
<1>5. QED
  BY <1>1, <1>2, <1>3, <1>4 DEF task_recycle_end

\* The steps of task_do, by either thread.
LEMMA WakeDo ==
  ASSUME WakeInv, RunInv, NEW h \in Threads, task_do(h)
  PROVE  WakeInv'
<1> USE TinaAssumption DEF WakeInv, WakeType, WakeDue, Starting, Threads, Recycle, At, Goto, Leave
<1>1. CASE LockTask(h)
  BY <1>1 DEF LockTask, rest, counts
<1>2. CASE task_init_reboot_mode(h)
  BY <1>2 DEF task_init_reboot_mode, counts
<1>3. CASE task_create_reboot_status(h)
  BY <1>3 DEF task_create_reboot_status, counts
<1>4. CASE LastTimes(h)
  BY <1>4 DEF LastTimes, rest, counts
<1>5. CASE LastSub(h)
  <2>1. h = "main"
    BY <1>5 DEF LastSub, RunInv, RecyclerBelow
  <2>2. QED
    BY <1>5, <2>1 DEF LastSub, SUB
<1>6. CASE DoLimits(h)
  BY <1>6 DEF DoLimits, counts
<1>7. CASE ForkTestcase(h)
  BY <1>7 DEF ForkTestcase, counts
<1>8. CASE RecordPid(h)
  BY <1>8 DEF RecordPid, counts
<1>9. CASE UnlockTask(h)
  BY <1>9 DEF UnlockTask, rest, counts
<1>10. QED
  BY <1>1, <1>2, <1>3, <1>4, <1>5, <1>6, <1>7, <1>8, <1>9 DEF task_do

\* The steps of task_begin.
LEMMA WakeBegin ==
  ASSUME WakeInv, task_begin
  PROVE  WakeInv'
<1> USE TinaAssumption DEF WakeInv, WakeType, WakeDue, Starting, Threads, Recycle, At, Goto, NextTask
<1>1. CASE ListTop
  BY <1>1 DEF ListTop, Full, rest, counts
<1>2. CASE WAIT_CHILD
  BY <1>2 DEF WAIT_CHILD, HasByte
<1>3. CASE BeginTask
  BY <1>3 DEF BeginTask, ERR
<1>4. CASE TaskStarted
  BY <1>4 DEF TaskStarted, ADD
<1>5. CASE TaskFailed
  BY <1>5 DEF TaskFailed, ERR
<1>6. CASE WaitAlone
  BY <1>6 DEF WaitAlone, rest, counts
<1>7. CASE task_quit_clean
  BY <1>7 DEF task_quit_clean, sched, rest, counts
<1>8. QED
  BY <1>1, <1>2, <1>3, <1>4, <1>5, <1>6, <1>7 DEF task_begin

\* The steps of task_recycle.
LEMMA WakeRecycle ==
  ASSUME WakeInv, task_recycle
  PROVE  WakeInv'
<1> USE TinaAssumption DEF WakeInv, WakeType, WakeDue, Starting, Threads, Recycle, At, Goto
<1>1. CASE RecycleTop
  BY <1>1 DEF RecycleTop, rest, counts
<1>2. CASE wait4
  BY <1>2 DEF wait4, counts
<1>3. CASE MatchLeader
  BY <1>3 DEF MatchLeader, counts
<1>4. CASE task_recycle_once
  BY <1>4 DEF task_recycle_once, counts
<1>5. CASE NoMatch
  BY <1>5 DEF NoMatch, counts
<1>6. CASE task_check_end
  BY <1>6 DEF task_check_end, rest, counts
<1>7. CASE Again
  BY <1>7 DEF Again, rest, counts
<1>8. QED
  BY <1>1, <1>2, <1>3, <1>4, <1>5, <1>6, <1>7 DEF task_recycle

\* The steps of the test cases, their limits, the signals and the machine.
LEMMA WakeOutside ==
  ASSUME WakeInv,
         \/ \E t \in Tasks : OnceLimit(t) \/ WholeLimit(t) \/ \E k \in Slots : Exit(t, k)
         \/ task_signal_quit \/ PowerOff \/ task_do_crash
         \/ task_recover_after_reboot \/ Stopped
         \/ UNCHANGED vars
  PROVE  WakeInv'
<1> USE DEF WakeInv, WakeType, WakeDue
<1>1. ASSUME NEW t \in Tasks, OnceLimit(t) PROVE WakeInv'
  BY <1>1 DEF OnceLimit, sched, counts
<1>2. ASSUME NEW t \in Tasks, WholeLimit(t) PROVE WakeInv'
  BY <1>2 DEF WholeLimit, sched, counts
<1>3. ASSUME NEW t \in Tasks, NEW k \in Slots, Exit(t, k) PROVE WakeInv'
  BY <1>3 DEF Exit, sched, counts
<1>4. CASE task_signal_quit
  BY <1>4 DEF task_signal_quit, sched, counts
<1>5. CASE PowerOff
  BY <1>5 DEF PowerOff, sched, counts
<1>6. CASE task_recover_after_reboot
  BY <1>6, TinaAssumption
  DEF task_recover_after_reboot, AtStart, Threads, Starting, Recycle
<1>7. CASE Stopped \/ UNCHANGED vars
  BY <1>7 DEF Stopped, vars
<1>8. CASE task_do_crash
  BY <1>8 DEF task_do_crash, sched, counts
<1>9. QED
  BY <1>1, <1>2, <1>3, <1>4, <1>5, <1>6, <1>7, <1>8

\* The count never exceeds run_cnt_up_to, and WakeDue holds where it must.
LEMMA WakeInvariant == Spec => []WakeInv
<1>1. RunInv /\ WakeInv /\ [Next]_vars => WakeInv'
  <2> SUFFICES ASSUME RunInv, WakeInv, [Next]_vars PROVE WakeInv'
    OBVIOUS
  <2>1. CASE Main
    BY <2>1, WakeBegin, WakeDo, WakeRecycleEnd DEF Main, Thread, Threads
  <2>2. CASE Recycler
    BY <2>2, WakeRecycle, WakeDo, WakeRecycleEnd DEF Recycler, Thread, Threads, Recycle
  <2>3. CASE ~Main /\ ~Recycler
    BY <2>3, WakeOutside DEF Next
  <2>4. QED
    BY <2>1, <2>2, <2>3
<1>2. QED
  BY WakeInit, RunInvariant, <1>1, PTL DEF Spec

\* The wake-up of the main thread by task_recycle_end is never missed: the recycle
\* thread counts down only where it also tells, and never from a count above the limit.
THEOREM WakeupNeverMissed == Spec => []NoMissedWakeup
<1>1. WakeInv => NoMissedWakeup
  BY DEF WakeInv, WakeDue, NoMissedWakeup, At
<1>2. QED
  BY <1>1, WakeInvariant, PTL

-----------------------------------------------------------------------------
(* The types, and where the threads are *)

\* The part of task_do in which a thread prepares and forks, and that in which a
\* test case is ended.
Doing  == {"lock", "reboot", "status", "fill", "last", "limits", "fork", "record"}
Ending == {"kill", "clean", "sub", "tell"}

\* The main thread has begun the task it is at and not yet counted it.
Begun == Doing \cup {"kill", "clean", "tell", "lastsub", "unlock", "started", "failed"}

MainAt ==
  pc["main"] \in Begun \cup {"list", "wait", "alone", "after", "join", "sub"}
RecycleAt ==
  pc[Recycle] \in Doing \cup Ending \cup {"top", "wait4", "match", "check", "unlock", "again", "exit"}

\* The types of the variables that RunType and WakeType leave out.
PlaceTypes ==
  /\ MainAt /\ RecycleAt
  /\ DOMAIN ret = Threads /\ ret["main"] \in BOOLEAN
  /\ lock \in Threads \cup {"free"}

FlagTypes ==
  /\ tool \in {"run", "off", "exited", "failed", "killed", "crashed"}
  /\ quit \in [Tasks -> BOOLEAN] /\ ttquit \in BOOLEAN
  /\ reboot_mode \in BOOLEAN

TaskTypes ==
  /\ status \in [Tasks -> {"WAIT", "RUN", "END"}]
  /\ pgid \in [Tasks -> {-1, 0, 1}]
  /\ end_cnt \in Nat /\ faults \in Nat /\ cuts \in Nat
  /\ reboot_keypath \in Tasks \cup {None} /\ fboot \in Tasks \cup {None}

ProcTypes ==
  /\ proc \in [Tasks -> [Slots -> {"none", "alive", "gone"} \cup Zombies]]
  /\ DOMAIN leader = Tasks

AllTypes == PlaceTypes /\ FlagTypes /\ TaskTypes /\ ProcTypes

\* Init: the types.
LEMMA TypesInit == Init => AllTypes
<1> SUFFICES ASSUME Init PROVE AllTypes
  OBVIOUS
<1>1. PlaceTypes
  BY DEF Init, PlaceTypes, MainAt, RecycleAt, AtStart, Threads, Recycle
<1>2. FlagTypes /\ TaskTypes
  BY DEF Init, FlagTypes, TaskTypes, Every
<1>3. ProcTypes
  BY DEF Init, ProcTypes, Every, EveryRun
<1> QED
  BY <1>1, <1>2, <1>3 DEF AllTypes

\* A signal to a group leaves a state of every process.
LEMMA KillTypes ==
  ASSUME ProcTypes, NEW t \in Tasks, NEW how \in Zombies, kill(t, how)
  PROVE  ProcTypes'
<1>1. Struck(t, how) \in [Slots -> {"none", "alive", "gone"} \cup Zombies]
  BY DEF ProcTypes, Struck
<1>2. proc' \in [Tasks -> [Slots -> {"none", "alive", "gone"} \cup Zombies]]
  BY <1>1 DEF ProcTypes, kill
<1>3. DOMAIN leader' = Tasks
  BY DEF ProcTypes, kill
<1> QED
  BY <1>2, <1>3 DEF ProcTypes

\* The threads go from place to place in their own parts of the code.
LEMMA PlacesKept ==
  ASSUME RunInv, PlaceTypes, [Next]_vars
  PROVE  PlaceTypes'
<1> USE TinaAssumption DEF PlaceTypes, RunInv, RunType, RecyclerBelow, MainAt, RecycleAt, Begun,
      Doing, Ending, Threads, Recycle, At, Goto
<1>1. ASSUME NEW h \in Threads, KillLimits(h) PROVE PlaceTypes'
  BY <1>1 DEF KillLimits, others, local
<1>2. ASSUME NEW h \in Threads, task_clean_reboot(h) PROVE PlaceTypes'
  BY <1>2 DEF task_clean_reboot, others, local
<1>3. ASSUME NEW h \in Threads, CountEnd(h) PROVE PlaceTypes'
  BY <1>3 DEF CountEnd, others, local
<1>4. ASSUME NEW h \in Threads, TELL_PARENT(h) PROVE PlaceTypes'
  BY <1>4 DEF TELL_PARENT, others, local
<1>5. ASSUME NEW h \in Threads, LockTask(h) PROVE PlaceTypes'
  BY <1>5 DEF LockTask
<1>6. ASSUME NEW h \in Threads, task_init_reboot_mode(h) PROVE PlaceTypes'
  BY <1>6, ZenonT(40) DEF task_init_reboot_mode, Leave
<1>7. ASSUME NEW h \in Threads, task_create_reboot_status(h) PROVE PlaceTypes'
  BY <1>7, ZenonT(40) DEF task_create_reboot_status, Leave
<1>8. ASSUME NEW h \in Threads, LastTimes(h) PROVE PlaceTypes'
  BY <1>8 DEF LastTimes, others, local, Restart, T, Limit
<1>9. ASSUME NEW h \in Threads, LastSub(h) PROVE PlaceTypes'
  BY <1>9 DEF LastSub, Leave
<1>10. ASSUME NEW h \in Threads, DoLimits(h) PROVE PlaceTypes'
  BY <1>10, ZenonT(40) DEF DoLimits, Leave
<1>11. ASSUME NEW h \in Threads, ForkTestcase(h) PROVE PlaceTypes'
  BY <1>11, ZenonT(40) DEF ForkTestcase, Leave
<1>12. ASSUME NEW h \in Threads, RecordPid(h) PROVE PlaceTypes'
  BY <1>12, ZenonT(40) DEF RecordPid, Leave
<1>13. ASSUME NEW h \in Threads, UnlockTask(h) PROVE PlaceTypes'
  BY <1>13 DEF UnlockTask
<1>14. CASE ListTop
  BY <1>14 DEF ListTop, others, local
<1>15. CASE WAIT_CHILD
  BY <1>15 DEF WAIT_CHILD, others, local
<1>16. CASE BeginTask
  BY <1>16 DEF BeginTask, NextTask
<1>17. CASE TaskStarted
  BY <1>17 DEF TaskStarted, others, local
<1>18. CASE TaskFailed
  BY <1>18 DEF TaskFailed, NextTask
<1>19. CASE WaitAlone
  BY <1>19 DEF WaitAlone, NextTask
<1>20. CASE task_quit_clean
  BY <1>20 DEF task_quit_clean, sched
<1>21. CASE RecycleTop
  BY <1>21 DEF RecycleTop, others, local
<1>22. CASE wait4
  <2>1. UNCHANGED <<ret, lock>> /\ \E p \in {"match", "top"} : pc' = [pc EXCEPT ![Recycle] = p]
    BY <1>22 DEF wait4, Goto, At
  <2> QED
    BY <1>22, <2>1 DEF wait4
<1>23. CASE MatchLeader
  BY <1>23 DEF MatchLeader, local
<1>24. CASE task_recycle_once
  BY <1>24 DEF task_recycle_once
<1>25. CASE NoMatch
  BY <1>25 DEF NoMatch, local
<1>26. CASE task_check_end
  BY <1>26 DEF task_check_end, others, local
<1>27. CASE Again
  BY <1>27 DEF Again, local
<1>28. ASSUME NEW t \in Tasks, OnceLimit(t) PROVE PlaceTypes'
  BY <1>28 DEF OnceLimit, sched
<1>29. ASSUME NEW t \in Tasks, WholeLimit(t) PROVE PlaceTypes'
  BY <1>29 DEF WholeLimit, sched
<1>30. ASSUME NEW t \in Tasks, NEW k \in Slots, Exit(t, k) PROVE PlaceTypes'
  BY <1>30 DEF Exit, sched
<1>31. CASE task_signal_quit
  BY <1>31 DEF task_signal_quit, sched
<1>32. CASE PowerOff
  BY <1>32 DEF PowerOff, sched
<1>33. CASE task_recover_after_reboot
  BY <1>33 DEF task_recover_after_reboot, AtStart
<1>34. CASE Stopped \/ UNCHANGED vars
  <2>1. UNCHANGED <<pc, ret, lock>>
    BY <1>34 DEF Stopped, vars
  <2> QED
    BY <2>1
<1>35. CASE task_do_crash
  BY <1>35 DEF task_do_crash, sched
<1> QED
  BY <1>1, <1>2, <1>3, <1>4, <1>5, <1>6, <1>7, <1>8, <1>9, <1>10, <1>11, <1>12, <1>13, <1>14,
     <1>15, <1>16, <1>17, <1>18, <1>19, <1>20, <1>21, <1>22, <1>23, <1>24, <1>25, <1>26, <1>27,
     <1>28, <1>29, <1>30, <1>31, <1>32, <1>33, <1>34, <1>35
  DEF Next, Main, Recycler, Thread, task_begin, task_recycle, task_do, task_recycle_end, Threads,
      Recycle


\* The flags stay flags.
LEMMA FlagsKept ==
  ASSUME FlagTypes, [Next]_vars
  PROVE  FlagTypes'
<1> USE TinaAssumption DEF FlagTypes
<1>1. ASSUME NEW h \in Threads, KillLimits(h) PROVE FlagTypes'
  BY <1>1 DEF KillLimits, tasks, reboots, others
<1>2. ASSUME NEW h \in Threads, task_clean_reboot(h) PROVE FlagTypes'
  BY <1>2 DEF task_clean_reboot, tasks, others
<1>3. ASSUME NEW h \in Threads, CountEnd(h) PROVE FlagTypes'
  BY <1>3 DEF CountEnd, tasks, reboots, others
<1>4. ASSUME NEW h \in Threads, TELL_PARENT(h) PROVE FlagTypes'
  BY <1>4 DEF TELL_PARENT, reboots, others
<1>5. ASSUME NEW h \in Threads, LockTask(h) PROVE FlagTypes'
  BY <1>5 DEF LockTask, rest, tasks, reboots
<1>6. ASSUME NEW h \in Threads, task_init_reboot_mode(h) PROVE FlagTypes'
  BY <1>6 DEF task_init_reboot_mode, reboots
<1>7. ASSUME NEW h \in Threads, task_create_reboot_status(h) PROVE FlagTypes'
  BY <1>7 DEF task_create_reboot_status, tasks
<1>8. ASSUME NEW h \in Threads, LastTimes(h) PROVE FlagTypes'
  BY <1>8 DEF LastTimes, others, rest, tasks, reboots
<1>9. ASSUME NEW h \in Threads, LastSub(h) PROVE FlagTypes'
  BY <1>9 DEF LastSub, tasks, reboots
<1>10. ASSUME NEW h \in Threads, DoLimits(h) PROVE FlagTypes'
  BY <1>10 DEF DoLimits, reboots
<1>11. ASSUME NEW h \in Threads, ForkTestcase(h) PROVE FlagTypes'
  BY <1>11 DEF ForkTestcase, tasks, reboots
<1>12. ASSUME NEW h \in Threads, RecordPid(h) PROVE FlagTypes'
  BY <1>12 DEF RecordPid, reboots
<1>13. ASSUME NEW h \in Threads, UnlockTask(h) PROVE FlagTypes'
  BY <1>13 DEF UnlockTask, rest, tasks, reboots
<1>14. CASE ListTop
  BY <1>14 DEF ListTop, others, rest, tasks, reboots
<1>15. CASE WAIT_CHILD
  BY <1>15 DEF WAIT_CHILD, tasks, reboots, others
<1>16. CASE BeginTask
  BY <1>16 DEF BeginTask, reboots
<1>17. CASE TaskStarted
  BY <1>17 DEF TaskStarted, tasks, reboots, others
<1>18. CASE TaskFailed
  BY <1>18 DEF TaskFailed, reboots
<1>19. CASE WaitAlone
  BY <1>19 DEF WaitAlone, rest, tasks, reboots
<1>20. CASE task_quit_clean
  BY <1>20 DEF task_quit_clean, rest, tasks, reboots
<1>21. CASE RecycleTop
  BY <1>21 DEF RecycleTop, others, rest, tasks, reboots
<1>22. CASE wait4
  <2>1. UNCHANGED <<tool, quit, ttquit, reboot_mode>> /\ \E p \in {"match", "top"} : pc' = [pc EXCEPT ![Recycle] = p]
    BY <1>22 DEF wait4, tasks, reboots, Goto, At
  <2> QED
    BY <1>22, <2>1 DEF wait4
<1>23. CASE MatchLeader
  BY <1>23 DEF MatchLeader, reboots
<1>24. CASE task_recycle_once
  BY <1>24 DEF task_recycle_once, reboots
<1>25. CASE NoMatch
  BY <1>25 DEF NoMatch, tasks, reboots
<1>26. CASE task_check_end
  BY <1>26 DEF task_check_end, others, rest, tasks, reboots
<1>27. CASE Again
  BY <1>27 DEF Again, rest, tasks, reboots
<1>28. ASSUME NEW t \in Tasks, OnceLimit(t) PROVE FlagTypes'
  BY <1>28 DEF OnceLimit, tasks, reboots
<1>29. ASSUME NEW t \in Tasks, WholeLimit(t) PROVE FlagTypes'
  BY <1>29 DEF WholeLimit, reboots
<1>30. ASSUME NEW t \in Tasks, NEW k \in Slots, Exit(t, k) PROVE FlagTypes'
  BY <1>30 DEF Exit, tasks, reboots
<1>31. CASE task_signal_quit
  BY <1>31 DEF task_signal_quit, tasks, reboots
<1>32. CASE PowerOff
  BY <1>32 DEF PowerOff, tasks, reboots
<1>33. CASE task_recover_after_reboot
  BY <1>33 DEF task_recover_after_reboot, Every
<1>34. CASE Stopped \/ UNCHANGED vars
  <2>1. UNCHANGED <<tool, quit, ttquit, reboot_mode>>
    BY <1>34 DEF Stopped, vars
  <2> QED
    BY <2>1
<1>35. CASE task_do_crash
  BY <1>35 DEF task_do_crash, tasks, reboots
<1> QED
  BY <1>1, <1>2, <1>3, <1>4, <1>5, <1>6, <1>7, <1>8, <1>9, <1>10, <1>11, <1>12, <1>13, <1>14,
     <1>15, <1>16, <1>17, <1>18, <1>19, <1>20, <1>21, <1>22, <1>23, <1>24, <1>25, <1>26, <1>27,
     <1>28, <1>29, <1>30, <1>31, <1>32, <1>33, <1>34, <1>35
  DEF Next, Main, Recycler, Thread, task_begin, task_recycle, task_do, task_recycle_end, Threads,
      Recycle

\* So do the status and the group of a task, the counts and the files.
LEMMA TaskTypesKept ==
  ASSUME RunInv, TaskTypes, [Next]_vars
  PROVE  TaskTypes'
<1> USE TinaAssumption DEF TaskTypes
<1>1. ASSUME NEW h \in Threads, KillLimits(h) PROVE TaskTypes'
  BY <1>1 DEF KillLimits, tasks, counts, reboots, bounds
<1>2. ASSUME NEW h \in Threads, task_clean_reboot(h) PROVE TaskTypes'
  BY <1>2 DEF task_clean_reboot, tasks, bounds, SUB
<1>3. ASSUME NEW h \in Threads, CountEnd(h) PROVE TaskTypes'
  BY <1>3 DEF CountEnd, tasks, reboots, flash, bounds, SUB
<1>4. ASSUME NEW h \in Threads, TELL_PARENT(h) PROVE TaskTypes'
  BY <1>4 DEF TELL_PARENT, reboots, flash, bounds
<1>5. ASSUME NEW h \in Threads, LockTask(h) PROVE TaskTypes'
  BY <1>5 DEF LockTask, rest, tasks, counts, reboots, flash, bounds
<1>6. ASSUME NEW h \in Threads, task_init_reboot_mode(h) PROVE TaskTypes'
  <2>1. status' \in [Tasks -> {"WAIT", "RUN", "END"}] /\ pgid' \in [Tasks -> {-1, 0, 1}]
    BY <1>6 DEF task_init_reboot_mode
  <2>2. end_cnt' \in Nat /\ faults' \in Nat /\ cuts' \in Nat
    <3>1. UNCHANGED <<end_cnt, cuts>>
      BY <1>6 DEF task_init_reboot_mode, counts
    <3>2. faults' = faults \/ faults' = faults + 1
      BY <1>6 DEF task_init_reboot_mode, Fails
    <3> QED
      BY <3>1, <3>2
  <2>3. reboot_keypath' \in Tasks \cup {None} /\ fboot' \in Tasks \cup {None}
    BY <1>6 DEF task_init_reboot_mode, reboots, flash, RunInv, RunType, T, Threads, At
  <2> QED
    BY <2>1, <2>2, <2>3
<1>7. ASSUME NEW h \in Threads, task_create_reboot_status(h) PROVE TaskTypes'
  <2>1. status' \in [Tasks -> {"WAIT", "RUN", "END"}] /\ pgid' \in [Tasks -> {-1, 0, 1}]
    BY <1>7 DEF task_create_reboot_status, tasks
  <2>2. end_cnt' \in Nat /\ faults' \in Nat /\ cuts' \in Nat
    <3>1. UNCHANGED <<end_cnt, cuts>>
      BY <1>7 DEF task_create_reboot_status, counts
    <3>2. faults' = faults \/ faults' = faults + 1
      BY <1>7 DEF task_create_reboot_status, Fails
    <3> QED
      BY <3>1, <3>2
  <2>3. reboot_keypath' \in Tasks \cup {None} /\ fboot' \in Tasks \cup {None}
    BY <1>7 DEF task_create_reboot_status
  <2> QED
    BY <2>1, <2>2, <2>3
<1>8. ASSUME NEW h \in Threads, LastTimes(h) PROVE TaskTypes'
  BY <1>8 DEF LastTimes, rest, tasks, counts, reboots, flash, bounds
<1>9. ASSUME NEW h \in Threads, LastSub(h) PROVE TaskTypes'
  BY <1>9 DEF LastSub, tasks, reboots, flash, bounds, SUB
<1>10. ASSUME NEW h \in Threads, DoLimits(h) PROVE TaskTypes'
  <2>1. status' \in [Tasks -> {"WAIT", "RUN", "END"}] /\ pgid' \in [Tasks -> {-1, 0, 1}]
    BY <1>10 DEF DoLimits, NewGroup
  <2>2. end_cnt' \in Nat /\ faults' \in Nat /\ cuts' \in Nat
    <3>1. UNCHANGED <<end_cnt, cuts>>
      BY <1>10 DEF DoLimits, counts
    <3>2. faults' = faults \/ faults' = faults + 1
      BY <1>10 DEF DoLimits, Fails
    <3> QED
      BY <3>1, <3>2
  <2>3. reboot_keypath' \in Tasks \cup {None} /\ fboot' \in Tasks \cup {None}
    BY <1>10 DEF DoLimits, reboots, flash
  <2> QED
    BY <2>1, <2>2, <2>3
<1>11. ASSUME NEW h \in Threads, ForkTestcase(h) PROVE TaskTypes'
  <2>1. status' \in [Tasks -> {"WAIT", "RUN", "END"}] /\ pgid' \in [Tasks -> {-1, 0, 1}]
    BY <1>11 DEF ForkTestcase, tasks
  <2>2. end_cnt' \in Nat /\ faults' \in Nat /\ cuts' \in Nat
    <3>1. UNCHANGED <<end_cnt, cuts>>
      BY <1>11 DEF ForkTestcase, counts
    <3>2. faults' = faults \/ faults' = faults + 1
      BY <1>11 DEF ForkTestcase, Fails
    <3> QED
      BY <3>1, <3>2
  <2>3. reboot_keypath' \in Tasks \cup {None} /\ fboot' \in Tasks \cup {None}
    BY <1>11 DEF ForkTestcase, reboots, flash
  <2> QED
    BY <2>1, <2>2, <2>3
<1>12. ASSUME NEW h \in Threads, RecordPid(h) PROVE TaskTypes'
  BY <1>12 DEF RecordPid, counts, reboots, flash, bounds
<1>13. ASSUME NEW h \in Threads, UnlockTask(h) PROVE TaskTypes'
  BY <1>13 DEF UnlockTask, rest, tasks, counts, reboots, flash, bounds
<1>14. CASE ListTop
  BY <1>14 DEF ListTop, rest, tasks, counts, reboots, flash, bounds
<1>15. CASE WAIT_CHILD
  BY <1>15 DEF WAIT_CHILD, tasks, reboots, flash, bounds
<1>16. CASE BeginTask
  BY <1>16 DEF BeginTask, reboots, flash, bounds, ERR
<1>17. CASE TaskStarted
  BY <1>17 DEF TaskStarted, tasks, reboots, flash, bounds, ADD
<1>18. CASE TaskFailed
  <2>1. status' \in [Tasks -> {"WAIT", "RUN", "END"}] /\ pgid' \in [Tasks -> {-1, 0, 1}]
    BY <1>18 DEF TaskFailed
  <2>2. end_cnt' \in Nat /\ faults' \in Nat /\ cuts' \in Nat
    BY <1>18 DEF TaskFailed, bounds, ERR
  <2>3. reboot_keypath' \in Tasks \cup {None} /\ fboot' \in Tasks \cup {None}
    BY <1>18 DEF TaskFailed, reboots, flash
  <2> QED
    BY <2>1, <2>2, <2>3
<1>19. CASE WaitAlone
  BY <1>19 DEF WaitAlone, rest, tasks, counts, reboots, flash, bounds
<1>20. CASE task_quit_clean
  BY <1>20 DEF task_quit_clean, rest, tasks, counts, reboots, flash, bounds
<1>21. CASE RecycleTop
  BY <1>21 DEF RecycleTop, rest, tasks, counts, reboots, flash, bounds
<1>22. CASE wait4
  <2>1. UNCHANGED <<status, pgid, end_cnt, faults, cuts, reboot_keypath, fboot>> /\ \E p \in {"match", "top"} : pc' = [pc EXCEPT ![Recycle] = p]
    BY <1>22 DEF wait4, tasks, counts, reboots, flash, bounds, Goto, At
  <2> QED
    BY <1>22, <2>1 DEF wait4
<1>23. CASE MatchLeader
  BY <1>23 DEF MatchLeader, counts, reboots, flash, bounds
<1>24. CASE task_recycle_once
  BY <1>24 DEF task_recycle_once, counts, reboots, flash, bounds
<1>25. CASE NoMatch
  BY <1>25 DEF NoMatch, tasks, counts, reboots, flash, bounds
<1>26. CASE task_check_end
  BY <1>26 DEF task_check_end, rest, tasks, counts, reboots, flash, bounds
<1>27. CASE Again
  BY <1>27 DEF Again, rest, tasks, counts, reboots, flash, bounds
<1>28. ASSUME NEW t \in Tasks, OnceLimit(t) PROVE TaskTypes'
  BY <1>28 DEF OnceLimit, tasks, counts, reboots, flash, bounds
<1>29. ASSUME NEW t \in Tasks, WholeLimit(t) PROVE TaskTypes'
  BY <1>29 DEF WholeLimit, counts, reboots, flash, bounds
<1>30. ASSUME NEW t \in Tasks, NEW k \in Slots, Exit(t, k) PROVE TaskTypes'
  BY <1>30 DEF Exit, tasks, counts, reboots, flash, bounds
<1>31. CASE task_signal_quit
  BY <1>31 DEF task_signal_quit, tasks, counts, reboots, flash, bounds
<1>32. CASE PowerOff
  BY <1>32 DEF PowerOff, tasks, counts, reboots, flash
<1>33. CASE task_recover_after_reboot
  BY <1>33 DEF task_recover_after_reboot, flash, bounds, Every
<1>34. CASE Stopped \/ UNCHANGED vars
  <2>1. UNCHANGED <<status, pgid, end_cnt, faults, cuts, reboot_keypath, fboot>>
    BY <1>34 DEF Stopped, vars
  <2> QED
    BY <2>1
<1>35. CASE task_do_crash
  BY <1>35 DEF task_do_crash, Fails, tasks, counts, reboots, flash
<1> QED
  BY <1>1, <1>2, <1>3, <1>4, <1>5, <1>6, <1>7, <1>8, <1>9, <1>10, <1>11, <1>12, <1>13, <1>14,
     <1>15, <1>16, <1>17, <1>18, <1>19, <1>20, <1>21, <1>22, <1>23, <1>24, <1>25, <1>26, <1>27,
     <1>28, <1>29, <1>30, <1>31, <1>32, <1>33, <1>34, <1>35
  DEF Next, Main, Recycler, Thread, task_begin, task_recycle, task_do, task_recycle_end, Threads,
      Recycle

\* And every process has a state.
LEMMA ProcTypesKept ==
  ASSUME RunInv, ProcTypes, [Next]_vars
  PROVE  ProcTypes'
<1> USE TinaAssumption DEF ProcTypes
<1>1. ASSUME NEW h \in Threads, KillLimits(h) PROVE ProcTypes'
  <2>1. T(h) \in Tasks
    BY <1>1 DEF KillLimits, At, T, Threads, RunInv, RunType
  <2> QED
    BY <1>1, <2>1, KillTypes DEF KillLimits, Zombies
<1>2. ASSUME NEW h \in Threads, task_clean_reboot(h) PROVE ProcTypes'
  BY <1>2 DEF task_clean_reboot, kernel
<1>3. ASSUME NEW h \in Threads, CountEnd(h) PROVE ProcTypes'
  BY <1>3 DEF CountEnd, kernel
<1>4. ASSUME NEW h \in Threads, TELL_PARENT(h) PROVE ProcTypes'
  BY <1>4 DEF TELL_PARENT, kernel
<1>5. ASSUME NEW h \in Threads, LockTask(h) PROVE ProcTypes'
  BY <1>5 DEF LockTask, rest, kernel
<1>6. ASSUME NEW h \in Threads, task_init_reboot_mode(h) PROVE ProcTypes'
  BY <1>6 DEF task_init_reboot_mode, kernel
<1>7. ASSUME NEW h \in Threads, task_create_reboot_status(h) PROVE ProcTypes'
  BY <1>7 DEF task_create_reboot_status, kernel
<1>8. ASSUME NEW h \in Threads, LastTimes(h) PROVE ProcTypes'
  BY <1>8 DEF LastTimes, rest, kernel
<1>9. ASSUME NEW h \in Threads, LastSub(h) PROVE ProcTypes'
  BY <1>9 DEF LastSub
<1>10. ASSUME NEW h \in Threads, DoLimits(h) PROVE ProcTypes'
  BY <1>10 DEF DoLimits, NewGroup
<1>11. ASSUME NEW h \in Threads, ForkTestcase(h) PROVE ProcTypes'
  <2>1. T(h) \in Tasks
    BY <1>11 DEF ForkTestcase, At, T, Threads, RunInv, RunType
  <2>2. CASE kill(T(h), "fail")
    BY <2>1, <2>2, KillTypes DEF Zombies
  <2>3. CASE ~kill(T(h), "fail")
    <3>1. PICK k : proc' = [proc EXCEPT ![T(h)][k] = IF leader[T(h)] = "gone" THEN "fail" ELSE "alive"]
      BY <1>11, <2>3 DEF ForkTestcase
    <3>2. UNCHANGED leader
      BY <1>11, <2>3 DEF ForkTestcase
    <3>3. proc' \in [Tasks -> [Slots -> {"none", "alive", "gone"} \cup Zombies]]
      BY <2>1, <3>1 DEF Zombies
    <3> QED
      BY <3>2, <3>3
  <2> QED
    BY <2>2, <2>3
<1>12. ASSUME NEW h \in Threads, RecordPid(h) PROVE ProcTypes'
  BY <1>12 DEF RecordPid, kernel
<1>13. ASSUME NEW h \in Threads, UnlockTask(h) PROVE ProcTypes'
  BY <1>13 DEF UnlockTask, rest, kernel
<1>14. CASE ListTop
  BY <1>14 DEF ListTop, rest, kernel
<1>15. CASE WAIT_CHILD
  BY <1>15 DEF WAIT_CHILD, kernel
<1>16. CASE BeginTask
  BY <1>16 DEF BeginTask, kernel
<1>17. CASE TaskStarted
  BY <1>17 DEF TaskStarted, kernel
<1>18. CASE TaskFailed
  BY <1>18 DEF TaskFailed, kernel
<1>19. CASE WaitAlone
  BY <1>19 DEF WaitAlone, rest, kernel
<1>20. CASE task_quit_clean
  BY <1>20 DEF task_quit_clean, rest, kernel
<1>21. CASE RecycleTop
  BY <1>21 DEF RecycleTop, rest, kernel
<1>22. CASE wait4
  BY <1>22 DEF wait4, kernel
<1>23. CASE MatchLeader
  BY <1>23 DEF MatchLeader, kernel
<1>24. CASE task_recycle_once
  BY <1>24, KillTypes DEF task_recycle_once, Zombies, RunInv, RunType
<1>25. CASE NoMatch
  BY <1>25 DEF NoMatch, kernel
<1>26. CASE task_check_end
  BY <1>26 DEF task_check_end, rest, kernel
<1>27. CASE Again
  BY <1>27 DEF Again, rest, kernel
<1>28. ASSUME NEW t \in Tasks, OnceLimit(t) PROVE ProcTypes'
  BY <1>28, KillTypes DEF OnceLimit, Zombies
<1>29. ASSUME NEW t \in Tasks, WholeLimit(t) PROVE ProcTypes'
  BY <1>29, KillTypes DEF WholeLimit, Zombies
<1>30. ASSUME NEW t \in Tasks, NEW k \in Slots, Exit(t, k) PROVE ProcTypes'
  BY <1>30 DEF Exit, Zombies
<1>31. CASE task_signal_quit
  <2>1. CASE UNCHANGED <<proc, leader>>
    BY <2>1
  <2>2. CASE ~UNCHANGED <<proc, leader>>
    <3>1. /\ proc' = [t \in Tasks |-> Struck(t, "fail")]
          /\ leader' = [t \in Tasks |-> IF leader[t] = "alive" THEN "dead" ELSE leader[t]]
      BY <1>31, <2>2 DEF task_signal_quit
    <3> QED
      BY <3>1 DEF Struck, Zombies
  <2> QED
    BY <2>1, <2>2
<1>32. CASE PowerOff
  BY <1>32 DEF PowerOff, kernel
<1>33. CASE task_recover_after_reboot
  BY <1>33 DEF task_recover_after_reboot, Every, EveryRun
<1>34. CASE Stopped \/ UNCHANGED vars
  <2>1. UNCHANGED <<proc, leader>>
    BY <1>34 DEF Stopped, vars
  <2> QED
    BY <2>1
<1>35. CASE task_do_crash
  BY <1>35 DEF task_do_crash, kernel
<1> QED
  BY <1>1, <1>2, <1>3, <1>4, <1>5, <1>6, <1>7, <1>8, <1>9, <1>10, <1>11, <1>12, <1>13, <1>14,
     <1>15, <1>16, <1>17, <1>18, <1>19, <1>20, <1>21, <1>22, <1>23, <1>24, <1>25, <1>26, <1>27,
     <1>28, <1>29, <1>30, <1>31, <1>32, <1>33, <1>34, <1>35
  DEF Next, Main, Recycler, Thread, task_begin, task_recycle, task_do, task_recycle_end, Threads,
      Recycle

\* The types hold in every reachable state.
LEMMA TypesInvariant == Spec => []AllTypes
<1>1. RunInv /\ AllTypes /\ [Next]_vars => AllTypes'
  BY PlacesKept, FlagsKept, TaskTypesKept, ProcTypesKept DEF AllTypes
<1>2. QED
  BY TypesInit, RunInvariant, <1>1, PTL DEF Spec

\* The variables of tinatest keep their types, whatever the list, the faults, the
\* power cuts and the signals; in particular running_cnt, which the recycle thread
\* may count down first, and the files, which a cut may leave half written.
THEOREM TestTypes == Spec => []TypeOK
<1>1. RunInv /\ WakeInv /\ AllTypes => TypeOK
  BY DEF RunInv, RunType, WakeInv, WakeType, AllTypes, PlaceTypes, FlagTypes, TaskTypes, TypeOK
<1>2. QED
  BY RunInvariant, WakeInvariant, TypesInvariant, <1>1, PTL
=============================================================================
