------------------------ MODULE TinaTestCountProofs ------------------------
(***************************************************************************)
(* The counts of tinatest: for every list in which no test case whose runs    *)
(* are parallel can be given up while they are being forked, running_cnt      *)
(* covers the test cases that run and end_cnt none that does not.  From this  *)
(* follow how many execute, that one which must be alone is, that the files   *)
(* of a test case that may reboot are those of its run, what is true when     *)
(* tinatest exits, and how often each test case was started.                 *)
(***************************************************************************)
EXTENDS TinaTestProofs, FiniteSetTheorems

\* A parallel test case is ended only after all its runs: neither one failed run,
\* nor its limit, nor a quit signal ends it while task_do forks the others.
Steady == \A t \in Tasks : Env[t].run_parallel =>
  ~Env[t].exit_once_failed /\ ~Env[t].whole_limit /\ ~Signals

\* No boot finds a test case to go on with.
NoReboot ==
  \/ \A t \in Tasks : ~Env[t].may_reboot
  \/ MaxCuts = 0 /\ \A t \in Tasks : "reboot" \notin Env[t].does

\* A test case that ends tinatest when it fails is not the only one.
NotOnly == N = 1 => ~Env[1].exit_tinatest_when_fail

-----------------------------------------------------------------------------
(* Where the threads are; Doing, Ending and Begun are in TinaTestProofs. *)

\* The recycle thread has a task in hand.
Hands == {"check"} \cup Doing \cup Ending

\* task_do of the main thread gave up.
GivenUp == pc["main"] = "failed" \/ (pc["main"] = "unlock" /\ ~ret["main"])

-----------------------------------------------------------------------------
(* The phases: IsLive is Phase(t) = "run". *)

IsLive(t) ==
  \/ status[t] = "RUN" /\ ~(pc[Recycle] = "tell" /\ tsk = t)
  \/ pc["main"] = "lastsub" /\ cur = t

Live == {t \in Tasks : IsLive(t)}
Over == {t \in Tasks : status[t] # "WAIT" /\ ~IsLive(t)}

\* What the status of a task says of the main thread and vice versa.
Shape ==
  /\ \A t \in Tasks :
       /\ t > cur => status[t] = "WAIT"
       /\ t < cur => status[t] # "WAIT"
  /\ pc["main"] \in {"list", "wait", "alone", "join"} /\ cur \in Tasks => status[cur] = "WAIT"
  /\ pc["main"] \in Doing \cup {"kill", "clean", "tell"} \/ GivenUp => status[cur] = "RUN"
  /\ pc["main"] \in Begun \cup {"after"} => status[cur] # "WAIT"
  /\ pc["main"] = "lastsub" => status[cur] = "END"
  /\ pc["main"] = "join" => cur = N + 1

\* The main thread starts a task from its first run, or after a reboot.
FromTheFirst ==
  /\ \A t \in Tasks : t > cur => run_times[t] = 0
  /\ pc["main"] \in {"list", "wait", "alone", "lock", "reboot"} /\ cur \in Tasks => run_times[cur] = 0
  /\ pc["main"] = "reboot" => Env[cur].may_reboot
  /\ pc["main"] \in {"status", "fill"} => Env[cur].may_reboot
  /\ pc["main"] \in {"status", "fill", "last"} =>
       run_times[cur] = 0 \/ (Env[cur].may_reboot /\ reboot_mode)
  /\ pc["main"] \in {"kill", "clean"} => Env[cur].may_reboot /\ reboot_mode
  /\ pc["main"] # "sub"
  /\ pc["main"] \in {"tell", "lastsub"} => Env[cur].may_reboot /\ ~reboot_mode
  /\ pc["main"] \in {"limits", "fork", "record"} => run_times[cur] < Limit(cur)

\* Of a task the main thread gave up, or found to have had its last run, nothing is
\* recorded, unless its runs are parallel and not all of them forked.
NoneRecorded ==
  (\/ GivenUp /\ (Env[cur].run_parallel => run_times[cur] >= Limit(cur))
   \/ pc["main"] \in {"kill", "clean", "tell", "lastsub"}) =>
    \A k \in Slots : pid[cur][k] = "none"

\* What the recycle thread has in hand runs, and nobody else ends it.
HandRuns ==
  /\ pc[Recycle] \in Doing \cup Ending => status[tsk] = "RUN"
  /\ pc[Recycle] = "check" => status[tsk] = "RUN" \/ (Env[tsk].run_parallel /\ run_times[tsk] < Limit(tsk))
  /\ pc[Recycle] \in Ending => run_times[tsk] >= Limit(tsk) \/ ~Env[tsk].run_parallel
  /\ pc[Recycle] \in Ending => \E k \in Slots : pid[tsk][k] # "none"
  /\ pc[Recycle] \in {"reboot", "status", "fill"} => Env[tsk].may_reboot
  /\ pc[Recycle] \in Doing => ~Env[tsk].run_parallel
  /\ pc[Recycle] = "clean" => reboot_mode /\ Env[tsk].may_reboot

\* A parallel test case is never told to quit.
NeverQuits ==
  \A t \in Tasks : Env[t].run_parallel => ~quit[t] /\ ~ttquit

-----------------------------------------------------------------------------
(* The processes *)

\* Where the main thread may have forked a process of the task it is at.
Late == {"fork", "record", "unlock", "started", "after", "failed"}

\* What was not forked is not there.
NotForked ==
  /\ \A t \in Tasks : t > cur \/ (t = cur /\ pc["main"] \notin Late) =>
       \A k \in Slots : proc[t][k] = "none"
  /\ pc["main"] = "fork" => \A k \in Slots : k >= run_times[cur] => proc[cur][k] = "none"
  /\ pc["main"] = "record" => \A k \in Slots : k > run_times[cur] => proc[cur][k] = "none"

\* The death in hand is that of a process nobody forks again.
DeathOf ==
  pc[Recycle] = "match" /\ got[3] # "leader" => proc[got[1]][got[2]] = "gone"

\* A run that is recorded and not yet known to be done is the last one.
IsLastRun(t, k) ==
  /\ k + 1 = run_times[t]
  /\ ~(tsk = t /\ pc[Recycle] \in Hands)

OneSet == \A t \in Tasks : ~Env[t].run_parallel =>
  \A k \in Slots : pid[t][k] = "set" => IsLastRun(t, k)

\* A process that executes belongs to a task that runs, and it is recorded or about to be.
IsKnown(t, k) ==
  /\ status[t] = "RUN"
  /\ ~(tsk = t /\ pc[Recycle] \in Ending)
  /\ ~(cur = t /\ GivenUp)
  /\ \/ cur = t /\ pc["main"] = "record" /\ k = run_times[t]
     \/ tsk = t /\ pc[Recycle] = "record" /\ k = run_times[t]
     \/ pid[t][k] = "set" /\ k < run_times[t]

AliveKnown == \A t \in Tasks, k \in Slots : proc[t][k] = "alive" => IsKnown(t, k)

-----------------------------------------------------------------------------
(* Alone, the reboots and the counts *)

\* What runs alone is all that runs, and the main thread is at it or has no more.
AloneLive == \A t \in Live : RunAlone(t) =>
  /\ Live = {t}
  /\ (cur = t /\ pc["main"] \in Begun \cup {"after"}) \/ cur = N + 1

\* In reboot mode only the test case of the boot script runs.
Rebooted ==
  /\ fboot # None => Env[fboot].may_reboot
  /\ reboot_keypath # None => Env[reboot_keypath].may_reboot
  /\ reboot_mode =>
       /\ reboot_keypath # None
       /\ \A t \in Tasks : status[t] = "RUN" => t = reboot_keypath
       /\ fboot = reboot_keypath \/ "clean" \in {pc["main"], pc[Recycle]}
       /\ ~(pc[Recycle] \in {"sub", "tell"})
       /\ faults = 0 => status[reboot_keypath] # "END"
  /\ GivenUp => faults > 0

\* The boot script and the status file, once task_do has written them, are those of
\* the run it forks.
IsReady(h) ==
  /\ pc[h] \in {"status", "fill"} => fboot = T(h)
  /\ pc[h] \in {"last", "limits", "fork", "record"} /\ Env[T(h)].may_reboot =>
       fboot = T(h) /\ (Env[T(h)].run_parallel \/ sfile = run_times[T(h)])

FilesReady == \A h \in Threads : IsReady(h)

FilesCurrent == \A t \in Tasks, k \in Slots :
  Env[t].may_reboot /\ proc[t][k] = "alive" =>
    fboot = t /\ (Env[t].run_parallel \/ sfile = k)

\* The main thread has a process of its task, or is about to, and has not counted it.
Held ==
  /\ pc["main"] \in {"fork", "record", "unlock", "started"} /\ ~GivenUp
  /\ status[cur] = "RUN"

\* Nothing of the task has died.
Calm ==
  /\ pc["main"] \in {"fork", "record"} => leader[cur] = "alive"
  /\ \A k \in Slots : proc[cur][k] \in {"none", "alive"}
  /\ ~(tsk = cur /\ pc[Recycle] \in Hands)

\* With SlowChild no process dies before the main thread has counted its task.
Slow == SlowChild /\ Held => Calm

\* Where nothing can be carried over a reboot, nothing is.
Quiet == NoReboot => ~reboot_mode /\ (fboot = None \/ tool # "off")

InHandCount == IF pc["main"] \in Begun THEN 1 ELSE 0

\* No end is dropped.
Exact == reboot_mode \/ SlowChild \/ NoReboot

\* The counts: every task that runs is counted or in the hands of the main thread.
Counted ==
  /\ running_cnt + InHandCount >= Cardinality(Live)
  /\ end_cnt <= Cardinality(Over)
  /\ Exact => /\ running_cnt + InHandCount = Cardinality(Live)
              /\ end_cnt = Cardinality(Over)

\* The recycle thread leaves when all have ended.
LeavesLast == NotOnly => (pc[Recycle] = "exit" => tool = "crashed" \/ Over = Tasks)

\* tinatest has exited only after the recycle thread has left.
ExitAfter == tool = "exited" => pc["main"] = "join" /\ pc[Recycle] = "exit"

CountInv ==
  /\ AllTypes /\ Shape /\ FromTheFirst /\ NoneRecorded /\ HandRuns /\ NeverQuits
  /\ NotForked /\ DeathOf /\ OneSet /\ AliveKnown
  /\ AloneLive /\ Rebooted /\ FilesReady /\ FilesCurrent /\ Slow /\ Quiet
  /\ Counted /\ LeavesLast /\ ExitAfter

-----------------------------------------------------------------------------
(* Where the threads are *)

\* The two threads do not work on the same task, except where a run of it is recorded
\* and the main thread is about to count it, or forks it in parallel.
LEMMA HandsApart ==
  ASSUME RunInv, Shape, NoneRecorded, HandRuns, FromTheFirst, PlaceTypes, pc[Recycle] \in Hands
  PROVE  /\ tsk \in Tasks /\ tsk <= cur
         /\ tsk = cur => /\ pc["main"] \in {"fork", "record", "unlock", "started", "failed", "after"}
                         /\ ~Env[cur].run_parallel => pc["main"] \notin {"fork", "record"} /\ ~GivenUp
                         /\ pc["main"] \in {"fork", "record"} \/ GivenUp =>
                              pc[Recycle] = "check" /\ run_times[cur] < Limit(cur)
<1>1. \E k \in Slots : pid[tsk][k] # "none"
  BY DEF RunInv, HandKnown, HandRuns, Hands, InHand, Doing
<1>2. tsk \in Tasks /\ cur \in Nat
  BY TinaAssumption DEF RunInv, RunType, Tasks
<1>3. tsk <= cur
  BY <1>1, <1>2 DEF RunInv, Fresh, Tasks
<1>4. ASSUME tsk = cur PROVE ~Early(cur) /\ ~(pc["main"] \in {"kill", "clean", "tell", "lastsub"})
  BY <1>1, <1>2, <1>4 DEF RunInv, Fresh, NoneRecorded
<1>5. ASSUME tsk = cur, ~Env[cur].run_parallel PROVE ~GivenUp
  BY <1>1, <1>2, <1>5 DEF NoneRecorded
<1>6. ASSUME tsk = cur, pc["main"] \in {"fork", "record"} \/ GivenUp
      PROVE  pc[Recycle] = "check" /\ run_times[cur] < Limit(cur)
  <2>1. Env[cur].run_parallel
    BY <1>4, <1>5, <1>6 DEF Early
  <2>3. run_times[cur] \in Nat /\ Limit(cur) \in Nat
    BY <1>2, <1>6, TinaAssumption DEF RunInv, RunType, Limit
  <2>2. run_times[cur] < Limit(cur)
    BY <1>1, <1>6, <2>3 DEF FromTheFirst, NoneRecorded
  <2> QED
    BY <1>6, <2>1, <2>2, <2>3 DEF HandRuns, Hands
<1>7. ASSUME tsk = cur PROVE pc["main"] \in {"fork", "record", "unlock", "started", "failed", "after"}
  <2>1. pc["main"] # "join"
    BY <1>2, <1>7, TinaAssumption, SMTT(30) DEF RunInv, RunType, Shape, Tasks
  <2> QED
    BY <1>4, <1>7, <2>1 DEF Early, PlaceTypes, MainAt, Begun, Doing, FromTheFirst
<1> QED
  BY <1>2, <1>3, <1>4, <1>5, <1>6, <1>7 DEF Early

\* The two threads meet only so.
Meet ==
  pc[Recycle] \in Hands =>
    /\ tsk \in Tasks /\ tsk <= cur
    /\ tsk = cur => /\ pc["main"] \in {"fork", "record", "unlock", "started", "failed", "after"}
                    /\ ~Env[cur].run_parallel => pc["main"] \notin {"fork", "record"} /\ ~GivenUp
                    /\ pc["main"] \in {"fork", "record"} \/ GivenUp =>
                         pc[Recycle] = "check" /\ run_times[cur] < Limit(cur)

\* The status of a task follows the main thread.
LEMMA ShapeKept ==
  ASSUME RunType, PlaceTypes, TaskTypes, Meet, FromTheFirst, Shape, [Next]_vars
  PROVE  Shape'
<1> USE TinaAssumption DEF Shape, Meet, Hands, RunType, PlaceTypes, TaskTypes, Tasks, At, Goto,
      Threads, Recycle, Begun, Doing, Ending, GivenUp
<1>1. ASSUME NEW h \in Threads, KillLimits(h) PROVE Shape'
  <2>1. UNCHANGED <<ret, cur, status>> /\ pc[h] = "kill"
    BY <1>1 DEF KillLimits, tasks, others, local
  <2>2. \E p \in {"clean", "sub"} : pc' = [pc EXCEPT ![h] = p]
    BY <1>1 DEF KillLimits
  <2> QED
    BY <2>1, <2>2
<1>2. ASSUME NEW h \in Threads, task_clean_reboot(h) PROVE Shape'
  BY <1>2 DEF task_clean_reboot, tasks, others, local
<1>3. ASSUME NEW h \in Threads, CountEnd(h) PROVE Shape'
  <2>1. h = Recycle
    BY <1>3 DEF CountEnd, FromTheFirst
  <2> QED
    BY <1>3, <2>1 DEF CountEnd, tasks, others, local
<1>4. ASSUME NEW h \in Threads, TELL_PARENT(h) PROVE Shape'
  <2>1. UNCHANGED <<ret, cur, tsk>> /\ pc[h] = "tell"
    BY <1>4 DEF TELL_PARENT, others, local
  <2>2. CASE h = "main"
    <3>1. status' = [status EXCEPT ![cur] = "END"] /\ pc' = [pc EXCEPT !["main"] = "lastsub"]
      BY <1>4, <2>2 DEF TELL_PARENT, T
    <3> QED
      BY <2>1, <2>2, <3>1
  <2>3. CASE h = Recycle
    <3>1. status' = [status EXCEPT ![tsk] = "END"] /\ pc' = [pc EXCEPT ![Recycle] = "again"]
      BY <1>4, <2>3 DEF TELL_PARENT, T
    <3> QED
      BY <2>1, <2>3, <3>1
  <2> QED
    BY <2>2, <2>3
<1>5. ASSUME NEW h \in Threads, LockTask(h) PROVE Shape'
  BY <1>5 DEF LockTask, rest, tasks
<1>6. ASSUME NEW h \in Threads, task_init_reboot_mode(h) PROVE Shape'
  BY <1>6 DEF task_init_reboot_mode, Leave
<1>7. ASSUME NEW h \in Threads, task_create_reboot_status(h) PROVE Shape'
  BY <1>7 DEF task_create_reboot_status, tasks, Leave
<1>8. ASSUME NEW h \in Threads, LastTimes(h) PROVE Shape'
  <2>1. UNCHANGED <<ret, status, cur, tsk>> /\ pc[h] = "last"
    BY <1>8 DEF LastTimes, others, local, rest, tasks
  <2>2. h = "main" => run_times[cur] < Limit(cur) \/ reboot_mode
    <3> SUFFICES ASSUME h = "main", ~reboot_mode PROVE run_times[cur] < Limit(cur)
      OBVIOUS
    <3>1. run_times[cur] = 0 /\ cur \in Tasks
      BY <2>1 DEF FromTheFirst
    <3> QED
      BY <3>1 DEF Limit
  <2>3. pc' = [pc EXCEPT ![h] = "limits"] \/ pc' = [pc EXCEPT ![h] = "kill"] \/ (h = Recycle /\ pc' = [pc EXCEPT ![h] = "lastsub"])
    BY <1>8, <2>2 DEF LastTimes, T
  <2> QED
    BY <2>1, <2>3
<1>9. ASSUME NEW h \in Threads, LastSub(h) PROVE Shape'
  BY <1>9 DEF LastSub, tasks, Leave
<1>10. ASSUME NEW h \in Threads, DoLimits(h) PROVE Shape'
  BY <1>10, SMTT(30) DEF DoLimits, Leave
<1>11. ASSUME NEW h \in Threads, ForkTestcase(h) PROVE Shape'
  BY <1>11, ZenonT(40) DEF ForkTestcase, tasks, Leave
<1>12. ASSUME NEW h \in Threads, RecordPid(h) PROVE Shape'
  BY <1>12 DEF RecordPid, Leave
<1>13. ASSUME NEW h \in Threads, UnlockTask(h) PROVE Shape'
  BY <1>13 DEF UnlockTask, rest, tasks
<1>14. CASE ListTop
  BY <1>14 DEF ListTop, others, local, rest, tasks
<1>15. CASE WAIT_CHILD
  BY <1>15 DEF WAIT_CHILD, tasks, others, local
<1>16. CASE BeginTask
  <2>1. UNCHANGED <<ret, tsk>> /\ pc["main"] = "alone" /\ cur \in Tasks
    BY <1>16 DEF BeginTask
  <2>2. CASE cur' = cur /\ pc' = [pc EXCEPT !["main"] = "lock"] /\ status' = [status EXCEPT ![cur] = "RUN"]
    BY <2>1, <2>2
  <2>3. CASE cur' = cur + 1 /\ pc' = [pc EXCEPT !["main"] = "list"] /\ status' = [status EXCEPT ![cur] = "END"]
    BY <2>1, <2>3
  <2> QED
    BY <1>16, <2>2, <2>3 DEF BeginTask, NextTask
<1>17. CASE TaskStarted
  BY <1>17 DEF TaskStarted, tasks, others, local
<1>18. CASE TaskFailed
  BY <1>18 DEF TaskFailed, NextTask
<1>19. CASE WaitAlone
  BY <1>19 DEF WaitAlone, rest, tasks, NextTask
<1>20. CASE task_quit_clean
  BY <1>20 DEF task_quit_clean, sched, rest, tasks
<1>21. CASE RecycleTop
  BY <1>21 DEF RecycleTop, others, local, rest, tasks
<1>22. CASE wait4
  <2>1. UNCHANGED <<ret, status, cur, tsk>> /\ \E p \in {"match", "top"} : pc' = [pc EXCEPT ![Recycle] = p]
    BY <1>22 DEF wait4, tasks, Goto, At
  <2> QED
    BY <1>22, <2>1 DEF wait4
<1>23. CASE MatchLeader
  BY <1>23 DEF MatchLeader, local
<1>24. CASE task_recycle_once
  BY <1>24 DEF task_recycle_once
<1>25. CASE NoMatch
  BY <1>25 DEF NoMatch, tasks, local
<1>26. CASE task_check_end
  BY <1>26 DEF task_check_end, others, local, rest, tasks
<1>27. CASE Again
  BY <1>27 DEF Again, local, rest, tasks
<1>28. ASSUME NEW t \in Tasks, OnceLimit(t) PROVE Shape'
  BY <1>28 DEF OnceLimit, sched, tasks
<1>29. ASSUME NEW t \in Tasks, WholeLimit(t) PROVE Shape'
  BY <1>29 DEF WholeLimit, sched
<1>30. ASSUME NEW t \in Tasks, NEW k \in Slots, Exit(t, k) PROVE Shape'
  BY <1>30 DEF Exit, sched, tasks
<1>31. CASE task_signal_quit
  BY <1>31 DEF task_signal_quit, sched, tasks
<1>32. CASE PowerOff
  BY <1>32 DEF PowerOff, sched, tasks
<1>33. CASE task_recover_after_reboot
  BY <1>33 DEF task_recover_after_reboot, AtStart, Every
<1>34. CASE Stopped \/ UNCHANGED vars
  <2>1. UNCHANGED <<pc, ret, status, cur, tsk>>
    BY <1>34 DEF Stopped, vars
  <2> QED
    BY <2>1
<1>35. CASE task_do_crash
  BY <1>35 DEF task_do_crash, sched, tasks
<1> QED
  BY <1>1, <1>2, <1>3, <1>4, <1>5, <1>6, <1>7, <1>8, <1>9, <1>10, <1>11, <1>12, <1>13, <1>14,
     <1>15, <1>16, <1>17, <1>18, <1>19, <1>20, <1>21, <1>22, <1>23, <1>24, <1>25, <1>26, <1>27,
     <1>28, <1>29, <1>30, <1>31, <1>32, <1>33, <1>34, <1>35
  DEF Next, Main, Recycler, Thread, task_begin, task_recycle, task_do, task_recycle_end, Threads,
      Recycle


\* In reboot mode the two threads do not have a task in hand at the same time.
LEMMA SoleInReboot ==
  ASSUME RunType, Meet, Shape, HandRuns, Rebooted, reboot_mode,
         pc["main"] \in Doing \cup {"kill", "clean", "tell"}
  PROVE  pc[Recycle] \notin Doing \cup Ending
<1> SUFFICES ASSUME pc[Recycle] \in Doing \cup Ending PROVE FALSE
  OBVIOUS
<1>1. status[cur] = "RUN" /\ status[tsk] = "RUN" /\ cur \in Tasks /\ tsk \in Tasks
  BY DEF Shape, HandRuns, RunType, Doing
<1>2. tsk = cur
  BY <1>1, SMTT(30) DEF Rebooted
<1> QED
  BY <1>2 DEF Meet, Hands, Doing, Ending

\* A task is started from its first run, or after a reboot.
LEMMA FirstKept ==
  ASSUME RunType, PlaceTypes, Meet, Shape, HandRuns, Rebooted, FromTheFirst, [Next]_vars
  PROVE  FromTheFirst'
<1> USE TinaAssumption DEF FromTheFirst, Meet, Hands, RunType, PlaceTypes, Tasks, At, Goto,
      Threads, Recycle, Begun, Doing, Ending, GivenUp
<1>a. reboot_mode /\ pc["main"] \in Doing \cup {"kill", "clean", "tell"} => pc[Recycle] \notin Doing \cup Ending
  BY SoleInReboot
<1>1. ASSUME NEW h \in Threads, KillLimits(h) PROVE FromTheFirst'
  BY <1>1 DEF KillLimits, tasks, reboots, others, local, Carried, T
<1>2. ASSUME NEW h \in Threads, task_clean_reboot(h) PROVE FromTheFirst'
  <2>1. UNCHANGED <<ret, cur, tsk, run_times>> /\ reboot_mode' = FALSE /\ pc[h] = "clean"
          /\ pc' = [pc EXCEPT ![h] = "tell"]
    BY <1>2 DEF task_clean_reboot, tasks, others, local
  <2>2. CASE h = "main"
    BY <2>1, <2>2
  <2>3. CASE h = Recycle
    <3>1. reboot_mode => ~(pc["main"] \in {"status", "fill", "last", "kill", "clean"})
      BY <1>a, <2>1, <2>3
    <3> QED
      BY <2>1, <2>3, <3>1
  <2> QED
    BY <2>2, <2>3
<1>3. ASSUME NEW h \in Threads, CountEnd(h) PROVE FromTheFirst'
  BY <1>3 DEF CountEnd, tasks, reboots, others, local
<1>4. ASSUME NEW h \in Threads, TELL_PARENT(h) PROVE FromTheFirst'
  BY <1>4 DEF TELL_PARENT, reboots, others, local
<1>5. ASSUME NEW h \in Threads, LockTask(h) PROVE FromTheFirst'
  BY <1>5 DEF LockTask, rest, tasks, reboots, T
<1>6. ASSUME NEW h \in Threads, task_init_reboot_mode(h) PROVE FromTheFirst'
  <2>1. UNCHANGED <<cur, tsk, reboot_mode>> /\ pc[h] = "reboot" /\ T(h) \in Tasks
    BY <1>6 DEF task_init_reboot_mode, T, reboots
  <2>2. \/ pc' = [pc EXCEPT ![h] = "status"] /\ UNCHANGED ret
        \/ pc' = [pc EXCEPT ![h] = "unlock"] /\ ret' = [ret EXCEPT ![h] = FALSE]
    BY <1>6 DEF task_init_reboot_mode, Leave
  <2>3. CASE h = Recycle
    <3>1. \A t \in Tasks : t # tsk => run_times'[t] = run_times[t]
      BY <1>6, <2>3, <2>1 DEF task_init_reboot_mode, ResumeAt, T
    <3>2. tsk = cur => pc["main"] \in {"unlock", "started", "after"} /\ ~GivenUp
      BY <2>1, <2>3, TinaAssumption DEF HandRuns
    <3>3. cur > N \/ cur \in Tasks
      OBVIOUS
    <3> QED
      BY SMTT(30), <2>1, <2>2, <2>3, <3>1, <3>2, <3>3
  <2>4. CASE h = "main"
    <3>1. \A t \in Tasks : t # cur => run_times'[t] = run_times[t]
      BY <1>6, <2>4, <2>1 DEF task_init_reboot_mode, ResumeAt, T
    <3>2. ~reboot_mode => UNCHANGED run_times
      BY <1>6 DEF task_init_reboot_mode
    <3>3. Env[cur].may_reboot
      BY <2>1, <2>4
    <3>4. \A t \in Tasks : t > cur => run_times'[t] = 0
      <4> SUFFICES ASSUME NEW t \in Tasks, t > cur PROVE run_times'[t] = 0
        OBVIOUS
      <4>1. t # cur
        BY <2>1
      <4>2. run_times[t] = 0
        OBVIOUS
      <4> QED
        BY <3>1, <4>1, <4>2
    <3>5. CASE pc' = [pc EXCEPT !["main"] = "status"] /\ UNCHANGED ret
      <4>1. run_times'[cur] = 0 \/ reboot_mode
        BY <2>1, <2>4, <3>2
      <4> QED
        BY <2>1, <2>4, <3>3, <3>4, <3>5, <4>1
    <3>6. CASE pc' = [pc EXCEPT !["main"] = "unlock"] /\ ret' = [ret EXCEPT !["main"] = FALSE]
      BY <2>1, <2>4, <3>3, <3>4, <3>6
    <3> QED
      BY <2>2, <2>4, <3>5, <3>6
  <2> QED
    BY <2>3, <2>4
<1>7. ASSUME NEW h \in Threads, task_create_reboot_status(h) PROVE FromTheFirst'
  <2>1. UNCHANGED <<cur, tsk, run_times>>
    BY <1>7 DEF task_create_reboot_status, tasks
  <2>2. \/ pc[h] = "status" /\ pc' = [pc EXCEPT ![h] = "fill"] /\ UNCHANGED <<ret, reboot_mode>>
        \/ pc[h] \in {"status", "fill"} /\ pc' = [pc EXCEPT ![h] = "last"] /\ UNCHANGED <<ret, reboot_mode>>
        \/ pc[h] = "status" /\ pc' = [pc EXCEPT ![h] = "unlock"] /\ ret' = [ret EXCEPT ![h] = FALSE]
             /\ reboot_mode' = FALSE
    BY <1>7 DEF task_create_reboot_status, Leave
  <2>3. CASE h = "main"
    <3>1. Env[cur].may_reboot /\ cur \in Tasks
      BY <2>2, <2>3
    <3> QED
      BY SMTT(30), <2>1, <2>2, <2>3, <3>1
  <2>4. CASE h = Recycle
    <3>1. reboot_mode => ~(pc["main"] \in {"status", "fill", "last", "kill", "clean"})
      BY <1>a, <2>2, <2>4
    <3> QED
      BY <2>1, <2>2, <2>4, <3>1
  <2> QED
    BY <2>3, <2>4
<1>8. ASSUME NEW h \in Threads, LastTimes(h) PROVE FromTheFirst'
  <2>1. UNCHANGED <<ret, cur, tsk, run_times, reboot_mode>> /\ pc[h] = "last" /\ T(h) \in Tasks
    BY <1>8 DEF LastTimes, others, local, rest, tasks, reboots, T
  <2>2. Limit(T(h)) \in Nat \ {0} /\ run_times[T(h)] \in Nat
    BY <2>1 DEF Limit
  <2>3. \/ pc' = [pc EXCEPT ![h] = "limits"] /\ run_times[T(h)] < Limit(T(h))
        \/ pc' = [pc EXCEPT ![h] = "kill"] /\ reboot_mode /\ ~(run_times[T(h)] < Limit(T(h)))
        \/ pc' = [pc EXCEPT ![h] = "lastsub"] /\ ~reboot_mode /\ ~(run_times[T(h)] < Limit(T(h)))
    BY <1>8 DEF LastTimes
  <2>4. CASE h = "main"
    BY <2>1, <2>2, <2>3, <2>4 DEF T
  <2>5. CASE h = Recycle
    BY <2>1, <2>2, <2>3, <2>5 DEF T
  <2> QED
    BY <2>4, <2>5
<1>9. ASSUME NEW h \in Threads, LastSub(h) PROVE FromTheFirst'
  BY <1>9 DEF LastSub, tasks, reboots, Leave
<1>10. ASSUME NEW h \in Threads, DoLimits(h) PROVE FromTheFirst'
  BY <1>10 DEF DoLimits, reboots, Leave
<1>11. ASSUME NEW h \in Threads, ForkTestcase(h) PROVE FromTheFirst'
  BY <1>11, SMTT(30) DEF ForkTestcase, tasks, reboots, Leave
<1>12. ASSUME NEW h \in Threads, RecordPid(h) PROVE FromTheFirst'
  <2>1. UNCHANGED <<cur, tsk, reboot_mode>> /\ pc[h] = "record" /\ T(h) \in Tasks
    BY <1>12 DEF RecordPid, T, reboots
  <2>2. run_times' = [run_times EXCEPT ![T(h)] = run_times[T(h)] + 1]
    BY <1>12 DEF RecordPid
  <2>3. \/ pc' = [pc EXCEPT ![h] = "fork"] /\ UNCHANGED ret /\ run_times[T(h)] + 1 < Limit(T(h))
        \/ pc' = [pc EXCEPT ![h] = "unlock"] /\ ret' = [ret EXCEPT ![h] = TRUE]
    BY <1>12 DEF RecordPid, Leave
  <2>4. CASE h = "main"
    BY <2>1, <2>2, <2>3, <2>4, SMTT(30) DEF T
  <2>5. CASE h = Recycle
    <3>1. tsk = cur => pc["main"] \in {"unlock", "started", "after"} /\ ~GivenUp
      BY <2>1, <2>5 DEF HandRuns
    <3> QED
      BY <2>1, <2>2, <2>3, <2>5, <3>1, SMTT(30) DEF T
  <2> QED
    BY <2>4, <2>5
<1>13. ASSUME NEW h \in Threads, UnlockTask(h) PROVE FromTheFirst'
  BY <1>13 DEF UnlockTask, rest, tasks, reboots
<1>14. CASE ListTop
  BY <1>14 DEF ListTop, others, local, rest, tasks, reboots
<1>15. CASE WAIT_CHILD
  BY <1>15 DEF WAIT_CHILD, tasks, reboots, others, local
<1>16. CASE BeginTask
  <2>1. UNCHANGED <<ret, tsk, run_times, reboot_mode>> /\ pc["main"] = "alone" /\ cur \in Tasks
    BY <1>16 DEF BeginTask, reboots
  <2>2. CASE cur' = cur /\ pc' = [pc EXCEPT !["main"] = "lock"]
    BY <2>1, <2>2
  <2>3. CASE cur' = cur + 1 /\ pc' = [pc EXCEPT !["main"] = "list"]
    BY <2>1, <2>3
  <2> QED
    BY <1>16, <2>2, <2>3 DEF BeginTask, NextTask
<1>17. CASE TaskStarted
  BY <1>17 DEF TaskStarted, tasks, reboots, others, local
<1>18. CASE TaskFailed
  BY <1>18 DEF TaskFailed, reboots, NextTask
<1>19. CASE WaitAlone
  BY <1>19 DEF WaitAlone, rest, tasks, reboots, NextTask
<1>20. CASE task_quit_clean
  BY <1>20 DEF task_quit_clean, sched, rest, tasks, reboots
<1>21. CASE RecycleTop
  BY <1>21 DEF RecycleTop, others, local, rest, tasks, reboots
<1>22. CASE wait4
  <2>1. UNCHANGED <<ret, cur, tsk, run_times, reboot_mode>> /\ \E p \in {"match", "top"} : pc' = [pc EXCEPT ![Recycle] = p]
    BY <1>22 DEF wait4, tasks, reboots, Goto, At
  <2> QED
    BY <1>22, <2>1 DEF wait4
<1>23. CASE MatchLeader
  BY <1>23 DEF MatchLeader, reboots, local
<1>24. CASE task_recycle_once
  BY <1>24 DEF task_recycle_once, reboots
<1>25. CASE NoMatch
  BY <1>25 DEF NoMatch, tasks, reboots, local
<1>26. CASE task_check_end
  BY <1>26 DEF task_check_end, others, local, rest, tasks, reboots
<1>27. CASE Again
  BY <1>27 DEF Again, local, rest, tasks, reboots
<1>28. ASSUME NEW t \in Tasks, OnceLimit(t) PROVE FromTheFirst'
  BY <1>28 DEF OnceLimit, sched, tasks, reboots
<1>29. ASSUME NEW t \in Tasks, WholeLimit(t) PROVE FromTheFirst'
  BY <1>29 DEF WholeLimit, sched, reboots
<1>30. ASSUME NEW t \in Tasks, NEW k \in Slots, Exit(t, k) PROVE FromTheFirst'
  BY <1>30 DEF Exit, sched, tasks, reboots
<1>31. CASE task_signal_quit
  BY <1>31 DEF task_signal_quit, sched, tasks, reboots
<1>32. CASE PowerOff
  BY <1>32 DEF PowerOff, sched, tasks, reboots
<1>33. CASE task_recover_after_reboot
  BY <1>33 DEF task_recover_after_reboot, AtStart, Every
<1>34. CASE Stopped \/ UNCHANGED vars
  <2>1. UNCHANGED <<pc, ret, cur, tsk, run_times, reboot_mode>>
    BY <1>34 DEF Stopped, vars
  <2> QED
    BY <2>1
<1>35. CASE task_do_crash
  BY <1>35 DEF task_do_crash, sched, tasks, reboots
<1> QED
  BY <1>1, <1>2, <1>3, <1>4, <1>5, <1>6, <1>7, <1>8, <1>9, <1>10, <1>11, <1>12, <1>13, <1>14,
     <1>15, <1>16, <1>17, <1>18, <1>19, <1>20, <1>21, <1>22, <1>23, <1>24, <1>25, <1>26, <1>27,
     <1>28, <1>29, <1>30, <1>31, <1>32, <1>33, <1>34, <1>35
  DEF Next, Main, Recycler, Thread, task_begin, task_recycle, task_do, task_recycle_end, Threads,
      Recycle


\* Nothing is recorded of a task the main thread gave up.
LEMMA NoneKept ==
  ASSUME RunInv, PlaceTypes, Meet, HandRuns, FromTheFirst, NoneRecorded, [Next]_vars
  PROVE  NoneRecorded'
<1> USE TinaAssumption DEF NoneRecorded, Fresh, Early, Meet, Hands, RunInv, RunType, PlaceTypes,
      Tasks, At, Goto, Threads, Recycle, Begun, Doing, Ending, GivenUp
<1>1. ASSUME NEW h \in Threads, KillLimits(h) PROVE NoneRecorded'
  BY <1>1 DEF KillLimits, tasks, others, local
<1>2. ASSUME NEW h \in Threads, task_clean_reboot(h) PROVE NoneRecorded'
  BY <1>2 DEF task_clean_reboot, tasks, others, local
<1>3. ASSUME NEW h \in Threads, CountEnd(h) PROVE NoneRecorded'
  BY <1>3 DEF CountEnd, tasks, others, local, FromTheFirst
<1>4. ASSUME NEW h \in Threads, TELL_PARENT(h) PROVE NoneRecorded'
  BY <1>4 DEF TELL_PARENT, others, local
<1>5. ASSUME NEW h \in Threads, LockTask(h) PROVE NoneRecorded'
  BY <1>5 DEF LockTask, rest, tasks
<1>6. ASSUME NEW h \in Threads, task_init_reboot_mode(h) PROVE NoneRecorded'
  <2>1. UNCHANGED <<cur, tsk, pid>> /\ pc[h] = "reboot" /\ T(h) \in Tasks
    BY <1>6 DEF task_init_reboot_mode, T
  <2>2. \/ pc' = [pc EXCEPT ![h] = "status"] /\ UNCHANGED ret
        \/ pc' = [pc EXCEPT ![h] = "unlock"] /\ ret' = [ret EXCEPT ![h] = FALSE]
    BY <1>6 DEF task_init_reboot_mode, Leave
  <2>3. CASE h = "main"
    BY <2>1, <2>2, <2>3
  <2>4. CASE h = Recycle
    <3>1. tsk = cur => ~GivenUp /\ ~(pc["main"] \in {"kill", "clean", "tell", "lastsub"})
      BY <2>1, <2>4
    <3>2. tsk # cur /\ cur \in Tasks => run_times'[cur] = run_times[cur]
      <4>1. run_times' = run_times \/ run_times' = [run_times EXCEPT ![T(h)] = ResumeAt]
        BY <1>6 DEF task_init_reboot_mode
      <4> QED
        BY <2>4, <4>1 DEF T
    <3>3. GivenUp \/ pc["main"] \in {"kill", "clean", "tell", "lastsub"} => cur \in Tasks
      OBVIOUS
    <3>4. GivenUp' <=> GivenUp
      BY <2>1, <2>2, <2>4
    <3> QED
      BY <2>1, <2>2, <2>4, <3>1, <3>2, <3>3, <3>4
  <2> QED
    BY <2>3, <2>4
<1>7. ASSUME NEW h \in Threads, task_create_reboot_status(h) PROVE NoneRecorded'
  BY <1>7 DEF task_create_reboot_status, tasks, Leave
<1>8. ASSUME NEW h \in Threads, LastTimes(h) PROVE NoneRecorded'
  BY <1>8 DEF LastTimes, others, local, rest, tasks
<1>9. ASSUME NEW h \in Threads, LastSub(h) PROVE NoneRecorded'
  BY <1>9 DEF LastSub, tasks, Leave
<1>10. ASSUME NEW h \in Threads, DoLimits(h) PROVE NoneRecorded'
  BY <1>10 DEF DoLimits, Leave
<1>11. ASSUME NEW h \in Threads, ForkTestcase(h) PROVE NoneRecorded'
  <2>1. UNCHANGED <<cur, pid, run_times>> /\ pc[h] = "fork"
    BY <1>11 DEF ForkTestcase, tasks
  <2>2. \/ pc' = [pc EXCEPT ![h] = "record"] /\ UNCHANGED ret
        \/ pc' = [pc EXCEPT ![h] = "unlock"] /\ ret' = [ret EXCEPT ![h] = FALSE]
    BY <1>11 DEF ForkTestcase, Leave
  <2>3. pc["main"] = "fork" => ~(run_times[cur] >= Limit(cur))
    BY DEF FromTheFirst, Limit
  <2> QED
    BY <2>1, <2>2, <2>3
<1>12. ASSUME NEW h \in Threads, RecordPid(h) PROVE NoneRecorded'
  <2>1. UNCHANGED <<cur, tsk>> /\ pc[h] = "record" /\ T(h) \in Tasks
    BY <1>12 DEF RecordPid, T
  <2>2. \A t \in Tasks : t # T(h) => pid'[t] = pid[t] /\ run_times'[t] = run_times[t]
    BY <1>12, <2>1 DEF RecordPid
  <2>3. \/ pc' = [pc EXCEPT ![h] = "fork"] /\ UNCHANGED ret
        \/ pc' = [pc EXCEPT ![h] = "unlock"] /\ ret' = [ret EXCEPT ![h] = TRUE]
    BY <1>12 DEF RecordPid, Leave
  <2>4. CASE h = "main"
    BY <2>1, <2>3, <2>4 DEF T
  <2>5. CASE h = Recycle
    <3>1. ~Env[tsk].run_parallel
      BY <2>1, <2>5 DEF HandRuns
    <3>2. tsk = cur => ~GivenUp /\ ~(pc["main"] \in {"kill", "clean", "tell", "lastsub"})
      BY <2>1, <2>5, <3>1
    <3>3. GivenUp \/ pc["main"] \in {"kill", "clean", "tell", "lastsub"} => cur \in Tasks
      OBVIOUS
    <3> QED
      BY <2>1, <2>2, <2>3, <2>5, <3>2, <3>3 DEF T
  <2> QED
    BY <2>4, <2>5
<1>13. ASSUME NEW h \in Threads, UnlockTask(h) PROVE NoneRecorded'
  BY <1>13 DEF UnlockTask, rest, tasks
<1>14. CASE ListTop
  BY <1>14 DEF ListTop, others, local, rest, tasks
<1>15. CASE WAIT_CHILD
  BY <1>15 DEF WAIT_CHILD, tasks, others, local
<1>16. CASE BeginTask
  BY <1>16 DEF BeginTask, NextTask
<1>17. CASE TaskStarted
  BY <1>17 DEF TaskStarted, tasks, others, local
<1>18. CASE TaskFailed
  BY <1>18 DEF TaskFailed, NextTask
<1>19. CASE WaitAlone
  BY <1>19 DEF WaitAlone, rest, tasks, NextTask
<1>20. CASE task_quit_clean
  BY <1>20 DEF task_quit_clean, sched, rest, tasks
<1>21. CASE RecycleTop
  BY <1>21 DEF RecycleTop, others, local, rest, tasks
<1>22. CASE wait4
  <2>1. UNCHANGED <<ret, cur, tsk, pid, run_times>> /\ \E p \in {"match", "top"} : pc' = [pc EXCEPT ![Recycle] = p]
    BY <1>22 DEF wait4, tasks, Goto, At
  <2> QED
    BY <1>22, <2>1 DEF wait4
<1>23. CASE MatchLeader
  BY <1>23 DEF MatchLeader, local
<1>24. CASE task_recycle_once
  <2>1. UNCHANGED <<ret, cur, run_times>> /\ got[1] \in Tasks /\ got[2] \in Slots /\ pid[got[1]][got[2]] = "set"
    BY <1>24 DEF task_recycle_once, Recorded
  <2>2. \A t \in Tasks : t # got[1] => pid'[t] = pid[t]
    BY <1>24 DEF task_recycle_once
  <2>3. pc' = [pc EXCEPT ![Recycle] = "check"]
    BY <1>24 DEF task_recycle_once
  <2>4. GivenUp \/ pc["main"] \in {"kill", "clean", "tell", "lastsub"} => cur \in Tasks
    OBVIOUS
  <2>5. cur = got[1] => ~(\/ GivenUp /\ (Env[cur].run_parallel => run_times[cur] >= Limit(cur))
                          \/ pc["main"] \in {"kill", "clean", "tell", "lastsub"})
    BY <2>1
  <2> QED
    BY <2>1, <2>2, <2>3, <2>4, <2>5
<1>25. CASE NoMatch
  BY <1>25 DEF NoMatch, tasks, local
<1>26. CASE task_check_end
  BY <1>26 DEF task_check_end, others, local, rest, tasks
<1>27. CASE Again
  BY <1>27 DEF Again, local, rest, tasks
<1>28. ASSUME NEW t \in Tasks, OnceLimit(t) PROVE NoneRecorded'
  BY <1>28 DEF OnceLimit, sched, tasks
<1>29. ASSUME NEW t \in Tasks, WholeLimit(t) PROVE NoneRecorded'
  BY <1>29 DEF WholeLimit, sched
<1>30. ASSUME NEW t \in Tasks, NEW k \in Slots, Exit(t, k) PROVE NoneRecorded'
  BY <1>30 DEF Exit, sched, tasks
<1>31. CASE task_signal_quit
  BY <1>31 DEF task_signal_quit, sched, tasks
<1>32. CASE PowerOff
  BY <1>32 DEF PowerOff, sched, tasks
<1>33. CASE task_recover_after_reboot
  BY <1>33 DEF task_recover_after_reboot, AtStart
<1>34. CASE Stopped \/ UNCHANGED vars
  <2>1. UNCHANGED <<pc, ret, cur, tsk, pid, run_times>>
    BY <1>34, SMTT(30) DEF Stopped, vars
  <2> QED
    BY <2>1
<1>35. CASE task_do_crash
  BY <1>35 DEF task_do_crash, sched, tasks
<1> QED
  BY <1>1, <1>2, <1>3, <1>4, <1>5, <1>6, <1>7, <1>8, <1>9, <1>10, <1>11, <1>12, <1>13, <1>14,
     <1>15, <1>16, <1>17, <1>18, <1>19, <1>20, <1>21, <1>22, <1>23, <1>24, <1>25, <1>26, <1>27,
     <1>28, <1>29, <1>30, <1>31, <1>32, <1>33, <1>34, <1>35
  DEF Next, Main, Recycler, Thread, task_begin, task_recycle, task_do, task_recycle_end, Threads,
      Recycle

\* What the recycle thread has in hand runs.
LEMMA HandKept ==
  ASSUME Steady, RunInv, PlaceTypes, TaskTypes, Meet, Shape, FromTheFirst, Rebooted, NeverQuits, HandRuns, [Next]_vars
  PROVE  HandRuns'
<1> USE TinaAssumption DEF HandRuns, Meet, Hands, Limit, RunInv, RunType, PlaceTypes, TaskTypes,
      Tasks, At, Goto, Threads, Recycle, Begun, Doing, Ending, GivenUp
<1>a. reboot_mode /\ pc["main"] \in Doing \cup {"kill", "clean", "tell"} => pc[Recycle] \notin Doing \cup Ending
  BY SoleInReboot
<1>1. ASSUME NEW h \in Threads, KillLimits(h) PROVE HandRuns'
  <2>1. UNCHANGED <<ret, cur, tsk, pid, status, run_times, reboot_mode>> /\ pc[h] = "kill"
    BY <1>1 DEF KillLimits, tasks, reboots, others, local
  <2>2. pc' = [pc EXCEPT ![h] = IF Carried(T(h)) THEN "clean" ELSE "sub"]
    BY <1>1 DEF KillLimits
  <2>3. CASE h = "main"
    BY <2>1, <2>2, <2>3
  <2>4. CASE h = Recycle
    <3>1. Carried(T(h)) => reboot_mode /\ Env[tsk].may_reboot
      BY <2>4 DEF Carried, T
    <3> QED
      BY <2>1, <2>2, <2>4, <3>1
  <2> QED
    BY <2>3, <2>4
<1>2. ASSUME NEW h \in Threads, task_clean_reboot(h) PROVE HandRuns'
  <2>1. UNCHANGED <<ret, cur, tsk, pid, status, run_times>> /\ pc[h] = "clean"
    BY <1>2 DEF task_clean_reboot, tasks, others, local
  <2>2. pc' = [pc EXCEPT ![h] = "tell"]
    BY <1>2 DEF task_clean_reboot
  <2>3. h = "main" => pc[Recycle] # "clean"
    BY <1>a, <2>1 DEF FromTheFirst
  <2> QED
    BY <2>1, <2>2, <2>3
<1>3. ASSUME NEW h \in Threads, CountEnd(h) PROVE HandRuns'
  BY <1>3 DEF CountEnd, tasks, reboots, others, local
<1>4. ASSUME NEW h \in Threads, TELL_PARENT(h) PROVE HandRuns'
  <2>1. UNCHANGED <<ret, cur, tsk, pid, run_times, reboot_mode>> /\ pc[h] = "tell"
    BY <1>4 DEF TELL_PARENT, reboots, others, local
  <2>2. CASE h = Recycle
    BY <1>4, <2>1, <2>2 DEF TELL_PARENT
  <2>3. CASE h = "main"
    <3>1. pc' = [pc EXCEPT !["main"] = "lastsub"] /\ status' = [status EXCEPT ![cur] = "END"]
      BY <1>4, <2>3 DEF TELL_PARENT, T
    <3>2. pc[Recycle] \in Hands => tsk # cur
      BY <2>1, <2>3
    <3> QED
      BY <2>1, <3>1, <3>2
  <2> QED
    BY <2>2, <2>3
<1>5. ASSUME NEW h \in Threads, LockTask(h) PROVE HandRuns'
  <2>1. UNCHANGED <<ret, cur, tsk, pid, status, run_times, reboot_mode>> /\ pc[h] = "lock"
    BY <1>5 DEF LockTask, rest, tasks, reboots
  <2>2. pc' = [pc EXCEPT ![h] = IF Env[T(h)].may_reboot THEN "reboot" ELSE "last"]
    BY <1>5 DEF LockTask
  <2> QED
    BY <2>1, <2>2 DEF T
<1>6. ASSUME NEW h \in Threads, task_init_reboot_mode(h) PROVE HandRuns'
  <2>1. UNCHANGED <<cur, tsk, pid, status, reboot_mode>> /\ pc[h] = "reboot" /\ T(h) \in Tasks
    BY <1>6 DEF task_init_reboot_mode, T, reboots
  <2>2. \E p \in {"status", "unlock"} : pc' = [pc EXCEPT ![h] = p]
    BY <1>6 DEF task_init_reboot_mode, Leave
  <2>3. CASE h = Recycle
    BY <2>1, <2>2, <2>3
  <2>4. CASE h = "main"
    <3>1. \A t \in Tasks : t # cur => run_times'[t] = run_times[t]
      BY <1>6, <2>4, <2>1 DEF task_init_reboot_mode, ResumeAt, T
    <3>2. pc[Recycle] \in Hands => tsk # cur
      BY <2>1, <2>4
    <3> QED
      BY <2>1, <2>2, <2>4, <3>1, <3>2
  <2> QED
    BY <2>3, <2>4
<1>7. ASSUME NEW h \in Threads, task_create_reboot_status(h) PROVE HandRuns'
  <2>1. UNCHANGED <<cur, tsk, pid, status, run_times>> /\ pc[h] \in {"status", "fill"}
    BY <1>7 DEF task_create_reboot_status, tasks
  <2>2. \E p \in {"fill", "last", "unlock"} : pc' = [pc EXCEPT ![h] = p]
    BY <1>7 DEF task_create_reboot_status, Leave
  <2>3. UNCHANGED reboot_mode \/ reboot_mode' = FALSE
    BY <1>7 DEF task_create_reboot_status
  <2>4. h = "main" /\ reboot_mode => pc[Recycle] # "clean"
    BY <1>a, <2>1
  <2>5. CASE h = "main"
    BY <2>1, <2>2, <2>3, <2>4, <2>5
  <2>6. CASE h = Recycle
    BY <2>1, <2>2, <2>3, <2>6
  <2> QED
    BY <2>5, <2>6
<1>8. ASSUME NEW h \in Threads, LastTimes(h) PROVE HandRuns'
  <2>1. UNCHANGED <<ret, cur, tsk, pid, status, run_times, reboot_mode>> /\ pc[h] = "last"
    BY <1>8 DEF LastTimes, others, local, rest, tasks, reboots
  <2>2. CASE h = Recycle
    <3>1. run_times[tsk] < Limit(tsk)
      BY <2>1, <2>2 DEF RecyclerBelow, Restart
    <3>2. pc' = [pc EXCEPT ![Recycle] = "limits"]
      BY <1>8, <2>2, <3>1 DEF LastTimes, T
    <3> QED
      BY <2>1, <2>2, <3>2
  <2>3. CASE h = "main"
    <3>1. PICK p : pc' = [pc EXCEPT !["main"] = p]
      BY <1>8, <2>3 DEF LastTimes
    <3> QED
      BY <2>1, <3>1
  <2> QED
    BY <2>2, <2>3
<1>9. ASSUME NEW h \in Threads, LastSub(h) PROVE HandRuns'
  BY <1>9 DEF LastSub, tasks, reboots, Leave
<1>10. ASSUME NEW h \in Threads, DoLimits(h) PROVE HandRuns'
  BY <1>10 DEF DoLimits, reboots, Leave
<1>11. ASSUME NEW h \in Threads, ForkTestcase(h) PROVE HandRuns'
  BY <1>11, SMTT(30) DEF ForkTestcase, tasks, reboots, Leave
<1>12. ASSUME NEW h \in Threads, RecordPid(h) PROVE HandRuns'
  <2>1. UNCHANGED <<cur, tsk, status, reboot_mode>> /\ pc[h] = "record" /\ T(h) \in Tasks
    BY <1>12 DEF RecordPid, T, reboots
  <2>2. run_times' = [run_times EXCEPT ![T(h)] = run_times[T(h)] + 1]
    BY <1>12 DEF RecordPid
  <2>3. \E p \in {"fork", "unlock"} : pc' = [pc EXCEPT ![h] = p]
    BY <1>12 DEF RecordPid, Leave
  <2>4. \A t \in Tasks, k \in Slots : pid[t][k] # "none" => pid'[t][k] # "none"
    BY <1>12, <2>1 DEF RecordPid
  <2>5. CASE h = Recycle
    BY <2>1, <2>2, <2>3, <2>5
  <2>6. CASE h = "main"
    <3>1. run_times' = [run_times EXCEPT ![cur] = run_times[cur] + 1] /\ cur \in Tasks /\ status[cur] = "RUN"
      BY <2>1, <2>2, <2>6 DEF T, Shape
    <3>2. tsk \in Tasks /\ run_times[tsk] \in Nat /\ Limit(tsk) \in Nat
      OBVIOUS
    <3>3. run_times'[tsk] = run_times[tsk] \/ (tsk = cur /\ run_times'[tsk] = run_times[tsk] + 1)
      BY <3>1, <3>2
    <3>4. pc'[Recycle] = pc[Recycle]
      BY <2>3, <2>6
    <3> QED
      BY <2>1, <2>4, <2>6, <3>1, <3>2, <3>3, <3>4
  <2> QED
    BY <2>5, <2>6
<1>13. ASSUME NEW h \in Threads, UnlockTask(h) PROVE HandRuns'
  BY <1>13 DEF UnlockTask, rest, tasks, reboots
<1>14. CASE ListTop
  BY <1>14 DEF ListTop, others, local, rest, tasks, reboots
<1>15. CASE WAIT_CHILD
  BY <1>15 DEF WAIT_CHILD, tasks, reboots, others, local
<1>16. CASE BeginTask
  <2>1. UNCHANGED <<tsk, pid, run_times, reboot_mode>> /\ cur \in Tasks /\ pc["main"] = "alone"
    BY <1>16 DEF BeginTask, reboots
  <2>2. pc'[Recycle] = pc[Recycle]
    BY <1>16 DEF BeginTask, NextTask
  <2>3. status[cur] = "WAIT" /\ \A t \in Tasks : t # cur => status'[t] = status[t]
    <3>1. status[cur] = "WAIT"
      BY <2>1 DEF Shape
    <3>2. \A t \in Tasks : t # cur => status'[t] = status[t]
      BY <1>16, <2>1 DEF BeginTask
    <3> QED
      BY <3>1, <3>2
  <2>4. pc[Recycle] \in Doing \cup Ending \cup {"check"} => status'[tsk] = status[tsk] \/ tsk = cur
    BY <2>3
  <2> QED
    BY <2>1, <2>2, <2>3, <2>4
<1>17. CASE TaskStarted
  BY <1>17 DEF TaskStarted, tasks, reboots, others, local
<1>18. CASE TaskFailed
  <2>1. UNCHANGED <<ret, tsk, pid, run_times, reboot_mode>> /\ pc["main"] = "failed" /\ cur \in Tasks
    BY <1>18 DEF TaskFailed, reboots
  <2>2. pc' = [pc EXCEPT !["main"] = "list"] /\ status' = [status EXCEPT ![cur] = "END"]
    BY <1>18 DEF TaskFailed, NextTask
  <2>3. pc[Recycle] \in Hands /\ tsk = cur =>
          pc[Recycle] = "check" /\ Env[tsk].run_parallel /\ run_times[tsk] < Limit(tsk)
    BY <2>1
  <2>4. pc'[Recycle] = pc[Recycle] /\ (tsk # cur => status'[tsk] = status[tsk])
    BY <2>1, <2>2
  <2> QED
    BY <2>1, <2>3, <2>4
<1>19. CASE WaitAlone
  BY <1>19 DEF WaitAlone, rest, tasks, reboots, NextTask
<1>20. CASE task_quit_clean
  BY <1>20 DEF task_quit_clean, sched, rest, tasks, reboots
<1>21. CASE RecycleTop
  BY <1>21 DEF RecycleTop, others, local, rest, tasks, reboots
<1>22. CASE wait4
  <2>1. UNCHANGED <<ret, cur, tsk, pid, status, run_times, reboot_mode>> /\ \E p \in {"match", "top"} : pc' = [pc EXCEPT ![Recycle] = p]
    BY <1>22 DEF wait4, tasks, reboots, Goto, At
  <2> QED
    BY <1>22, <2>1 DEF wait4
<1>23. CASE MatchLeader
  BY <1>23 DEF MatchLeader, reboots, local
<1>24. CASE task_recycle_once
  <2>1. tsk' = got[1] /\ status'[tsk'] = "RUN" /\ pc' = [pc EXCEPT ![Recycle] = "check"]
    BY <1>24 DEF task_recycle_once, Recorded
  <2> QED
    BY <2>1
<1>25. CASE NoMatch
  BY <1>25 DEF NoMatch, tasks, reboots, local
<1>26. CASE task_check_end
  <2>1. UNCHANGED <<ret, cur, tsk, pid, status, run_times, reboot_mode>> /\ pc[Recycle] = "check"
    BY <1>26 DEF task_check_end, others, local, rest, tasks, reboots
  <2>2. \E k \in Slots : pid[tsk][k] # "none"
    BY <2>1 DEF HandKnown, InHand
  <2>3. tsk \in Tasks /\ run_times[tsk] \in Nat /\ Limit(tsk) \in Nat
    OBVIOUS
  <2>4. CASE Ended(tsk)
    <3>1. pc' = [pc EXCEPT ![Recycle] = "kill"]
      BY <1>26, <2>4 DEF task_check_end
    <3>2. Env[tsk].run_parallel => run_times[tsk] >= Limit(tsk)
      BY <2>3, <2>4 DEF Ended, NeverQuits
    <3> QED
      BY <2>1, <2>2, <2>3, <3>1, <3>2
  <2>5. CASE ~Ended(tsk)
    <3>1. pc' = [pc EXCEPT ![Recycle] = IF Env[tsk].run_parallel THEN "again" ELSE "lock"]
      BY <1>26, <2>5 DEF task_check_end
    <3> QED
      BY <2>1, <3>1
  <2> QED
    BY <2>4, <2>5
<1>27. CASE Again
  BY <1>27 DEF Again, local, rest, tasks, reboots
<1>28. ASSUME NEW t \in Tasks, OnceLimit(t) PROVE HandRuns'
  BY <1>28 DEF OnceLimit, sched, tasks, reboots
<1>29. ASSUME NEW t \in Tasks, WholeLimit(t) PROVE HandRuns'
  BY <1>29 DEF WholeLimit, sched, reboots
<1>30. ASSUME NEW t \in Tasks, NEW k \in Slots, Exit(t, k) PROVE HandRuns'
  BY <1>30 DEF Exit, sched, tasks, reboots
<1>31. CASE task_signal_quit
  BY <1>31 DEF task_signal_quit, sched, tasks, reboots
<1>32. CASE PowerOff
  BY <1>32 DEF PowerOff, sched, tasks, reboots
<1>33. CASE task_recover_after_reboot
  BY <1>33 DEF task_recover_after_reboot, AtStart
<1>34. CASE Stopped \/ UNCHANGED vars
  <2>1. UNCHANGED <<pc, ret, cur, tsk, pid, status, run_times, reboot_mode>>
    BY <1>34 DEF Stopped, vars
  <2> QED
    BY <2>1
<1>35. CASE task_do_crash
  BY <1>35 DEF task_do_crash, sched, tasks, reboots
<1> QED
  BY <1>1, <1>2, <1>3, <1>4, <1>5, <1>6, <1>7, <1>8, <1>9, <1>10, <1>11, <1>12, <1>13, <1>14,
     <1>15, <1>16, <1>17, <1>18, <1>19, <1>20, <1>21, <1>22, <1>23, <1>24, <1>25, <1>26, <1>27,
     <1>28, <1>29, <1>30, <1>31, <1>32, <1>33, <1>34, <1>35
  DEF Next, Main, Recycler, Thread, task_begin, task_recycle, task_do, task_recycle_end, Threads,
      Recycle

\* A parallel test case is never told to quit.
LEMMA QuitKept ==
  ASSUME Steady, RunType, FlagTypes, NeverQuits, [Next]_vars
  PROVE  NeverQuits'
<1> USE TinaAssumption DEF Steady, NeverQuits, FlagTypes, RunType
<1>1. ASSUME NEW h \in Threads, KillLimits(h) PROVE NeverQuits'
  BY <1>1 DEF KillLimits, tasks
<1>2. ASSUME NEW h \in Threads, task_clean_reboot(h) PROVE NeverQuits'
  BY <1>2 DEF task_clean_reboot, tasks
<1>3. ASSUME NEW h \in Threads, CountEnd(h) PROVE NeverQuits'
  BY <1>3 DEF CountEnd, tasks
<1>4. ASSUME NEW h \in Threads, TELL_PARENT(h) PROVE NeverQuits'
  BY <1>4 DEF TELL_PARENT
<1>5. ASSUME NEW h \in Threads, LockTask(h) PROVE NeverQuits'
  BY <1>5 DEF LockTask, rest, tasks
<1>6. ASSUME NEW h \in Threads, task_init_reboot_mode(h) PROVE NeverQuits'
  BY <1>6 DEF task_init_reboot_mode
<1>7. ASSUME NEW h \in Threads, task_create_reboot_status(h) PROVE NeverQuits'
  BY <1>7 DEF task_create_reboot_status, tasks
<1>8. ASSUME NEW h \in Threads, LastTimes(h) PROVE NeverQuits'
  BY <1>8 DEF LastTimes, rest, tasks
<1>9. ASSUME NEW h \in Threads, LastSub(h) PROVE NeverQuits'
  BY <1>9 DEF LastSub, tasks
<1>10. ASSUME NEW h \in Threads, DoLimits(h) PROVE NeverQuits'
  BY <1>10 DEF DoLimits
<1>11. ASSUME NEW h \in Threads, ForkTestcase(h) PROVE NeverQuits'
  BY <1>11 DEF ForkTestcase, tasks
<1>12. ASSUME NEW h \in Threads, RecordPid(h) PROVE NeverQuits'
  BY <1>12 DEF RecordPid
<1>13. ASSUME NEW h \in Threads, UnlockTask(h) PROVE NeverQuits'
  BY <1>13 DEF UnlockTask, rest, tasks
<1>14. CASE ListTop
  BY <1>14 DEF ListTop, rest, tasks
<1>15. CASE WAIT_CHILD
  BY <1>15 DEF WAIT_CHILD, tasks
<1>16. CASE BeginTask
  BY <1>16 DEF BeginTask
<1>17. CASE TaskStarted
  BY <1>17 DEF TaskStarted, tasks
<1>18. CASE TaskFailed
  BY <1>18 DEF TaskFailed
<1>19. CASE WaitAlone
  BY <1>19 DEF WaitAlone, rest, tasks
<1>20. CASE task_quit_clean
  BY <1>20 DEF task_quit_clean, rest, tasks
<1>21. CASE RecycleTop
  BY <1>21 DEF RecycleTop, rest, tasks
<1>22. CASE wait4
  <2>1. UNCHANGED <<quit, ttquit>> /\ \E p \in {"match", "top"} : pc' = [pc EXCEPT ![Recycle] = p]
    BY <1>22 DEF wait4, tasks, Goto, At
  <2> QED
    BY <1>22, <2>1 DEF wait4
<1>23. CASE MatchLeader
  BY <1>23 DEF MatchLeader
<1>24. CASE task_recycle_once
  BY <1>24 DEF task_recycle_once
<1>25. CASE NoMatch
  BY <1>25 DEF NoMatch, tasks
<1>26. CASE task_check_end
  BY <1>26 DEF task_check_end, rest, tasks
<1>27. CASE Again
  BY <1>27 DEF Again, rest, tasks
<1>28. ASSUME NEW t \in Tasks, OnceLimit(t) PROVE NeverQuits'
  BY <1>28 DEF OnceLimit, tasks
<1>29. ASSUME NEW t \in Tasks, WholeLimit(t) PROVE NeverQuits'
  BY <1>29 DEF WholeLimit
<1>30. ASSUME NEW t \in Tasks, NEW k \in Slots, Exit(t, k) PROVE NeverQuits'
  BY <1>30 DEF Exit, tasks
<1>31. CASE task_signal_quit
  BY <1>31 DEF task_signal_quit, tasks
<1>32. CASE PowerOff
  BY <1>32 DEF PowerOff, tasks
<1>33. CASE task_recover_after_reboot
  BY <1>33 DEF task_recover_after_reboot, Every
<1>34. CASE Stopped \/ UNCHANGED vars
  <2>1. UNCHANGED <<quit, ttquit>>
    BY <1>34 DEF Stopped, vars
  <2> QED
    BY <2>1
<1>35. CASE task_do_crash
  BY <1>35 DEF task_do_crash, tasks
<1> QED
  BY <1>1, <1>2, <1>3, <1>4, <1>5, <1>6, <1>7, <1>8, <1>9, <1>10, <1>11, <1>12, <1>13, <1>14,
     <1>15, <1>16, <1>17, <1>18, <1>19, <1>20, <1>21, <1>22, <1>23, <1>24, <1>25, <1>26, <1>27,
     <1>28, <1>29, <1>30, <1>31, <1>32, <1>33, <1>34, <1>35
  DEF Next, Main, Recycler, Thread, task_begin, task_recycle, task_do, task_recycle_end, Threads,
      Recycle


\* In reboot mode only the test case of the boot script runs.
LEMMA RebootedKept ==
  ASSUME RunType, PlaceTypes, FlagTypes, TaskTypes, Shape, FromTheFirst, HandRuns, Rebooted, [Next]_vars
  PROVE  Rebooted'
<1> USE TinaAssumption DEF Rebooted, RunType, PlaceTypes, FlagTypes, TaskTypes, At, Goto, Threads,
      Recycle, Begun, Doing, Ending, GivenUp
<1>1. ASSUME NEW h \in Threads, KillLimits(h) PROVE Rebooted'
  <2>1. UNCHANGED <<ret, status, faults, reboot_mode, reboot_keypath>> /\ pc[h] = "kill"
    BY <1>1 DEF KillLimits, tasks, reboots, bounds, others, local
  <2>2. \/ Carried(T(h)) /\ fboot' = None /\ pc' = [pc EXCEPT ![h] = "clean"]
        \/ ~Carried(T(h)) /\ UNCHANGED fboot /\ pc' = [pc EXCEPT ![h] = "sub"]
    BY <1>1 DEF KillLimits
  <2>3. ~Carried(T(h)) /\ reboot_mode => h = "main"
    BY <2>1 DEF Carried, T, HandRuns
  <2>4. CASE Carried(T(h)) /\ fboot' = None /\ pc' = [pc EXCEPT ![h] = "clean"]
    BY <2>1, <2>4
  <2>5. CASE ~Carried(T(h)) /\ UNCHANGED fboot /\ pc' = [pc EXCEPT ![h] = "sub"]
    BY <2>1, <2>3, <2>5
  <2> QED
    BY <2>2, <2>4, <2>5
<1>2. ASSUME NEW h \in Threads, task_clean_reboot(h) PROVE Rebooted'
  BY <1>2 DEF task_clean_reboot, tasks, bounds, others, local
<1>3. ASSUME NEW h \in Threads, CountEnd(h) PROVE Rebooted'
  BY <1>3 DEF CountEnd, tasks, reboots, flash, bounds, others, local
<1>4. ASSUME NEW h \in Threads, TELL_PARENT(h) PROVE Rebooted'
  BY <1>4 DEF TELL_PARENT, reboots, flash, bounds, others, local, T, FromTheFirst
<1>5. ASSUME NEW h \in Threads, LockTask(h) PROVE Rebooted'
  BY <1>5 DEF LockTask, rest, tasks, reboots, flash, bounds
<1>6. ASSUME NEW h \in Threads, task_init_reboot_mode(h) PROVE Rebooted'
  <2>1. UNCHANGED <<status, reboot_mode>> /\ pc[h] = "reboot" /\ T(h) \in Tasks /\ Env[T(h)].may_reboot
    BY <1>6 DEF task_init_reboot_mode, reboots, T, HandRuns, FromTheFirst
  <2>2. \/ pc' = [pc EXCEPT ![h] = "status"] /\ UNCHANGED <<ret, faults>>
        \/ pc' = [pc EXCEPT ![h] = "unlock"] /\ ret' = [ret EXCEPT ![h] = FALSE] /\ faults' = faults + 1
    BY <1>6 DEF task_init_reboot_mode, Leave, Fails
  <2>3. \/ reboot_mode /\ UNCHANGED <<fboot, reboot_keypath>>
        \/ ~reboot_mode /\ fboot' \in {T(h), None} /\ reboot_keypath' \in {T(h), None}
    BY <1>6 DEF task_init_reboot_mode, flash, reboots
  <2>4. GivenUp' => faults' > 0
    BY <2>2
  <2> QED
    BY <2>1, <2>2, <2>3, <2>4
<1>7. ASSUME NEW h \in Threads, task_create_reboot_status(h) PROVE Rebooted'
  <2>1. UNCHANGED <<status, fboot, reboot_keypath>> /\ pc[h] \in {"status", "fill"}
    BY <1>7 DEF task_create_reboot_status, tasks
  <2>2. \/ (\E p \in {"fill", "last"} : pc' = [pc EXCEPT ![h] = p]) /\ UNCHANGED <<ret, faults, reboot_mode>>
        \/ pc' = [pc EXCEPT ![h] = "unlock"] /\ ret' = [ret EXCEPT ![h] = FALSE] /\ faults' = faults + 1
             /\ reboot_mode' = FALSE
    BY <1>7 DEF task_create_reboot_status, Leave, Fails
  <2> QED
    BY <2>1, <2>2
<1>8. ASSUME NEW h \in Threads, LastTimes(h) PROVE Rebooted'
  BY <1>8 DEF LastTimes, others, local, rest, tasks, reboots, flash, bounds
<1>9. ASSUME NEW h \in Threads, LastSub(h) PROVE Rebooted'
  BY <1>9 DEF LastSub, tasks, reboots, flash, bounds, Leave
<1>10. ASSUME NEW h \in Threads, DoLimits(h) PROVE Rebooted'
  BY <1>10 DEF DoLimits, reboots, flash, Leave, Fails
<1>11. ASSUME NEW h \in Threads, ForkTestcase(h) PROVE Rebooted'
  BY <1>11 DEF ForkTestcase, tasks, reboots, flash, Leave, Fails
<1>12. ASSUME NEW h \in Threads, RecordPid(h) PROVE Rebooted'
  BY <1>12 DEF RecordPid, reboots, flash, bounds, Leave
<1>13. ASSUME NEW h \in Threads, UnlockTask(h) PROVE Rebooted'
  BY <1>13 DEF UnlockTask, rest, tasks, reboots, flash, bounds
<1>14. CASE ListTop
  BY <1>14 DEF ListTop, others, local, rest, tasks, reboots, flash, bounds
<1>15. CASE WAIT_CHILD
  BY <1>15 DEF WAIT_CHILD, tasks, reboots, flash, bounds, others, local
<1>16. CASE BeginTask
  BY <1>16 DEF BeginTask, reboots, flash, bounds, NextTask
<1>17. CASE TaskStarted
  BY <1>17 DEF TaskStarted, tasks, reboots, flash, bounds, others, local
<1>18. CASE TaskFailed
  BY <1>18 DEF TaskFailed, reboots, flash, bounds, NextTask
<1>19. CASE WaitAlone
  BY <1>19 DEF WaitAlone, rest, tasks, reboots, flash, bounds, NextTask
<1>20. CASE task_quit_clean
  BY <1>20 DEF task_quit_clean, sched, rest, tasks, reboots, flash, bounds
<1>21. CASE RecycleTop
  BY <1>21 DEF RecycleTop, others, local, rest, tasks, reboots, flash, bounds
<1>22. CASE wait4
  <2>1. UNCHANGED <<ret, status, faults, reboot_mode, reboot_keypath, fboot>> /\ \E p \in {"match", "top"} : pc' = [pc EXCEPT ![Recycle] = p]
    BY <1>22 DEF wait4, tasks, reboots, flash, bounds, Goto, At
  <2> QED
    BY <1>22, <2>1 DEF wait4
<1>23. CASE MatchLeader
  BY <1>23 DEF MatchLeader, reboots, flash, bounds, local
<1>24. CASE task_recycle_once
  BY <1>24 DEF task_recycle_once, reboots, flash, bounds
<1>25. CASE NoMatch
  BY <1>25 DEF NoMatch, tasks, reboots, flash, bounds, local
<1>26. CASE task_check_end
  BY <1>26 DEF task_check_end, others, local, rest, tasks, reboots, flash, bounds
<1>27. CASE Again
  BY <1>27 DEF Again, local, rest, tasks, reboots, flash, bounds
<1>28. ASSUME NEW t \in Tasks, OnceLimit(t) PROVE Rebooted'
  BY <1>28 DEF OnceLimit, sched, tasks, reboots, flash, bounds
<1>29. ASSUME NEW t \in Tasks, WholeLimit(t) PROVE Rebooted'
  BY <1>29 DEF WholeLimit, sched, reboots, flash, bounds
<1>30. ASSUME NEW t \in Tasks, NEW k \in Slots, Exit(t, k) PROVE Rebooted'
  BY <1>30 DEF Exit, sched, tasks, reboots, flash, bounds
<1>31. CASE task_signal_quit
  BY <1>31 DEF task_signal_quit, sched, tasks, reboots, flash, bounds
<1>32. CASE PowerOff
  BY <1>32 DEF PowerOff, sched, tasks, reboots, flash
<1>33. CASE task_recover_after_reboot
  BY <1>33 DEF task_recover_after_reboot, flash, bounds, AtStart, Every
<1>34. CASE Stopped \/ UNCHANGED vars
  <2>1. UNCHANGED <<pc, ret, status, faults, reboot_mode, reboot_keypath, fboot>>
    BY <1>34 DEF Stopped, vars
  <2> QED
    BY <2>1
<1>35. CASE task_do_crash
  BY <1>35 DEF task_do_crash, Fails, sched, tasks, reboots, flash
<1> QED
  BY <1>1, <1>2, <1>3, <1>4, <1>5, <1>6, <1>7, <1>8, <1>9, <1>10, <1>11, <1>12, <1>13, <1>14,
     <1>15, <1>16, <1>17, <1>18, <1>19, <1>20, <1>21, <1>22, <1>23, <1>24, <1>25, <1>26, <1>27,
     <1>28, <1>29, <1>30, <1>31, <1>32, <1>33, <1>34, <1>35
  DEF Next, Main, Recycler, Thread, task_begin, task_recycle, task_do, task_recycle_end, Threads,
      Recycle


-----------------------------------------------------------------------------
(* The processes *)

\* Processes only get older.
Aging == \A t \in Tasks, k \in Slots :
  /\ proc[t][k] = "none" => proc'[t][k] = "none"
  /\ proc'[t][k] = "alive" => proc[t][k] = "alive"
  /\ proc[t][k] = "gone" => proc'[t][k] = "gone"

Unforked == (\A h \in Threads : ~ForkTestcase(h)) /\ ~task_recover_after_reboot

\* A signal to a group: nothing is born, and none of the group executes.
LEMMA KillAges ==
  ASSUME ProcTypes, NEW t \in Tasks, NEW how \in Zombies, kill(t, how)
  PROVE  Aging /\ \A k \in Slots : proc'[t][k] # "alive"
<1>1. \A u \in Tasks : u # t => proc'[u] = proc[u]
  BY DEF ProcTypes, kill
<1>2. \A k \in Slots : proc'[t][k] = IF proc[t][k] = "alive" THEN how ELSE proc[t][k]
  BY DEF ProcTypes, kill, Struck
<1> QED
  BY <1>1, <1>2 DEF Aging, Zombies

\* Only task_do makes processes.
LEMMA Ages ==
  ASSUME RunType, ProcTypes, Unforked, [Next]_vars
  PROVE  Aging
<1> USE TinaAssumption DEF Aging
<1>1. ASSUME NEW h \in Threads, KillLimits(h) PROVE Aging
  <2>1. T(h) \in Tasks
    BY <1>1 DEF KillLimits, At, T, Threads, RunType
  <2> QED
    BY <1>1, <2>1, KillAges DEF KillLimits, Zombies
<1>2. ASSUME NEW h \in Threads, task_clean_reboot(h) PROVE Aging
  BY <1>2 DEF task_clean_reboot, kernel
<1>3. ASSUME NEW h \in Threads, CountEnd(h) PROVE Aging
  BY <1>3 DEF CountEnd, kernel
<1>4. ASSUME NEW h \in Threads, TELL_PARENT(h) PROVE Aging
  BY <1>4 DEF TELL_PARENT, kernel
<1>5. ASSUME NEW h \in Threads, LockTask(h) PROVE Aging
  BY <1>5 DEF LockTask, rest, kernel
<1>6. ASSUME NEW h \in Threads, task_init_reboot_mode(h) PROVE Aging
  BY <1>6 DEF task_init_reboot_mode, kernel
<1>7. ASSUME NEW h \in Threads, task_create_reboot_status(h) PROVE Aging
  BY <1>7 DEF task_create_reboot_status, kernel
<1>8. ASSUME NEW h \in Threads, LastTimes(h) PROVE Aging
  BY <1>8 DEF LastTimes, rest, kernel
<1>9. ASSUME NEW h \in Threads, LastSub(h) PROVE Aging
  BY <1>9 DEF LastSub
<1>10. ASSUME NEW h \in Threads, DoLimits(h) PROVE Aging
  BY <1>10 DEF DoLimits
<1>11. ASSUME NEW h \in Threads, ForkTestcase(h) PROVE Aging
  BY <1>11 DEF Unforked
<1>12. ASSUME NEW h \in Threads, RecordPid(h) PROVE Aging
  BY <1>12 DEF RecordPid, kernel
<1>13. ASSUME NEW h \in Threads, UnlockTask(h) PROVE Aging
  BY <1>13 DEF UnlockTask, rest, kernel
<1>14. CASE ListTop
  BY <1>14 DEF ListTop, rest, kernel
<1>15. CASE WAIT_CHILD
  BY <1>15 DEF WAIT_CHILD, kernel
<1>16. CASE BeginTask
  BY <1>16 DEF BeginTask, kernel
<1>17. CASE TaskStarted
  BY <1>17 DEF TaskStarted, kernel
<1>18. CASE TaskFailed
  BY <1>18 DEF TaskFailed, kernel
<1>19. CASE WaitAlone
  BY <1>19 DEF WaitAlone, rest, kernel
<1>20. CASE task_quit_clean
  BY <1>20 DEF task_quit_clean, rest, kernel
<1>21. CASE RecycleTop
  BY <1>21 DEF RecycleTop, rest, kernel
<1>22. CASE wait4
  <2>1. UNCHANGED proc \/ \E t \in Tasks, k \in Slots : proc[t][k] \in Zombies /\ proc' = [proc EXCEPT ![t][k] = "gone"]
    BY <1>22 DEF wait4, kernel
  <2> QED
    BY <2>1 DEF ProcTypes, Zombies
<1>23. CASE MatchLeader
  BY <1>23 DEF MatchLeader, kernel
<1>24. CASE task_recycle_once
  BY <1>24, KillAges DEF task_recycle_once, Zombies, RunType
<1>25. CASE NoMatch
  BY <1>25 DEF NoMatch, kernel
<1>26. CASE task_check_end
  BY <1>26 DEF task_check_end, rest, kernel
<1>27. CASE Again
  BY <1>27 DEF Again, rest, kernel
<1>28. ASSUME NEW t \in Tasks, OnceLimit(t) PROVE Aging
  BY <1>28, KillAges DEF OnceLimit, Zombies
<1>29. ASSUME NEW t \in Tasks, WholeLimit(t) PROVE Aging
  BY <1>29, KillAges DEF WholeLimit, Zombies
<1>30. ASSUME NEW t \in Tasks, NEW k \in Slots, Exit(t, k) PROVE Aging
  <2>1. PICK how \in {"pass", "fail"} : proc' = [proc EXCEPT ![t][k] = how]
    BY <1>30 DEF Exit
  <2> QED
    BY <1>30, <2>1 DEF ProcTypes, Exit
<1>31. CASE task_signal_quit
  <2>1. UNCHANGED proc \/ proc' = [t \in Tasks |-> Struck(t, "fail")]
    BY <1>31 DEF task_signal_quit
  <2> QED
    BY <2>1 DEF ProcTypes, Struck
<1>32. CASE PowerOff
  BY <1>32 DEF PowerOff, kernel
<1>33. CASE task_recover_after_reboot
  BY <1>33 DEF Unforked
<1>34. CASE Stopped \/ UNCHANGED vars
  <2>1. UNCHANGED <<proc>>
    BY <1>34 DEF Stopped, vars
  <2> QED
    BY <2>1
<1>35. CASE task_do_crash
  BY <1>35 DEF task_do_crash, kernel
<1> QED
  BY <1>1, <1>2, <1>3, <1>4, <1>5, <1>6, <1>7, <1>8, <1>9, <1>10, <1>11, <1>12, <1>13, <1>14,
     <1>15, <1>16, <1>17, <1>18, <1>19, <1>20, <1>21, <1>22, <1>23, <1>24, <1>25, <1>26, <1>27,
     <1>28, <1>29, <1>30, <1>31, <1>32, <1>33, <1>34, <1>35
  DEF Next, Main, Recycler, Thread, task_begin, task_recycle, task_do, task_recycle_end, Threads,
      Recycle

\* The numbers of the runs.
LEMMA SlotsNat == \A k \in Slots : k \in Int
  BY DEF Slots

\* NotForked, when the main thread stays with its task and forks nothing, or goes on.
LEMMA NotForkedStays ==
  ASSUME NotForked, Aging, cur' = cur, pc["main"] \in {"fork", "record", "limits"} => cur \in Tasks,
         pc["main"] \in {"fork", "record"} => run_times'[cur] = run_times[cur],
         \/ pc'["main"] = pc["main"]
         \/ pc'["main"] \notin {"fork", "record"} /\ (pc'["main"] \in Late \/ pc["main"] \notin Late)
         \/ pc["main"] = "limits" /\ pc'["main"] = "fork"
  PROVE  NotForked'
<1>1. \A t \in Tasks : t > cur' \/ (t = cur' /\ pc'["main"] \notin Late) => \A k \in Slots : proc'[t][k] = "none"
  BY DEF NotForked, Aging, Late
<1>2. ASSUME pc["main"] \in {"fork", "record"}, pc'["main"] = pc["main"], cur \in Tasks
      PROVE  /\ pc'["main"] = "fork" => \A k \in Slots : k >= run_times'[cur'] => proc'[cur'][k] = "none"
             /\ pc'["main"] = "record" => \A k \in Slots : k > run_times'[cur'] => proc'[cur'][k] = "none"
  BY <1>2 DEF NotForked, Aging
<1>3. ASSUME pc["main"] = "limits", pc'["main"] = "fork", cur \in Tasks
      PROVE  \A k \in Slots : proc'[cur'][k] = "none"
  BY <1>3 DEF NotForked, Aging, Late
<1> QED
  BY <1>1, <1>2, <1>3 DEF NotForked

\* The same, when it goes to the next task.
LEMMA NotForkedNext ==
  ASSUME NotForked, Aging, cur \in 1 .. (N + 1), cur' = cur + 1, pc'["main"] = "list"
  PROVE  NotForked'
  BY TinaAssumption DEF NotForked, Aging, Tasks, Late

\* What was not forked is not there: the steps that fork nothing.
LEMMA NotForkedAged ==
  ASSUME RunType, Meet, HandRuns, FromTheFirst, NotForked, Aging, Unforked, [Next]_vars
  PROVE  NotForked'
<1> USE TinaAssumption DEF RunType, Threads, Recycle
<1>1. ASSUME NEW h \in Threads, KillLimits(h) PROVE NotForked'
  <2>1. /\ UNCHANGED <<cur, tsk, run_times>>
        /\ pc[h] = "kill"
        /\ \E p \in {"clean", "sub"} : pc' = [pc EXCEPT ![h] = p]
    BY <1>1 DEF KillLimits, tasks, others, local, At, Goto
  <2> QED
    BY <2>1, NotForkedStays DEF Late
<1>2. ASSUME NEW h \in Threads, task_clean_reboot(h) PROVE NotForked'
  <2>1. /\ UNCHANGED <<cur, tsk, run_times>>
        /\ pc[h] = "clean"
        /\ pc' = [pc EXCEPT ![h] = "tell"]
    BY <1>2 DEF task_clean_reboot, tasks, others, local, At, Goto
  <2> QED
    BY <2>1, NotForkedStays DEF Late
<1>3. ASSUME NEW h \in Threads, CountEnd(h) PROVE NotForked'
  <2>1. h = Recycle
    BY <1>3 DEF CountEnd, FromTheFirst, At, Threads, Recycle
  <2>2. UNCHANGED <<cur, run_times>> /\ pc'["main"] = pc["main"]
    BY <1>3, <2>1 DEF CountEnd, tasks, others, local, At, Goto, Recycle
  <2> QED
    BY <2>2, NotForkedStays
<1>4. ASSUME NEW h \in Threads, TELL_PARENT(h) PROVE NotForked'
  <2>1. /\ UNCHANGED <<cur, tsk, run_times>>
        /\ pc[h] = "tell"
        /\ \E p \in {"lastsub", "again"} : pc' = [pc EXCEPT ![h] = p]
    BY <1>4 DEF TELL_PARENT, others, local, At, Goto
  <2> QED
    BY <2>1, NotForkedStays DEF Late
<1>5. ASSUME NEW h \in Threads, LockTask(h) PROVE NotForked'
  <2>1. /\ UNCHANGED <<cur, tsk, run_times>>
        /\ pc[h] = "lock"
        /\ \E p \in {"reboot", "last"} : pc' = [pc EXCEPT ![h] = p]
    BY <1>5 DEF LockTask, rest, tasks, At, Goto
  <2> QED
    BY <2>1, NotForkedStays DEF Late
<1>6. ASSUME NEW h \in Threads, task_init_reboot_mode(h) PROVE NotForked'
  <2>1. UNCHANGED <<cur, tsk>> /\ pc[h] = "reboot" /\ T(h) \in Tasks
    BY <1>6 DEF task_init_reboot_mode, T, At
  <2>2. \E p \in {"status", "unlock"} : pc' = [pc EXCEPT ![h] = p]
    BY <1>6 DEF task_init_reboot_mode, Leave, Goto
  <2>3. \A t \in Tasks : t # T(h) => run_times'[t] = run_times[t]
    <3>1. UNCHANGED run_times \/ run_times' = [run_times EXCEPT ![T(h)] = reboot_run_times]
      BY <1>6 DEF task_init_reboot_mode, ResumeAt
    <3> QED
      BY <2>1, <3>1
  <2>4. CASE h = "main"
    BY <2>1, <2>2, <2>4, NotForkedStays DEF Late
  <2>5. CASE h = Recycle
    <3>1. tsk = cur => pc["main"] \notin {"fork", "record"}
      BY <2>1, <2>5 DEF HandRuns, Meet, Hands, Doing
    <3>2. pc["main"] \in {"fork", "record"} => run_times'[cur] = run_times[cur]
      BY <2>1, <2>3, <2>5, <3>1 DEF T
    <3>3. pc'["main"] = pc["main"]
      BY <2>2, <2>5
    <3> QED
      BY <2>1, <3>2, <3>3, NotForkedStays
  <2> QED
    BY <2>4, <2>5
<1>7. ASSUME NEW h \in Threads, task_create_reboot_status(h) PROVE NotForked'
  <2>1. /\ UNCHANGED <<cur, tsk, run_times>>
        /\ pc[h] \in {"status", "fill"}
        /\ \E p \in {"fill", "last", "unlock"} : pc' = [pc EXCEPT ![h] = p]
    BY <1>7 DEF task_create_reboot_status, tasks, Leave, At, Goto
  <2> QED
    BY <2>1, NotForkedStays DEF Late
<1>8. ASSUME NEW h \in Threads, LastTimes(h) PROVE NotForked'
  <2>1. /\ UNCHANGED <<cur, tsk, run_times>>
        /\ pc[h] = "last"
        /\ \E p \in {"limits", "kill", "lastsub"} : pc' = [pc EXCEPT ![h] = p]
    BY <1>8 DEF LastTimes, others, local, rest, tasks, At, Goto
  <2> QED
    BY <2>1, NotForkedStays DEF Late
<1>9. ASSUME NEW h \in Threads, LastSub(h) PROVE NotForked'
  <2>1. /\ UNCHANGED <<cur, tsk, run_times>>
        /\ pc[h] = "lastsub"
        /\ pc' = [pc EXCEPT ![h] = "unlock"]
    BY <1>9 DEF LastSub, tasks, Leave, At, Goto
  <2> QED
    BY <2>1, NotForkedStays DEF Late
<1>10. ASSUME NEW h \in Threads, DoLimits(h) PROVE NotForked'
  <2>1. /\ UNCHANGED <<cur, tsk, run_times>>
        /\ pc[h] = "limits"
        /\ \E p \in {"fork", "unlock"} : pc' = [pc EXCEPT ![h] = p]
    BY <1>10 DEF DoLimits, Leave, At, Goto
  <2> QED
    BY <2>1, NotForkedStays DEF Late
<1>11. ASSUME NEW h \in Threads, ForkTestcase(h) PROVE NotForked'
  BY <1>11 DEF Unforked
<1>12. ASSUME NEW h \in Threads, RecordPid(h) PROVE NotForked'
  <2>1. UNCHANGED <<cur, tsk>> /\ pc[h] = "record" /\ T(h) \in Tasks
    BY <1>12 DEF RecordPid, T, At
  <2>2. run_times' = [run_times EXCEPT ![T(h)] = run_times[T(h)] + 1]
    BY <1>12 DEF RecordPid
  <2>3. \E p \in {"fork", "unlock"} : pc' = [pc EXCEPT ![h] = p]
    BY <1>12 DEF RecordPid, Leave, Goto
  <2>4. CASE h = "main"
    <3>1. \A k \in Slots : k >= run_times'[cur] => k > run_times[cur]
      BY <2>1, <2>2, <2>4, SlotsNat DEF T
    <3>2. pc["main"] = "record" /\ pc'["main"] \in {"fork", "unlock"}
      BY <2>1, <2>3, <2>4
    <3>3. \A t \in Tasks : t > cur => \A k \in Slots : proc'[t][k] = "none"
      BY DEF NotForked, Aging
    <3>4. cur \in Tasks /\ \A k \in Slots : k > run_times[cur] => proc'[cur][k] = "none"
      BY <2>1, <2>4, <3>2 DEF NotForked, Aging, T
    <3> QED
      BY <2>1, <3>1, <3>2, <3>3, <3>4 DEF NotForked, Late
  <2>5. CASE h = Recycle
    <3>1. tsk = cur => pc["main"] \notin {"fork", "record"}
      BY <2>1, <2>5 DEF HandRuns, Meet, Hands, Doing
    <3>2. pc["main"] \in {"fork", "record"} => run_times'[cur] = run_times[cur]
      BY <2>1, <2>2, <2>5, <3>1 DEF T
    <3>3. pc'["main"] = pc["main"]
      BY <2>3, <2>5
    <3> QED
      BY <2>1, <3>2, <3>3, NotForkedStays
  <2> QED
    BY <2>4, <2>5
<1>13. ASSUME NEW h \in Threads, UnlockTask(h) PROVE NotForked'
  <2>1. /\ UNCHANGED <<cur, run_times>>
        /\ pc[h] = "unlock"
        /\ pc' = [pc EXCEPT ![h] = IF h = Recycle THEN "again" ELSE IF ret[h] THEN "started" ELSE "failed"]
    BY <1>13 DEF UnlockTask, rest, tasks, At, Goto
  <2> QED
    BY <2>1, NotForkedStays DEF Late
<1>14. CASE ListTop
  <2>1. /\ UNCHANGED <<cur, tsk, run_times>>
        /\ pc["main"] = "list"
        /\ \E p \in {"join", "wait", "alone"} : pc' = [pc EXCEPT !["main"] = p]
    BY <1>14 DEF ListTop, others, local, rest, tasks, At, Goto
  <2> QED
    BY <2>1, NotForkedStays DEF Late
<1>15. CASE WAIT_CHILD
  <2>1. /\ UNCHANGED <<cur, tsk, run_times>>
        /\ pc["main"] = "wait"
        /\ pc' = [pc EXCEPT !["main"] = "list"]
    BY <1>15 DEF WAIT_CHILD, tasks, others, local, At, Goto
  <2> QED
    BY <2>1, NotForkedStays DEF Late
<1>16. CASE BeginTask
  <2>1. CASE cur' = cur + 1 /\ pc' = [pc EXCEPT !["main"] = "list"]
    BY <2>1, NotForkedNext
  <2>2. CASE cur' = cur /\ pc' = [pc EXCEPT !["main"] = "lock"]
    <3>1. pc["main"] = "alone" /\ UNCHANGED run_times
      BY <1>16 DEF BeginTask, At
    <3> QED
      BY <2>2, <3>1, NotForkedStays DEF Late
  <2> QED
    BY <1>16, <2>1, <2>2 DEF BeginTask, NextTask, Goto
<1>17. CASE TaskStarted
  <2>1. /\ UNCHANGED <<cur, tsk, run_times>>
        /\ pc["main"] = "started"
        /\ pc' = [pc EXCEPT !["main"] = "after"]
    BY <1>17 DEF TaskStarted, tasks, others, local, At, Goto
  <2> QED
    BY <2>1, NotForkedStays DEF Late
<1>18. CASE TaskFailed
  BY <1>18, NotForkedNext DEF TaskFailed, NextTask, Goto
<1>19. CASE WaitAlone
  BY <1>19, NotForkedNext DEF WaitAlone, NextTask, Goto
<1>20. CASE task_quit_clean
  <2>1. /\ UNCHANGED <<pc, cur, tsk, run_times>>
        /\ pc["main"] = "join"
    BY <1>20 DEF task_quit_clean, sched, rest, tasks, At, Goto
  <2> QED
    BY <2>1, NotForkedStays DEF Late
<1>21. CASE RecycleTop
  <2>1. /\ UNCHANGED <<cur, tsk, run_times>>
        /\ pc[Recycle] = "top"
        /\ \E p \in {"exit", "wait4"} : pc' = [pc EXCEPT ![Recycle] = p]
    BY <1>21 DEF RecycleTop, others, local, rest, tasks, At, Goto
  <2> QED
    BY <2>1, NotForkedStays
<1>22. CASE wait4
  <2>1. /\ UNCHANGED <<cur, tsk, run_times>>
        /\ pc[Recycle] = "wait4"
        /\ \E p \in {"match", "top"} : pc' = [pc EXCEPT ![Recycle] = p]
    BY <1>22 DEF wait4, tasks, At, Goto
  <2> QED
    BY <2>1, NotForkedStays
<1>23. CASE MatchLeader
  <2>1. /\ UNCHANGED <<cur, tsk, run_times>>
        /\ pc[Recycle] = "match"
        /\ pc' = [pc EXCEPT ![Recycle] = "top"]
    BY <1>23 DEF MatchLeader, local, At, Goto
  <2> QED
    BY <2>1, NotForkedStays
<1>24. CASE task_recycle_once
  <2>1. /\ UNCHANGED <<cur, run_times>>
        /\ pc[Recycle] = "match"
        /\ pc' = [pc EXCEPT ![Recycle] = "check"]
    BY <1>24 DEF task_recycle_once, At, Goto
  <2> QED
    BY <2>1, NotForkedStays
<1>25. CASE NoMatch
  <2>1. /\ UNCHANGED <<cur, tsk, run_times>>
        /\ pc[Recycle] = "match"
        /\ pc' = [pc EXCEPT ![Recycle] = "top"]
    BY <1>25 DEF NoMatch, tasks, local, At, Goto
  <2> QED
    BY <2>1, NotForkedStays
<1>26. CASE task_check_end
  <2>1. /\ UNCHANGED <<cur, tsk, run_times>>
        /\ pc[Recycle] = "check"
        /\ \E p \in {"kill", "again", "lock"} : pc' = [pc EXCEPT ![Recycle] = p]
    BY <1>26 DEF task_check_end, others, local, rest, tasks, At, Goto
  <2> QED
    BY <2>1, NotForkedStays
<1>27. CASE Again
  <2>1. /\ UNCHANGED <<cur, tsk, run_times>>
        /\ pc[Recycle] = "again"
        /\ \E p \in {"exit", "top"} : pc' = [pc EXCEPT ![Recycle] = p]
    BY <1>27 DEF Again, local, rest, tasks, At, Goto
  <2> QED
    BY <2>1, NotForkedStays
<1>28. ASSUME NEW t \in Tasks, OnceLimit(t) PROVE NotForked'
  <2>1. UNCHANGED <<pc, cur, tsk, run_times>>
    BY <1>28 DEF OnceLimit, sched, tasks, At, Goto
  <2> QED
    BY <2>1, NotForkedStays
<1>29. ASSUME NEW t \in Tasks, WholeLimit(t) PROVE NotForked'
  <2>1. UNCHANGED <<pc, cur, tsk, run_times>>
    BY <1>29 DEF WholeLimit, sched, At, Goto
  <2> QED
    BY <2>1, NotForkedStays
<1>30. ASSUME NEW t \in Tasks, NEW k \in Slots, Exit(t, k) PROVE NotForked'
  <2>1. UNCHANGED <<pc, cur, tsk, run_times>>
    BY <1>30 DEF Exit, sched, tasks, At, Goto
  <2> QED
    BY <2>1, NotForkedStays
<1>31. CASE task_signal_quit
  <2>1. UNCHANGED <<pc, cur, tsk, run_times>>
    BY <1>31 DEF task_signal_quit, sched, tasks, At, Goto
  <2> QED
    BY <2>1, NotForkedStays
<1>32. CASE PowerOff
  <2>1. UNCHANGED <<pc, cur, tsk, run_times>>
    BY <1>32 DEF PowerOff, sched, tasks, At, Goto
  <2> QED
    BY <2>1, NotForkedStays
<1>33. CASE task_recover_after_reboot
  BY <1>33 DEF Unforked
<1>34. CASE Stopped \/ UNCHANGED vars
  <2>1. UNCHANGED <<pc, cur, tsk, run_times>>
    BY <1>34 DEF Stopped, vars
  <2> QED
    BY <2>1, NotForkedStays
<1>35. CASE task_do_crash
  <2>1. UNCHANGED <<pc, cur, tsk, run_times>>
    BY <1>35 DEF task_do_crash, sched, tasks, At, Goto
  <2> QED
    BY <2>1, NotForkedStays
<1> QED
  BY <1>1, <1>2, <1>3, <1>4, <1>5, <1>6, <1>7, <1>8, <1>9, <1>10, <1>11, <1>12, <1>13, <1>14,
     <1>15, <1>16, <1>17, <1>18, <1>19, <1>20, <1>21, <1>22, <1>23, <1>24, <1>25, <1>26, <1>27,
     <1>28, <1>29, <1>30, <1>31, <1>32, <1>33, <1>34, <1>35
  DEF Next, Main, Recycler, Thread, task_begin, task_recycle, task_do, task_recycle_end, Threads,
      Recycle


\* What the fork of a run, or its failure, does.
LEMMA ForkCases ==
  ASSUME RunType, PlaceTypes, ProcTypes, NEW h \in Threads, ForkTestcase(h)
  PROVE  /\ T(h) \in Tasks /\ pc[h] = "fork"
         /\ UNCHANGED <<cur, tsk, got, status, run_times, pid, tool, reboot_mode, fboot, sfile>>
         /\ \/ /\ pc' = [pc EXCEPT ![h] = "record"] /\ UNCHANGED <<ret, leader>>
               /\ proc'[T(h)] = [proc[T(h)] EXCEPT ![run_times[T(h)]] =
                                   IF leader[T(h)] = "gone" THEN "fail" ELSE "alive"]
               /\ \A t \in Tasks : t # T(h) => proc'[t] = proc[t]
            \/ /\ pc' = [pc EXCEPT ![h] = "unlock"] /\ ret' = [ret EXCEPT ![h] = FALSE]
               /\ Aging /\ \A k \in Slots : proc'[T(h)][k] # "alive"
<1>1. T(h) \in Tasks /\ pc[h] = "fork"
  BY DEF ForkTestcase, At, T, RunType, Threads
<1>2. UNCHANGED <<cur, tsk, got, status, run_times, pid, tool, reboot_mode, fboot, sfile>>
  BY DEF ForkTestcase, tasks, reboots, flash
<1>3. CASE kill(T(h), "fail") /\ Leave(h, FALSE)
  BY <1>1, <1>2, <1>3, KillAges DEF Leave, Goto, Zombies
<1>4. CASE ~(kill(T(h), "fail") /\ Leave(h, FALSE))
  <2>1. /\ proc' = [proc EXCEPT ![T(h)][run_times[T(h)]] = IF leader[T(h)] = "gone" THEN "fail" ELSE "alive"]
        /\ pc' = [pc EXCEPT ![h] = "record"] /\ UNCHANGED <<ret, leader>>
    BY <1>4 DEF ForkTestcase, Goto
  <2>2. /\ proc'[T(h)] = [proc[T(h)] EXCEPT ![run_times[T(h)]] = IF leader[T(h)] = "gone" THEN "fail" ELSE "alive"]
        /\ \A t \in Tasks : t # T(h) => proc'[t] = proc[t]
    BY <1>1, <2>1 DEF ProcTypes
  <2> QED
    BY <1>1, <1>2, <2>1, <2>2
<1> QED
  BY <1>3, <1>4

\* What was not forked is not there: the fork.
LEMMA NotForkedFork ==
  ASSUME RunType, PlaceTypes, ProcTypes, Meet, HandRuns, NotForked, NEW h \in Threads, ForkTestcase(h)
  PROVE  NotForked'
<1>1. DOMAIN pc = Threads /\ (pc["main"] \in {"fork", "record", "limits"} => cur \in Tasks) /\ \A t \in Tasks : t \in Int
  BY TinaAssumption DEF RunType, Tasks
<1>2. CASE pc' = [pc EXCEPT ![h] = "unlock"] /\ Aging
  BY <1>1, <1>2, ForkCases, NotForkedStays DEF Late, Threads
<1>3. CASE /\ pc' = [pc EXCEPT ![h] = "record"]
           /\ proc'[T(h)] = [proc[T(h)] EXCEPT ![run_times[T(h)]] = IF leader[T(h)] = "gone" THEN "fail" ELSE "alive"]
           /\ \A t \in Tasks : t # T(h) => proc'[t] = proc[t]
  <2>1. /\ T(h) \in Tasks /\ pc[h] = "fork" /\ UNCHANGED <<cur, run_times>>
        /\ cur \in Int /\ run_times[T(h)] \in Nat
    <3>1. T(h) \in Tasks /\ pc[h] = "fork" /\ UNCHANGED <<cur, run_times>>
      BY ForkCases
    <3>2. cur \in 1 .. (N + 1) /\ run_times \in [Tasks -> Nat]
      BY DEF RunType
    <3> QED
      BY <3>1, <3>2, TinaAssumption
  <2>2. \A k \in Slots : k # run_times[T(h)] => proc'[T(h)][k] = proc[T(h)][k]
    BY <1>3 DEF ProcTypes
  <2>3. CASE h = "main"
    <3>1. T(h) = cur /\ pc'["main"] = "record" /\ pc["main"] = "fork"
      BY <1>1, <1>3, <2>1, <2>3 DEF T
    <3>2. \A t \in Tasks : t > cur => \A k \in Slots : proc'[t][k] = "none"
      BY <1>1, <1>3, <2>1, <3>1 DEF NotForked
    <3>3. \A k \in Slots : k > run_times[cur] => proc'[cur][k] = "none"
      BY <2>1, <2>2, <3>1, SlotsNat DEF NotForked
    <3> QED
      BY <2>1, <3>1, <3>2, <3>3 DEF NotForked, Late
  <2>4. CASE h = Recycle
    <3>1. T(h) = tsk /\ pc'["main"] = pc["main"] /\ pc[Recycle] = "fork"
      BY <1>1, <1>3, <2>1, <2>4 DEF T, Recycle
    <3>2. tsk <= cur /\ (tsk = cur => pc["main"] \in Late \ {"fork", "record"}) /\ tsk \in Tasks
      BY <3>1 DEF Meet, Hands, Doing, HandRuns, Late
    <3>3. \A t \in Tasks : t # tsk => proc'[t] = proc[t]
      BY <1>3, <3>1
    <3>4. \A t \in Tasks : t > cur \/ (t = cur /\ pc["main"] \notin Late) => t # tsk
      BY <1>1, <2>1, <3>2
    <3>5. pc["main"] \in {"fork", "record"} => cur # tsk /\ cur \in Tasks
      BY <1>1, <3>2
    <3> QED
      BY <2>1, <3>1, <3>3, <3>4, <3>5 DEF NotForked
  <2> QED
    BY <2>3, <2>4 DEF Threads, Recycle
<1> QED
  BY <1>2, <1>3, ForkCases

\* The process whose death is in hand is not forked again.
LEMMA DeathFork ==
  ASSUME RunType, PlaceTypes, ProcTypes, NotForked, DeathOf, NEW h \in Threads, ForkTestcase(h)
  PROVE  DeathOf'
<1> SUFFICES ASSUME pc'[Recycle] = "match", got'[3] # "leader" PROVE proc'[got'[1]][got'[2]] = "gone"
  BY DEF DeathOf
<1>1. h = "main" /\ pc[Recycle] = "match" /\ UNCHANGED got
  BY ForkCases DEF RunType, Threads, Recycle
<1>2. PICK t \in Tasks, k \in Slots : t = got[1] /\ k = got[2]
  BY <1>1 DEF RunType
<1>3. proc[t][k] = "gone"
  BY <1>1, <1>2 DEF DeathOf
<1>4. ~(t = cur /\ k = run_times[cur])
  <2>1. pc["main"] = "fork"
    BY <1>1, ForkCases
  <2>2. run_times[t] \in Nat
    BY DEF RunType
  <2> QED
    BY <1>3, <2>1, <2>2, SlotsNat DEF NotForked
<1>5. CASE Aging
  BY <1>1, <1>2, <1>3, <1>5 DEF Aging
<1>6. CASE ~Aging
  <2>1. /\ proc'[cur] = [proc[cur] EXCEPT ![run_times[cur]] = IF leader[cur] = "gone" THEN "fail" ELSE "alive"]
        /\ \A u \in Tasks : u # cur => proc'[u] = proc[u]
    BY <1>1, <1>6, ForkCases DEF T
  <2>2. t = cur => proc'[t][k] = proc[t][k]
    BY <1>4, <2>1 DEF ProcTypes
  <2> QED
    BY <1>1, <1>2, <1>3, <2>1, <2>2
<1> QED
  BY <1>5, <1>6

\* DeathOf, when the recycle thread stays where it is, or is not at a death.
LEMMA DeathStays ==
  ASSUME RunType, DeathOf, Aging,
         \/ pc'[Recycle] # "match"
         \/ pc'[Recycle] = pc[Recycle] /\ UNCHANGED got
  PROVE  DeathOf'
  BY DEF DeathOf, Aging, RunType

\* The steps that fork nothing.
LEMMA DeathAged ==
  ASSUME RunType, ProcTypes, DeathOf, Aging, Unforked, [Next]_vars
  PROVE  DeathOf'
<1> USE TinaAssumption DEF RunType, Threads, Recycle
<1>1. ASSUME NEW h \in Threads, KillLimits(h) PROVE DeathOf'
  <2>1. /\ UNCHANGED <<got>>
        /\ pc[h] = "kill"
        /\ \E p \in {"clean", "sub"} : pc' = [pc EXCEPT ![h] = p]
    BY <1>1 DEF KillLimits, others, At, Goto
  <2> QED
    BY <2>1, DeathStays
<1>2. ASSUME NEW h \in Threads, task_clean_reboot(h) PROVE DeathOf'
  <2>1. /\ UNCHANGED <<got>>
        /\ pc[h] = "clean"
        /\ pc' = [pc EXCEPT ![h] = "tell"]
    BY <1>2 DEF task_clean_reboot, others, At, Goto
  <2> QED
    BY <2>1, DeathStays
<1>3. ASSUME NEW h \in Threads, CountEnd(h) PROVE DeathOf'
  <2>1. /\ UNCHANGED <<got>>
        /\ pc[h] = "sub"
        /\ pc' = [pc EXCEPT ![h] = "tell"]
    BY <1>3 DEF CountEnd, others, At, Goto
  <2> QED
    BY <2>1, DeathStays
<1>4. ASSUME NEW h \in Threads, TELL_PARENT(h) PROVE DeathOf'
  <2>1. /\ UNCHANGED <<got>>
        /\ pc[h] = "tell"
        /\ \E p \in {"lastsub", "again"} : pc' = [pc EXCEPT ![h] = p]
    BY <1>4 DEF TELL_PARENT, others, At, Goto
  <2> QED
    BY <2>1, DeathStays
<1>5. ASSUME NEW h \in Threads, LockTask(h) PROVE DeathOf'
  <2>1. /\ UNCHANGED <<got>>
        /\ pc[h] = "lock"
        /\ \E p \in {"reboot", "last"} : pc' = [pc EXCEPT ![h] = p]
    BY <1>5 DEF LockTask, At, Goto
  <2> QED
    BY <2>1, DeathStays
<1>6. ASSUME NEW h \in Threads, task_init_reboot_mode(h) PROVE DeathOf'
  <2>1. /\ UNCHANGED <<got>>
        /\ pc[h] = "reboot"
        /\ \E p \in {"status", "unlock"} : pc' = [pc EXCEPT ![h] = p]
    BY <1>6 DEF task_init_reboot_mode, Leave, At, Goto
  <2> QED
    BY <2>1, DeathStays
<1>7. ASSUME NEW h \in Threads, task_create_reboot_status(h) PROVE DeathOf'
  <2>1. /\ UNCHANGED <<got>>
        /\ pc[h] \in {"status", "fill"}
        /\ \E p \in {"fill", "last", "unlock"} : pc' = [pc EXCEPT ![h] = p]
    BY <1>7 DEF task_create_reboot_status, Leave, At, Goto
  <2> QED
    BY <2>1, DeathStays
<1>8. ASSUME NEW h \in Threads, LastTimes(h) PROVE DeathOf'
  <2>1. /\ UNCHANGED <<got>>
        /\ pc[h] = "last"
        /\ \E p \in {"limits", "kill", "lastsub"} : pc' = [pc EXCEPT ![h] = p]
    BY <1>8 DEF LastTimes, others, At, Goto
  <2> QED
    BY <2>1, DeathStays
<1>9. ASSUME NEW h \in Threads, LastSub(h) PROVE DeathOf'
  <2>1. /\ UNCHANGED <<got>>
        /\ pc[h] = "lastsub"
        /\ pc' = [pc EXCEPT ![h] = "unlock"]
    BY <1>9 DEF LastSub, Leave, At, Goto
  <2> QED
    BY <2>1, DeathStays
<1>10. ASSUME NEW h \in Threads, DoLimits(h) PROVE DeathOf'
  <2>1. /\ UNCHANGED <<got>>
        /\ pc[h] = "limits"
        /\ \E p \in {"fork", "unlock"} : pc' = [pc EXCEPT ![h] = p]
    BY <1>10 DEF DoLimits, Leave, At, Goto
  <2> QED
    BY <2>1, DeathStays
<1>11. ASSUME NEW h \in Threads, ForkTestcase(h) PROVE DeathOf'
  BY <1>11 DEF Unforked
<1>12. ASSUME NEW h \in Threads, RecordPid(h) PROVE DeathOf'
  <2>1. /\ UNCHANGED <<got>>
        /\ pc[h] = "record"
        /\ \E p \in {"fork", "unlock"} : pc' = [pc EXCEPT ![h] = p]
    BY <1>12 DEF RecordPid, Leave, At, Goto
  <2> QED
    BY <2>1, DeathStays
<1>13. ASSUME NEW h \in Threads, UnlockTask(h) PROVE DeathOf'
  <2>1. /\ UNCHANGED <<got>>
        /\ pc[h] = "unlock"
        /\ \E p \in {"again", "started", "failed"} : pc' = [pc EXCEPT ![h] = p]
    BY <1>13 DEF UnlockTask, At, Goto
  <2> QED
    BY <2>1, DeathStays
<1>14. CASE ListTop
  <2>1. /\ UNCHANGED <<got>>
        /\ pc["main"] = "list"
        /\ \E p \in {"join", "wait", "alone"} : pc' = [pc EXCEPT !["main"] = p]
    BY <1>14 DEF ListTop, others, At, Goto
  <2> QED
    BY <2>1, DeathStays
<1>15. CASE WAIT_CHILD
  <2>1. /\ UNCHANGED <<got>>
        /\ pc["main"] = "wait"
        /\ pc' = [pc EXCEPT !["main"] = "list"]
    BY <1>15 DEF WAIT_CHILD, others, At, Goto
  <2> QED
    BY <2>1, DeathStays
<1>16. CASE BeginTask
  <2>1. /\ UNCHANGED <<got>>
        /\ pc["main"] = "alone"
        /\ \E p \in {"list", "lock"} : pc' = [pc EXCEPT !["main"] = p]
    BY <1>16 DEF BeginTask, NextTask, At, Goto
  <2> QED
    BY <2>1, DeathStays
<1>17. CASE TaskStarted
  <2>1. /\ UNCHANGED <<got>>
        /\ pc["main"] = "started"
        /\ pc' = [pc EXCEPT !["main"] = "after"]
    BY <1>17 DEF TaskStarted, others, At, Goto
  <2> QED
    BY <2>1, DeathStays
<1>18. CASE TaskFailed
  <2>1. /\ UNCHANGED <<got>>
        /\ pc["main"] = "failed"
        /\ pc' = [pc EXCEPT !["main"] = "list"]
    BY <1>18 DEF TaskFailed, NextTask, At, Goto
  <2> QED
    BY <2>1, DeathStays
<1>19. CASE WaitAlone
  <2>1. /\ UNCHANGED <<got>>
        /\ pc["main"] = "after"
        /\ pc' = [pc EXCEPT !["main"] = "list"]
    BY <1>19 DEF WaitAlone, NextTask, At, Goto
  <2> QED
    BY <2>1, DeathStays
<1>20. CASE task_quit_clean
  <2>1. /\ UNCHANGED <<pc, got>>
        /\ pc["main"] = "join"
    BY <1>20 DEF task_quit_clean, sched, At, Goto
  <2> QED
    BY <2>1, DeathStays
<1>21. CASE RecycleTop
  <2>1. /\ UNCHANGED <<got>>
        /\ pc[Recycle] = "top"
        /\ \E p \in {"exit", "wait4"} : pc' = [pc EXCEPT ![Recycle] = p]
    BY <1>21 DEF RecycleTop, others, At, Goto
  <2> QED
    BY <2>1, DeathStays
<1>22. CASE wait4
  <2>1. CASE \E t \in Tasks, k \in Slots : /\ proc[t][k] \in Zombies
                                           /\ got' = <<t, k, proc[t][k]>>
                                           /\ proc' = [proc EXCEPT ![t][k] = "gone"]
    BY <2>1 DEF ProcTypes, DeathOf
  <2>2. CASE \E t \in Tasks : got' = <<t, 0, "leader">>
    BY <2>2 DEF DeathOf
  <2>3. CASE pc' = [pc EXCEPT ![Recycle] = "top"]
    BY <2>3 DEF DeathOf
  <2> QED
    BY <1>22, <2>1, <2>2, <2>3 DEF wait4, Goto
<1>23. CASE MatchLeader
  BY <1>23 DEF MatchLeader, Goto, DeathOf
<1>24. CASE task_recycle_once
  <2>1. /\ UNCHANGED <<got>>
        /\ pc[Recycle] = "match"
        /\ pc' = [pc EXCEPT ![Recycle] = "check"]
    BY <1>24 DEF task_recycle_once, At, Goto
  <2> QED
    BY <2>1, DeathStays
<1>25. CASE NoMatch
  BY <1>25 DEF NoMatch, Goto, DeathOf
<1>26. CASE task_check_end
  <2>1. /\ UNCHANGED <<got>>
        /\ pc[Recycle] = "check"
        /\ \E p \in {"kill", "again", "lock"} : pc' = [pc EXCEPT ![Recycle] = p]
    BY <1>26 DEF task_check_end, others, At, Goto
  <2> QED
    BY <2>1, DeathStays
<1>27. CASE Again
  BY <1>27 DEF Again, Goto, DeathOf
<1>28. ASSUME NEW t \in Tasks, OnceLimit(t) PROVE DeathOf'
  <2>1. UNCHANGED <<pc, got>>
    BY <1>28 DEF OnceLimit, sched, At, Goto
  <2> QED
    BY <2>1, DeathStays
<1>29. ASSUME NEW t \in Tasks, WholeLimit(t) PROVE DeathOf'
  <2>1. UNCHANGED <<pc, got>>
    BY <1>29 DEF WholeLimit, sched, At, Goto
  <2> QED
    BY <2>1, DeathStays
<1>30. ASSUME NEW t \in Tasks, NEW k \in Slots, Exit(t, k) PROVE DeathOf'
  <2>1. UNCHANGED <<pc, got>>
    BY <1>30 DEF Exit, sched, At, Goto
  <2> QED
    BY <2>1, DeathStays
<1>31. CASE task_signal_quit
  <2>1. UNCHANGED <<pc, got>>
    BY <1>31 DEF task_signal_quit, sched, At, Goto
  <2> QED
    BY <2>1, DeathStays
<1>32. CASE PowerOff
  <2>1. UNCHANGED <<pc, got>>
    BY <1>32 DEF PowerOff, sched, At, Goto
  <2> QED
    BY <2>1, DeathStays
<1>33. CASE task_recover_after_reboot
  BY <1>33 DEF Unforked
<1>34. CASE Stopped \/ UNCHANGED vars
  <2>1. UNCHANGED <<pc, got>>
    BY <1>34 DEF Stopped, vars
  <2> QED
    BY <2>1, DeathStays
<1>35. CASE task_do_crash
  <2>1. UNCHANGED <<pc, got>>
    BY <1>35 DEF task_do_crash, sched, At, Goto
  <2> QED
    BY <2>1, DeathStays
<1> QED
  BY <1>1, <1>2, <1>3, <1>4, <1>5, <1>6, <1>7, <1>8, <1>9, <1>10, <1>11, <1>12, <1>13, <1>14,
     <1>15, <1>16, <1>17, <1>18, <1>19, <1>20, <1>21, <1>22, <1>23, <1>24, <1>25, <1>26, <1>27,
     <1>28, <1>29, <1>30, <1>31, <1>32, <1>33, <1>34, <1>35
  DEF Next, Main, Recycler, Thread, task_begin, task_recycle, task_do, task_recycle_end, Threads,
      Recycle


\* A run that is recorded and not done is the last one.
LEMMA OneSetKept ==
  ASSUME RunInv, RunType, Meet, OneSet, [Next]_vars
  PROVE  OneSet'
<1> USE TinaAssumption DEF IsLastRun, Hands, Doing, Ending, RunType, Threads, Recycle
<1> SUFFICES ASSUME NEW u \in Tasks, ~Env[u].run_parallel, NEW j \in Slots, pid'[u][j] = "set"
             PROVE  IsLastRun(u, j)'
  BY DEF OneSet
<1>a. \A k \in Slots : pid[u][k] = "set" => k + 1 = run_times[u] /\ ~(tsk = u /\ pc[Recycle] \in Hands)
  BY DEF OneSet
<1>1. ASSUME NEW h \in Threads, KillLimits(h) PROVE IsLastRun(u, j)'
  <2>1. /\ UNCHANGED <<cur, tsk, run_times, pid>>
        /\ pc[h] = "kill"
        /\ \E p \in {"clean", "sub"} : pc' = [pc EXCEPT ![h] = p]
    BY <1>1 DEF KillLimits, tasks, others, local, At, Goto
  <2> QED
    BY <2>1, <1>a
<1>2. ASSUME NEW h \in Threads, task_clean_reboot(h) PROVE IsLastRun(u, j)'
  <2>1. /\ UNCHANGED <<cur, tsk, run_times, pid>>
        /\ pc[h] = "clean"
        /\ pc' = [pc EXCEPT ![h] = "tell"]
    BY <1>2 DEF task_clean_reboot, tasks, others, local, At, Goto
  <2> QED
    BY <2>1, <1>a
<1>3. ASSUME NEW h \in Threads, CountEnd(h) PROVE IsLastRun(u, j)'
  <2>1. /\ UNCHANGED <<cur, tsk, run_times, pid>>
        /\ pc[h] = "sub"
        /\ pc' = [pc EXCEPT ![h] = "tell"]
    BY <1>3 DEF CountEnd, tasks, others, local, At, Goto
  <2> QED
    BY <2>1, <1>a
<1>4. ASSUME NEW h \in Threads, TELL_PARENT(h) PROVE IsLastRun(u, j)'
  <2>1. /\ UNCHANGED <<cur, tsk, run_times, pid>>
        /\ pc[h] = "tell"
        /\ \E p \in {"lastsub", "again"} : pc' = [pc EXCEPT ![h] = p]
    BY <1>4 DEF TELL_PARENT, others, local, At, Goto
  <2> QED
    BY <2>1, <1>a
<1>5. ASSUME NEW h \in Threads, LockTask(h) PROVE IsLastRun(u, j)'
  <2>1. /\ UNCHANGED <<cur, tsk, run_times, pid>>
        /\ pc[h] = "lock"
        /\ \E p \in {"reboot", "last"} : pc' = [pc EXCEPT ![h] = p]
    BY <1>5 DEF LockTask, rest, tasks, At, Goto
  <2> QED
    BY <2>1, <1>a
<1>6. ASSUME NEW h \in Threads, task_init_reboot_mode(h) PROVE IsLastRun(u, j)'
  <2>1. UNCHANGED <<cur, tsk, pid>> /\ pc[h] = "reboot" /\ T(h) \in Tasks
    BY <1>6 DEF task_init_reboot_mode, T, At
  <2>2. \E p \in {"status", "unlock"} : pc' = [pc EXCEPT ![h] = p]
    BY <1>6 DEF task_init_reboot_mode, Leave, Goto
  <2>3. UNCHANGED run_times \/ run_times' = [run_times EXCEPT ![T(h)] = reboot_run_times]
    BY <1>6 DEF task_init_reboot_mode, ResumeAt
  <2>4. u # T(h)
    <3>1. CASE h = "main"
      BY <1>a, <2>1, <3>1 DEF T, RunInv, Fresh, Early
    <3>2. CASE h = Recycle
      BY <1>a, <2>1, <3>2 DEF T
    <3> QED
      BY <3>1, <3>2
  <2> QED
    BY <1>a, <2>1, <2>2, <2>3, <2>4
<1>7. ASSUME NEW h \in Threads, task_create_reboot_status(h) PROVE IsLastRun(u, j)'
  <2>1. /\ UNCHANGED <<cur, tsk, run_times, pid>>
        /\ pc[h] \in {"status", "fill"}
        /\ \E p \in {"fill", "last", "unlock"} : pc' = [pc EXCEPT ![h] = p]
    BY <1>7 DEF task_create_reboot_status, tasks, Leave, At, Goto
  <2> QED
    BY <2>1, <1>a
<1>8. ASSUME NEW h \in Threads, LastTimes(h) PROVE IsLastRun(u, j)'
  <2>1. /\ UNCHANGED <<cur, tsk, run_times, pid>>
        /\ pc[h] = "last"
        /\ \E p \in {"limits", "kill", "lastsub"} : pc' = [pc EXCEPT ![h] = p]
    BY <1>8 DEF LastTimes, others, local, rest, tasks, At, Goto
  <2> QED
    BY <2>1, <1>a
<1>9. ASSUME NEW h \in Threads, LastSub(h) PROVE IsLastRun(u, j)'
  <2>1. /\ UNCHANGED <<cur, tsk, run_times, pid>>
        /\ pc[h] = "lastsub"
        /\ pc' = [pc EXCEPT ![h] = "unlock"]
    BY <1>9 DEF LastSub, tasks, Leave, At, Goto
  <2> QED
    BY <2>1, <1>a
<1>10. ASSUME NEW h \in Threads, DoLimits(h) PROVE IsLastRun(u, j)'
  <2>1. /\ UNCHANGED <<cur, tsk, run_times, pid>>
        /\ pc[h] = "limits"
        /\ \E p \in {"fork", "unlock"} : pc' = [pc EXCEPT ![h] = p]
    BY <1>10 DEF DoLimits, Leave, At, Goto
  <2> QED
    BY <2>1, <1>a
<1>11. ASSUME NEW h \in Threads, ForkTestcase(h) PROVE IsLastRun(u, j)'
  <2>1. /\ UNCHANGED <<cur, tsk, run_times, pid>>
        /\ pc[h] = "fork"
        /\ \E p \in {"record", "unlock"} : pc' = [pc EXCEPT ![h] = p]
    BY <1>11 DEF ForkTestcase, tasks, Leave, At, Goto
  <2> QED
    BY <2>1, <1>a
<1>12. ASSUME NEW h \in Threads, RecordPid(h) PROVE IsLastRun(u, j)'
  <2>1. UNCHANGED <<cur, tsk>> /\ pc[h] = "record" /\ T(h) \in Tasks
    BY <1>12 DEF RecordPid, T, At
  <2>2. \E p \in {"fork", "unlock"} : pc' = [pc EXCEPT ![h] = p]
    BY <1>12 DEF RecordPid, Leave, Goto
  <2>3. run_times' = [run_times EXCEPT ![T(h)] = run_times[T(h)] + 1]
    BY <1>12 DEF RecordPid
  <2>4. \A t \in Tasks, k \in Slots : ~(t = T(h) /\ k = run_times[T(h)]) => pid'[t][k] = pid[t][k]
    BY <1>12, <2>1 DEF RecordPid
  <2>5. CASE u # T(h)
    BY <1>a, <2>1, <2>2, <2>3, <2>4, <2>5
  <2>6. CASE u = T(h)
    <3>1. \A k \in Slots : pid[u][k] # "set"
      <4>1. CASE h = "main"
        BY <2>1, <2>6, <4>1 DEF T, RunInv, Fresh, Early
      <4>2. CASE h = Recycle
        BY <1>a, <2>1, <2>6, <4>2 DEF T
      <4> QED
        BY <4>1, <4>2
    <3>2. j = run_times[u]
      BY <2>1, <2>4, <2>6, <3>1
    <3>3. j + 1 = run_times'[u]
      BY <2>1, <2>3, <2>6, <3>2
    <3>4. ~(tsk' = u /\ pc'[Recycle] \in Hands)
      <4>1. CASE h = "main"
        <5>1. cur = u /\ pc["main"] = "record"
          BY <2>1, <2>6, <4>1 DEF T
        <5>2. pc[Recycle] \in Hands => tsk # u
          BY <5>1 DEF Meet
        <5> QED
          BY <2>1, <2>2, <4>1, <5>2
      <4>2. CASE h = Recycle
        <5>1. ~Env[T(h)].run_parallel
          BY <2>6
        <5>2. pc' = [pc EXCEPT ![Recycle] = "unlock"]
          BY <1>12, <4>2, <5>1 DEF RecordPid, Leave, Goto
        <5> QED
          BY <5>2
      <4> QED
        BY <4>1, <4>2
    <3> QED
      BY <3>3, <3>4
  <2> QED
    BY <2>5, <2>6
<1>13. ASSUME NEW h \in Threads, UnlockTask(h) PROVE IsLastRun(u, j)'
  <2>1. /\ UNCHANGED <<cur, tsk, run_times, pid>>
        /\ pc[h] = "unlock"
        /\ \E p \in {"again", "started", "failed"} : pc' = [pc EXCEPT ![h] = p]
    BY <1>13 DEF UnlockTask, rest, tasks, At, Goto
  <2> QED
    BY <2>1, <1>a
<1>14. CASE ListTop
  <2>1. /\ UNCHANGED <<cur, tsk, run_times, pid>>
        /\ pc["main"] = "list"
        /\ \E p \in {"join", "wait", "alone"} : pc' = [pc EXCEPT !["main"] = p]
    BY <1>14 DEF ListTop, others, local, rest, tasks, At, Goto
  <2> QED
    BY <2>1, <1>a
<1>15. CASE WAIT_CHILD
  <2>1. /\ UNCHANGED <<cur, tsk, run_times, pid>>
        /\ pc["main"] = "wait"
        /\ pc' = [pc EXCEPT !["main"] = "list"]
    BY <1>15 DEF WAIT_CHILD, tasks, others, local, At, Goto
  <2> QED
    BY <2>1, <1>a
<1>16. CASE BeginTask
  <2>1. /\ UNCHANGED <<tsk, run_times, pid>>
        /\ pc["main"] = "alone"
        /\ \E p \in {"list", "lock"} : pc' = [pc EXCEPT !["main"] = p]
    BY <1>16 DEF BeginTask, NextTask, At, Goto
  <2> QED
    BY <2>1, <1>a
<1>17. CASE TaskStarted
  <2>1. /\ UNCHANGED <<cur, tsk, run_times, pid>>
        /\ pc["main"] = "started"
        /\ pc' = [pc EXCEPT !["main"] = "after"]
    BY <1>17 DEF TaskStarted, tasks, others, local, At, Goto
  <2> QED
    BY <2>1, <1>a
<1>18. CASE TaskFailed
  <2>1. /\ UNCHANGED <<tsk, run_times, pid>>
        /\ pc["main"] = "failed"
        /\ pc' = [pc EXCEPT !["main"] = "list"]
    BY <1>18 DEF TaskFailed, NextTask, At, Goto
  <2> QED
    BY <2>1, <1>a
<1>19. CASE WaitAlone
  <2>1. /\ UNCHANGED <<tsk, run_times, pid>>
        /\ pc["main"] = "after"
        /\ pc' = [pc EXCEPT !["main"] = "list"]
    BY <1>19 DEF WaitAlone, rest, tasks, NextTask, At, Goto
  <2> QED
    BY <2>1, <1>a
<1>20. CASE task_quit_clean
  <2>1. /\ UNCHANGED <<pc, cur, tsk, run_times, pid>>
        /\ pc["main"] = "join"
    BY <1>20 DEF task_quit_clean, sched, rest, tasks, At, Goto
  <2> QED
    BY <2>1, <1>a
<1>21. CASE RecycleTop
  <2>1. /\ UNCHANGED <<cur, tsk, run_times, pid>>
        /\ pc[Recycle] = "top"
        /\ \E p \in {"exit", "wait4"} : pc' = [pc EXCEPT ![Recycle] = p]
    BY <1>21 DEF RecycleTop, others, local, rest, tasks, At, Goto
  <2> QED
    BY <2>1, <1>a
<1>22. CASE wait4
  <2>1. /\ UNCHANGED <<cur, tsk, run_times, pid>>
        /\ pc[Recycle] = "wait4"
        /\ \E p \in {"match", "top"} : pc' = [pc EXCEPT ![Recycle] = p]
    BY <1>22 DEF wait4, tasks, At, Goto
  <2> QED
    BY <2>1, <1>a
<1>23. CASE MatchLeader
  <2>1. /\ UNCHANGED <<cur, tsk, run_times, pid>>
        /\ pc[Recycle] = "match"
        /\ pc' = [pc EXCEPT ![Recycle] = "top"]
    BY <1>23 DEF MatchLeader, local, At, Goto
  <2> QED
    BY <2>1, <1>a
<1>24. CASE task_recycle_once
  <2>1. PICK t \in Tasks, k \in Slots : t = got[1] /\ k = got[2]
    BY <1>24 DEF task_recycle_once, At
  <2>2. pid[t][k] = "set" /\ pid' = [pid EXCEPT ![t][k] = "done"] /\ tsk' = t /\ UNCHANGED run_times
    BY <1>24, <2>1 DEF task_recycle_once, Recorded
  <2>3. pid[u][j] = "set" /\ ~(u = t /\ j = k)
    BY <2>2
  <2>4. k \in Int /\ j \in Int
    BY SlotsNat
  <2>5. u # t
    BY <1>a, <2>2, <2>3, <2>4 DEF OneSet
  <2> QED
    BY <1>a, <2>2, <2>3, <2>5
<1>25. CASE NoMatch
  <2>1. /\ UNCHANGED <<cur, tsk, run_times, pid>>
        /\ pc[Recycle] = "match"
        /\ pc' = [pc EXCEPT ![Recycle] = "top"]
    BY <1>25 DEF NoMatch, tasks, local, At, Goto
  <2> QED
    BY <2>1, <1>a
<1>26. CASE task_check_end
  <2>1. /\ UNCHANGED <<cur, tsk, run_times, pid>>
        /\ pc[Recycle] = "check"
        /\ \E p \in {"kill", "again", "lock"} : pc' = [pc EXCEPT ![Recycle] = p]
    BY <1>26 DEF task_check_end, others, local, rest, tasks, At, Goto
  <2> QED
    BY <2>1, <1>a
<1>27. CASE Again
  <2>1. /\ UNCHANGED <<cur, tsk, run_times, pid>>
        /\ pc[Recycle] = "again"
        /\ \E p \in {"exit", "top"} : pc' = [pc EXCEPT ![Recycle] = p]
    BY <1>27 DEF Again, local, rest, tasks, At, Goto
  <2> QED
    BY <2>1, <1>a
<1>28. ASSUME NEW t \in Tasks, OnceLimit(t) PROVE IsLastRun(u, j)'
  <2>1. UNCHANGED <<pc, cur, tsk, run_times, pid>>
    BY <1>28 DEF OnceLimit, sched, tasks, At, Goto
  <2> QED
    BY <2>1, <1>a
<1>29. ASSUME NEW t \in Tasks, WholeLimit(t) PROVE IsLastRun(u, j)'
  <2>1. UNCHANGED <<pc, cur, tsk, run_times, pid>>
    BY <1>29 DEF WholeLimit, sched, At, Goto
  <2> QED
    BY <2>1, <1>a
<1>30. ASSUME NEW t \in Tasks, NEW k \in Slots, Exit(t, k) PROVE IsLastRun(u, j)'
  <2>1. UNCHANGED <<pc, cur, tsk, run_times, pid>>
    BY <1>30 DEF Exit, sched, tasks, At, Goto
  <2> QED
    BY <2>1, <1>a
<1>31. CASE task_signal_quit
  <2>1. UNCHANGED <<pc, cur, tsk, run_times, pid>>
    BY <1>31 DEF task_signal_quit, sched, tasks, At, Goto
  <2> QED
    BY <2>1, <1>a
<1>32. CASE PowerOff
  <2>1. UNCHANGED <<pc, cur, tsk, run_times, pid>>
    BY <1>32 DEF PowerOff, sched, tasks, At, Goto
  <2> QED
    BY <2>1, <1>a
<1>33. CASE task_recover_after_reboot
  BY <1>33, <1>a DEF task_recover_after_reboot, AtStart, Every, EveryRun
<1>34. CASE Stopped \/ UNCHANGED vars
  <2>1. UNCHANGED <<pc, cur, tsk, run_times, pid>>
    BY <1>34 DEF Stopped, vars
  <2> QED
    BY <2>1, <1>a
<1>35. CASE task_do_crash
  <2>1. UNCHANGED <<pc, cur, tsk, run_times, pid>>
    BY <1>35 DEF task_do_crash, sched, tasks, At, Goto
  <2> QED
    BY <2>1, <1>a
<1> QED
  BY <1>1, <1>2, <1>3, <1>4, <1>5, <1>6, <1>7, <1>8, <1>9, <1>10, <1>11, <1>12, <1>13, <1>14,
     <1>15, <1>16, <1>17, <1>18, <1>19, <1>20, <1>21, <1>22, <1>23, <1>24, <1>25, <1>26, <1>27,
     <1>28, <1>29, <1>30, <1>31, <1>32, <1>33, <1>34, <1>35
  DEF Next, Main, Recycler, Thread, task_begin, task_recycle, task_do, task_recycle_end, Threads,
      Recycle

\* A process that executes is known: the steps that fork nothing.
LEMMA AliveAged ==
  ASSUME RunType, PlaceTypes, TaskTypes, Meet, HandRuns, FromTheFirst, NeverQuits, NotForked, DeathOf, OneSet, AliveKnown, Aging, Unforked, [Next]_vars
  PROVE  AliveKnown'
<1> USE TinaAssumption DEF IsKnown, Ending, RunType, PlaceTypes, TaskTypes, Threads, Recycle,
      GivenUp
<1> SUFFICES ASSUME NEW u \in Tasks, NEW j \in Slots, proc'[u][j] = "alive"
             PROVE  IsKnown(u, j)'
  BY DEF AliveKnown
<1>a. proc[u][j] = "alive" /\ IsKnown(u, j) /\ j \in Int
  BY SlotsNat DEF AliveKnown, Aging
<1>b. pc["main"] \notin Late => u # cur
  BY <1>a DEF NotForked
<1>c. ~Env[u].run_parallel /\ tsk = u /\ pc[Recycle] \in Hands => pc[Recycle] = "record"
  <2> SUFFICES ASSUME ~Env[u].run_parallel, tsk = u, pc[Recycle] \in Hands PROVE pc[Recycle] = "record"
    OBVIOUS
  <2>1. ~(cur = u /\ pc["main"] = "record")
    BY DEF Meet
  <2>2. pid[u][j] # "set"
    BY DEF OneSet, IsLastRun
  <2> QED
    BY <1>a, <2>1, <2>2 DEF IsKnown
<1>d. \A h \in Threads : pc[h] \in Doing \ {"fork", "record"} => u # T(h)
  <2>1. pc["main"] \in Doing \ {"fork", "record"} => u # cur
    BY <1>b DEF Late, Doing
  <2>2. pc[Recycle] \in Doing \ {"fork", "record"} => u # tsk
    BY <1>c DEF HandRuns, Hands
  <2> QED
    BY <2>1, <2>2 DEF T, Threads, Recycle
<1>1. ASSUME NEW h \in Threads, KillLimits(h) PROVE IsKnown(u, j)'
  <2>1. /\ UNCHANGED <<ret, cur, tsk, status, run_times, pid>>
        /\ pc[h] = "kill"
        /\ \E p \in {"clean", "sub"} : pc' = [pc EXCEPT ![h] = p]
    BY <1>1 DEF KillLimits, tasks, others, local, At, Goto
  <2> QED
    BY <2>1, <1>a
<1>2. ASSUME NEW h \in Threads, task_clean_reboot(h) PROVE IsKnown(u, j)'
  <2>1. /\ UNCHANGED <<ret, cur, tsk, status, run_times, pid>>
        /\ pc[h] = "clean"
        /\ pc' = [pc EXCEPT ![h] = "tell"]
    BY <1>2 DEF task_clean_reboot, tasks, others, local, At, Goto
  <2> QED
    BY <2>1, <1>a
<1>3. ASSUME NEW h \in Threads, CountEnd(h) PROVE IsKnown(u, j)'
  <2>1. /\ UNCHANGED <<ret, cur, tsk, status, run_times, pid>>
        /\ pc[h] = "sub"
        /\ pc' = [pc EXCEPT ![h] = "tell"]
    BY <1>3 DEF CountEnd, tasks, others, local, At, Goto
  <2> QED
    BY <2>1, <1>a
<1>4. ASSUME NEW h \in Threads, TELL_PARENT(h) PROVE IsKnown(u, j)'
  <2>1. /\ UNCHANGED <<ret, cur, tsk, run_times, pid>> /\ pc[h] = "tell"
        /\ pc' = [pc EXCEPT ![h] = IF h = "main" THEN "lastsub" ELSE "again"]
        /\ status' = [status EXCEPT ![T(h)] = "END"]
    BY <1>4 DEF TELL_PARENT, others, local, At, Goto
  <2>2. u # T(h)
    BY <1>a, <1>b, <2>1 DEF T, Late
  <2>3. CASE h = "main"
    BY <1>a, <2>1, <2>2, <2>3 DEF T
  <2>4. CASE h = Recycle
    BY <1>a, <2>1, <2>2, <2>4 DEF T
  <2> QED
    BY <2>3, <2>4
<1>5. ASSUME NEW h \in Threads, LockTask(h) PROVE IsKnown(u, j)'
  <2>1. /\ UNCHANGED <<ret, cur, tsk, status, run_times, pid>>
        /\ pc[h] = "lock"
        /\ \E p \in {"reboot", "last"} : pc' = [pc EXCEPT ![h] = p]
    BY <1>5 DEF LockTask, rest, tasks, At, Goto
  <2> QED
    BY <2>1, <1>a
<1>6. ASSUME NEW h \in Threads, task_init_reboot_mode(h) PROVE IsKnown(u, j)'
  <2>1. /\ UNCHANGED <<cur, tsk, status, pid>> /\ pc[h] = "reboot"
        /\ \E p \in {"status", "unlock"} : pc' = [pc EXCEPT ![h] = p]
    BY <1>6 DEF task_init_reboot_mode, Leave, At, Goto
  <2>2. u # T(h)
    BY <1>d, <2>1 DEF Doing
  <2>3. run_times'[u] = run_times[u]
    BY <1>6, <2>2 DEF task_init_reboot_mode, ResumeAt
  <2>6. h = Recycle => ret'["main"] = ret["main"]
    BY <1>6 DEF task_init_reboot_mode, Leave
  <2>4. CASE h = "main"
    BY <1>a, <2>1, <2>2, <2>3, <2>4 DEF T
  <2>5. CASE h = Recycle
    BY <1>a, <2>1, <2>2, <2>3, <2>6, <2>5 DEF T
  <2> QED
    BY <2>4, <2>5
<1>7. ASSUME NEW h \in Threads, task_create_reboot_status(h) PROVE IsKnown(u, j)'
  <2>1. /\ UNCHANGED <<cur, tsk, status, run_times, pid>> /\ pc[h] \in {"status", "fill"}
        /\ \E p \in {"fill", "last", "unlock"} : pc' = [pc EXCEPT ![h] = p]
    BY <1>7 DEF task_create_reboot_status, tasks, Leave, At, Goto
  <2>2. u # T(h)
    BY <1>d, <2>1 DEF Doing
  <2>6. h = Recycle => ret'["main"] = ret["main"]
    BY <1>7 DEF task_create_reboot_status, Leave
  <2>4. CASE h = "main"
    BY <1>a, <2>1, <2>2, <2>4 DEF T
  <2>5. CASE h = Recycle
    BY <1>a, <2>1, <2>2, <2>6, <2>5 DEF T
  <2> QED
    BY <2>4, <2>5
<1>8. ASSUME NEW h \in Threads, LastTimes(h) PROVE IsKnown(u, j)'
  <2>1. /\ UNCHANGED <<ret, cur, tsk, status, run_times, pid>> /\ pc[h] = "last"
        /\ \E p \in {"limits", "kill", "lastsub"} : pc' = [pc EXCEPT ![h] = p]
    BY <1>8 DEF LastTimes, others, local, rest, tasks, Leave, At, Goto
  <2>2. u # T(h)
    BY <1>d, <2>1 DEF Doing
  <2>4. CASE h = "main"
    BY <1>a, <2>1, <2>2, <2>4 DEF T
  <2>5. CASE h = Recycle
    BY <1>a, <2>1, <2>2, <2>5 DEF T
  <2> QED
    BY <2>4, <2>5
<1>9. ASSUME NEW h \in Threads, LastSub(h) PROVE IsKnown(u, j)'
  <2>1. /\ UNCHANGED <<cur, tsk, status, run_times, pid>> /\ pc[h] = "lastsub"
        /\ pc' = [pc EXCEPT ![h] = "unlock"] /\ ret' = [ret EXCEPT ![h] = TRUE]
    BY <1>9 DEF LastSub, tasks, Leave, At, Goto
  <2>2. h = "main"
    BY <2>1 DEF RecycleAt, Doing
  <2> QED
    BY <1>a, <2>1, <2>2
<1>10. ASSUME NEW h \in Threads, DoLimits(h) PROVE IsKnown(u, j)'
  <2>1. /\ UNCHANGED <<cur, tsk, status, run_times, pid>> /\ pc[h] = "limits"
        /\ \E p \in {"fork", "unlock"} : pc' = [pc EXCEPT ![h] = p]
    BY <1>10 DEF DoLimits, Leave, At, Goto
  <2>2. u # T(h)
    BY <1>d, <2>1 DEF Doing
  <2>6. h = Recycle => ret'["main"] = ret["main"]
    BY <1>10 DEF DoLimits, Leave
  <2>4. CASE h = "main"
    BY <1>a, <2>1, <2>2, <2>4 DEF T
  <2>5. CASE h = Recycle
    BY <1>a, <2>1, <2>2, <2>6, <2>5 DEF T
  <2> QED
    BY <2>4, <2>5
<1>11. ASSUME NEW h \in Threads, ForkTestcase(h) PROVE IsKnown(u, j)'
  BY <1>11 DEF Unforked
<1>12. ASSUME NEW h \in Threads, RecordPid(h) PROVE IsKnown(u, j)'
  <2>1. UNCHANGED <<cur, tsk, status>> /\ pc[h] = "record" /\ T(h) \in Tasks
    BY <1>12 DEF RecordPid, T, At
  <2>2. \/ pc' = [pc EXCEPT ![h] = "fork"] /\ UNCHANGED ret
        \/ pc' = [pc EXCEPT ![h] = "unlock"] /\ ret' = [ret EXCEPT ![h] = TRUE]
    BY <1>12 DEF RecordPid, Leave, Goto
  <2>3. run_times' = [run_times EXCEPT ![T(h)] = run_times[T(h)] + 1]
    BY <1>12 DEF RecordPid
  <2>4. /\ pid[u][j] = "set" => pid'[u][j] = "set"
        /\ u = T(h) /\ j = run_times[u] => pid'[u][j] = "set"
    BY <1>12, <2>1 DEF RecordPid
  <2>5. run_times[u] \in Nat /\ run_times'[u] \in Nat /\ run_times'[u] >= run_times[u] /\ (u = T(h) => run_times'[u] = run_times[u] + 1)
    BY <2>1, <2>3
  <2>6. \/ pid'[u][j] = "set" /\ j < run_times'[u]
        \/ h # "main" /\ cur = u /\ pc["main"] = "record" /\ j = run_times[u] /\ u # T(h)
        \/ h # Recycle /\ tsk = u /\ pc[Recycle] = "record" /\ j = run_times[u] /\ u # T(h)
    <3>1. CASE u = T(h)
      BY <1>a, <2>4, <2>5, <3>1
    <3>2. CASE u # T(h)
      <4>1. j < run_times[u] => j < run_times'[u]
        BY <1>a, <2>5
      <4> QED
        BY <1>a, <2>4, <3>2, <4>1 DEF T
    <3> QED
      BY <3>1, <3>2
  <2>7. u # T(h) => run_times'[u] = run_times[u]
    BY <2>1, <2>3
  <2>8. CASE h = "main"
    BY <1>a, <2>1, <2>2, <2>6, <2>7, <2>8
  <2>9. CASE h = Recycle
    BY <1>a, <2>1, <2>2, <2>6, <2>7, <2>9
  <2> QED
    BY <2>8, <2>9
<1>13. ASSUME NEW h \in Threads, UnlockTask(h) PROVE IsKnown(u, j)'
  <2>1. /\ UNCHANGED <<ret, cur, tsk, status, run_times, pid>> /\ pc[h] = "unlock"
        /\ pc' = [pc EXCEPT ![h] = IF h = Recycle THEN "again" ELSE IF ret[h] THEN "started" ELSE "failed"]
    BY <1>13 DEF UnlockTask, rest, tasks, At, Goto
  <2> QED
    BY <1>a, <2>1
<1>14. CASE ListTop
  <2>1. /\ UNCHANGED <<ret, cur, tsk, status, run_times, pid>>
        /\ pc["main"] = "list"
        /\ \E p \in {"join", "wait", "alone"} : pc' = [pc EXCEPT !["main"] = p]
    BY <1>14 DEF ListTop, others, local, rest, tasks, At, Goto
  <2> QED
    BY <2>1, <1>a
<1>15. CASE WAIT_CHILD
  <2>1. /\ UNCHANGED <<ret, cur, tsk, status, run_times, pid>>
        /\ pc["main"] = "wait"
        /\ pc' = [pc EXCEPT !["main"] = "list"]
    BY <1>15 DEF WAIT_CHILD, tasks, others, local, At, Goto
  <2> QED
    BY <2>1, <1>a
<1>16. CASE BeginTask
  <2>1. /\ UNCHANGED <<ret, tsk, run_times, pid>> /\ pc["main"] = "alone"
        /\ \E p \in {"list", "lock"} : pc' = [pc EXCEPT !["main"] = p]
        /\ \E x \in {"RUN", "END"} : status' = [status EXCEPT ![cur] = x]
    BY <1>16 DEF BeginTask, NextTask, At, Goto
  <2>2. u # cur
    BY <1>b, <2>1 DEF Late
  <2>3. status'[u] = status[u]
    BY <2>1, <2>2
  <2> QED
    BY <1>a, <2>1, <2>2, <2>3
<1>17. CASE TaskStarted
  <2>1. /\ UNCHANGED <<ret, cur, tsk, status, run_times, pid>>
        /\ pc["main"] = "started"
        /\ pc' = [pc EXCEPT !["main"] = "after"]
    BY <1>17 DEF TaskStarted, tasks, others, local, At, Goto
  <2> QED
    BY <2>1, <1>a
<1>18. CASE TaskFailed
  <2>1. /\ UNCHANGED <<ret, tsk, run_times, pid>> /\ pc["main"] = "failed"
        /\ pc' = [pc EXCEPT !["main"] = "list"]
        /\ status' = [status EXCEPT ![cur] = "END"]
    BY <1>18 DEF TaskFailed, NextTask, At, Goto
  <2>2. u # cur
    BY <1>a, <2>1
  <2>3. status'[u] = status[u]
    BY <2>1, <2>2
  <2> QED
    BY <1>a, <2>1, <2>2, <2>3
<1>19. CASE WaitAlone
  <2>1. /\ UNCHANGED <<ret, tsk, status, run_times, pid>>
        /\ pc["main"] = "after"
        /\ pc' = [pc EXCEPT !["main"] = "list"]
    BY <1>19 DEF WaitAlone, rest, tasks, NextTask, At, Goto
  <2> QED
    BY <2>1, <1>a
<1>20. CASE task_quit_clean
  <2>1. /\ UNCHANGED <<pc, ret, cur, tsk, status, run_times, pid>>
        /\ pc["main"] = "join"
    BY <1>20 DEF task_quit_clean, sched, rest, tasks, At, Goto
  <2> QED
    BY <2>1, <1>a
<1>21. CASE RecycleTop
  <2>1. /\ UNCHANGED <<ret, cur, tsk, status, run_times, pid>>
        /\ pc[Recycle] = "top"
        /\ \E p \in {"exit", "wait4"} : pc' = [pc EXCEPT ![Recycle] = p]
    BY <1>21 DEF RecycleTop, others, local, rest, tasks, At, Goto
  <2> QED
    BY <2>1, <1>a
<1>22. CASE wait4
  <2>1. /\ UNCHANGED <<ret, cur, tsk, status, run_times, pid>>
        /\ pc[Recycle] = "wait4"
        /\ \E p \in {"match", "top"} : pc' = [pc EXCEPT ![Recycle] = p]
    BY <1>22 DEF wait4, tasks, At, Goto
  <2> QED
    BY <2>1, <1>a
<1>23. CASE MatchLeader
  <2>1. /\ UNCHANGED <<ret, cur, tsk, status, run_times, pid>>
        /\ pc[Recycle] = "match"
        /\ pc' = [pc EXCEPT ![Recycle] = "top"]
    BY <1>23 DEF MatchLeader, local, At, Goto
  <2> QED
    BY <2>1, <1>a
<1>24. CASE task_recycle_once
  <2>1. PICK t \in Tasks, k \in Slots : t = got[1] /\ k = got[2]
    BY <1>24 DEF task_recycle_once, At
  <2>2. /\ UNCHANGED <<ret, cur, status, run_times>> /\ pc[Recycle] = "match"
        /\ pc' = [pc EXCEPT ![Recycle] = "check"] /\ pid' = [pid EXCEPT ![t][k] = "done"]
    BY <1>24, <2>1 DEF task_recycle_once, At, Goto
  <2>3. ~(u = t /\ j = k)
    BY <1>24, <1>a, <2>1, <2>2 DEF DeathOf, task_recycle_once
  <2>4. pid'[u][j] = pid[u][j]
    BY <2>2, <2>3
  <2> QED
    BY <1>a, <2>2, <2>4
<1>25. CASE NoMatch
  <2>1. /\ UNCHANGED <<ret, cur, tsk, status, run_times, pid>>
        /\ pc[Recycle] = "match"
        /\ pc' = [pc EXCEPT ![Recycle] = "top"]
    BY <1>25 DEF NoMatch, tasks, local, At, Goto
  <2> QED
    BY <2>1, <1>a
<1>26. CASE task_check_end
  <2>1. /\ UNCHANGED <<ret, cur, tsk, status, run_times, pid>> /\ pc[Recycle] = "check"
        /\ pc' = [pc EXCEPT ![Recycle] = IF Ended(tsk) THEN "kill" ELSE IF Env[tsk].run_parallel THEN "again" ELSE "lock"]
    BY <1>26 DEF task_check_end, others, local, rest, tasks, At, Goto
  <2>2. tsk = u => ~Ended(tsk)
    <3> SUFFICES ASSUME tsk = u, Ended(u) PROVE FALSE
      OBVIOUS
    <3>1. Env[u].run_parallel
      BY <1>c, <2>1 DEF Hands
    <3>2. (\A k \in Slots : k < run_times[u] => pid[u][k] = "done") /\ run_times[u] >= Limit(u)
      BY <3>1 DEF Ended, NeverQuits
    <3>3. cur = u /\ pc["main"] = "record"
      BY <1>a, <2>1, <3>2
    <3>4. run_times[u] < Limit(u) /\ run_times[u] \in Nat /\ Limit(u) \in Nat
      BY <3>3 DEF FromTheFirst, Limit
    <3> QED
      BY <3>2, <3>4
  <2>3. tsk = u => pc'[Recycle] \notin Ending
    BY <2>1, <2>2
  <2> QED
    BY <1>a, <2>1, <2>3
<1>27. CASE Again
  <2>1. /\ UNCHANGED <<ret, cur, tsk, status, run_times, pid>>
        /\ pc[Recycle] = "again"
        /\ \E p \in {"exit", "top"} : pc' = [pc EXCEPT ![Recycle] = p]
    BY <1>27 DEF Again, local, rest, tasks, At, Goto
  <2> QED
    BY <2>1, <1>a
<1>28. ASSUME NEW t \in Tasks, OnceLimit(t) PROVE IsKnown(u, j)'
  <2>1. UNCHANGED <<pc, ret, cur, tsk, status, run_times, pid>>
    BY <1>28 DEF OnceLimit, sched, tasks, At, Goto
  <2> QED
    BY <2>1, <1>a
<1>29. ASSUME NEW t \in Tasks, WholeLimit(t) PROVE IsKnown(u, j)'
  <2>1. UNCHANGED <<pc, ret, cur, tsk, status, run_times, pid>>
    BY <1>29 DEF WholeLimit, sched, At, Goto
  <2> QED
    BY <2>1, <1>a
<1>30. ASSUME NEW t \in Tasks, NEW k \in Slots, Exit(t, k) PROVE IsKnown(u, j)'
  <2>1. UNCHANGED <<pc, ret, cur, tsk, status, run_times, pid>>
    BY <1>30 DEF Exit, sched, tasks, At, Goto
  <2> QED
    BY <2>1, <1>a
<1>31. CASE task_signal_quit
  <2>1. UNCHANGED <<pc, ret, cur, tsk, status, run_times, pid>>
    BY <1>31 DEF task_signal_quit, sched, tasks, At, Goto
  <2> QED
    BY <2>1, <1>a
<1>32. CASE PowerOff
  <2>1. UNCHANGED <<pc, ret, cur, tsk, status, run_times, pid>>
    BY <1>32 DEF PowerOff, sched, tasks, At, Goto
  <2> QED
    BY <2>1, <1>a
<1>33. CASE task_recover_after_reboot
  BY <1>33 DEF Unforked
<1>34. CASE Stopped \/ UNCHANGED vars
  <2>1. UNCHANGED <<pc, ret, cur, tsk, status, run_times, pid>>
    BY <1>34 DEF Stopped, vars
  <2> QED
    BY <2>1, <1>a
<1>35. CASE task_do_crash
  <2>1. UNCHANGED <<pc, ret, cur, tsk, status, run_times, pid>>
    BY <1>35 DEF task_do_crash, sched, tasks, At, Goto
  <2> QED
    BY <2>1, <1>a
<1> QED
  BY <1>1, <1>2, <1>3, <1>4, <1>5, <1>6, <1>7, <1>8, <1>9, <1>10, <1>11, <1>12, <1>13, <1>14,
     <1>15, <1>16, <1>17, <1>18, <1>19, <1>20, <1>21, <1>22, <1>23, <1>24, <1>25, <1>26, <1>27,
     <1>28, <1>29, <1>30, <1>31, <1>32, <1>33, <1>34, <1>35
  DEF Next, Main, Recycler, Thread, task_begin, task_recycle, task_do, task_recycle_end, Threads,
      Recycle


\* A process that executes is known: the fork.
LEMMA AliveFork ==
  ASSUME RunType, PlaceTypes, ProcTypes, Meet, HandRuns, Shape, AliveKnown,
         NEW h \in Threads, ForkTestcase(h)
  PROVE  AliveKnown'
<1> SUFFICES ASSUME NEW u \in Tasks, NEW j \in Slots, proc'[u][j] = "alive"
             PROVE  IsKnown(u, j)'
  BY DEF AliveKnown
<1>1. T(h) \in Tasks /\ pc[h] = "fork" /\ UNCHANGED <<cur, tsk, status, run_times, pid>>
  BY ForkCases
<1>2. DOMAIN pc = Threads /\ DOMAIN ret = Threads
  BY DEF RunType, PlaceTypes
<1>3. h = "main" \/ h = Recycle
  BY DEF Threads, Recycle
<1>4. CASE /\ pc' = [pc EXCEPT ![h] = "unlock"] /\ ret' = [ret EXCEPT ![h] = FALSE]
           /\ Aging /\ \A k \in Slots : proc'[T(h)][k] # "alive"
  <2>1. u # T(h) /\ IsKnown(u, j)
    BY <1>4 DEF Aging, AliveKnown
  <2>2. CASE h = "main"
    <3>1. u # cur /\ pc'[Recycle] = pc[Recycle]
      BY <1>2, <1>4, <2>1, <2>2 DEF T, Threads, Recycle
    <3> QED
      BY <1>1, <2>1, <3>1 DEF IsKnown
  <2>3. CASE h = Recycle
    <3>1. u # tsk /\ pc'["main"] = pc["main"] /\ ret'["main"] = ret["main"]
      BY <1>2, <1>4, <2>1, <2>3 DEF T, Threads, Recycle
    <3> QED
      BY <1>1, <2>1, <3>1 DEF IsKnown, GivenUp
  <2> QED
    BY <1>3, <2>2, <2>3
<1>5. CASE /\ pc' = [pc EXCEPT ![h] = "record"] /\ UNCHANGED ret
           /\ proc'[T(h)] = [proc[T(h)] EXCEPT ![run_times[T(h)]] =
                               IF leader[T(h)] = "gone" THEN "fail" ELSE "alive"]
           /\ \A t \in Tasks : t # T(h) => proc'[t] = proc[t]
  <2>1. CASE u = T(h) /\ j = run_times[u]
    <3>1. CASE h = "main"
      <4>1. cur = u /\ pc'["main"] = "record" /\ pc'[Recycle] = pc[Recycle] /\ pc["main"] = "fork"
        BY <1>1, <1>2, <1>5, <2>1, <3>1 DEF T, Threads, Recycle
      <4>2. status[u] = "RUN"
        BY <4>1 DEF Shape, Doing
      <4>3. ~(tsk = u /\ pc[Recycle] \in Ending)
        BY <4>1 DEF Meet, Hands, Ending
      <4> QED
        BY <1>1, <2>1, <4>1, <4>2, <4>3 DEF IsKnown, GivenUp
    <3>2. CASE h = Recycle
      <4>1. tsk = u /\ pc'[Recycle] = "record" /\ pc[Recycle] = "fork"
        BY <1>1, <1>2, <1>5, <2>1, <3>2 DEF T, Recycle
      <4>2. status[u] = "RUN"
        BY <4>1 DEF HandRuns, Doing
      <4>3. pc'["main"] = pc["main"]
        BY <1>5, <3>2, <1>2 DEF Threads, Recycle
      <4>4. ~(cur = u /\ GivenUp)
        BY <4>1 DEF Meet, Hands, Doing
      <4> QED
        BY <1>1, <1>5, <2>1, <4>1, <4>2, <4>3, <4>4 DEF IsKnown, GivenUp, Ending
    <3> QED
      BY <1>3, <3>1, <3>2
  <2>2. CASE ~(u = T(h) /\ j = run_times[u])
    <3>1. proc[u][j] = "alive"
      <4>1. CASE u = T(h)
        BY <1>5, <2>2, <4>1 DEF ProcTypes
      <4>2. CASE u # T(h)
        BY <1>5, <4>2
      <4> QED
        BY <4>1, <4>2
    <3>2. IsKnown(u, j)
      BY <3>1 DEF AliveKnown
    <3>3. CASE h = "main"
      <4>1. pc'["main"] = "record" /\ pc'[Recycle] = pc[Recycle] /\ pc["main"] = "fork"
        BY <1>1, <1>2, <1>5, <3>3 DEF Threads, Recycle
      <4> QED
        BY <1>1, <3>2, <4>1 DEF IsKnown, GivenUp
    <3>4. CASE h = Recycle
      <4>1. pc'[Recycle] = "record" /\ pc'["main"] = pc["main"] /\ pc[Recycle] = "fork"
        BY <1>1, <1>2, <1>5, <3>4 DEF Threads, Recycle
      <4> QED
        BY <1>1, <1>5, <3>2, <4>1 DEF IsKnown, GivenUp, Ending
    <3> QED
      BY <1>3, <3>3, <3>4
  <2> QED
    BY <2>1, <2>2
<1> QED
  BY <1>4, <1>5, ForkCases

\* A boot: no process is there.
LEMMA ProcsRecover ==
  ASSUME task_recover_after_reboot
  PROVE  NotForked' /\ DeathOf' /\ AliveKnown'
<1>1. \A t \in Tasks, k \in Slots : proc'[t][k] = "none"
  BY DEF task_recover_after_reboot, EveryRun, Every
<1>2. pc'["main"] = "list" /\ pc'[Recycle] = "top"
  BY DEF task_recover_after_reboot, AtStart, Threads, Recycle
<1> QED
  BY <1>1, <1>2 DEF NotForked, DeathOf, AliveKnown

\* What is known of the processes is kept.
LEMMA ProcsKept ==
  ASSUME RunInv, PlaceTypes, TaskTypes, ProcTypes, Meet, Shape, HandRuns, FromTheFirst, NeverQuits,
         NotForked, DeathOf, OneSet, AliveKnown, [Next]_vars
  PROVE  NotForked' /\ DeathOf' /\ OneSet' /\ AliveKnown'
<1>1. RunType
  BY DEF RunInv
<1>2. OneSet'
  BY <1>1, OneSetKept
<1>3. CASE Unforked
  <2>1. Aging
    BY <1>1, <1>3, Ages
  <2> QED
    BY <1>1, <1>2, <1>3, <2>1, NotForkedAged, DeathAged, AliveAged
<1>4. ASSUME NEW h \in Threads, ForkTestcase(h) PROVE NotForked' /\ DeathOf' /\ AliveKnown'
  BY <1>1, <1>4, NotForkedFork, DeathFork, AliveFork
<1>5. CASE task_recover_after_reboot
  BY <1>2, <1>5, ProcsRecover
<1> QED
  BY <1>2, <1>3, <1>4, <1>5 DEF Unforked


-----------------------------------------------------------------------------
(* The counts: what a step does to the set of the tasks that run, to that of    *)
(* those that are over, and to the two counts.                                *)

\* The tasks that are counted as running, or in the hands of the main thread.
Total == running_cnt + InHandCount

Rests   == Live' = Live /\ Over' = Over /\ Total' = Total /\ end_cnt' = end_cnt
Begins  == /\ BeginTask /\ cur \in Tasks \ Live /\ Live' = Live \cup {cur} /\ Over' = Over
           /\ Total' = Total + 1 /\ end_cnt' = end_cnt
Passes  == /\ reboot_mode /\ cur \in Tasks \ (Live \cup Over) /\ Live' = Live /\ Over' = Over \cup {cur}
           /\ Total' = Total /\ end_cnt' = end_cnt + 1
Ends(t) == /\ t \in Live /\ Live' = Live \ {t} /\ Over' = Over \cup {t}
           /\ Total' = Total - 1 /\ end_cnt' = end_cnt + 1
Drops(t) == /\ t \in Live /\ Live' = Live \ {t} /\ Over' = Over \cup {t}
            /\ Total' = Total /\ end_cnt' = end_cnt /\ ~Exact'

Move == Rests \/ Begins \/ Passes \/ \E t \in Tasks : Ends(t) \/ Drops(t)

\* A step that leaves the tasks, and the places by which they are told apart, alone.
LEMMA Resting ==
  ASSUME UNCHANGED <<status, running_cnt, end_cnt>>,
         pc'[Recycle] = "tell" <=> pc[Recycle] = "tell", pc[Recycle] = "tell" => tsk' = tsk,
         pc'["main"] = "lastsub" <=> pc["main"] = "lastsub", pc["main"] = "lastsub" => cur' = cur,
         pc'["main"] \in Begun <=> pc["main"] \in Begun
  PROVE  Rests
<1>1. \A t \in Tasks : IsLive(t)' <=> IsLive(t)
  BY DEF IsLive
<1>2. Live' = Live /\ Over' = Over
  BY <1>1 DEF Live, Over
<1>3. Total' = Total
  BY DEF Total, InHandCount
<1> QED
  BY <1>2, <1>3 DEF Rests

\* What a task is after a step in which only it changes.
LEMMA Leaving ==
  ASSUME NEW t \in Tasks, t \in Live, status'[t] # "WAIT", ~IsLive(t)',
         \A u \in Tasks \ {t} : (IsLive(u)' <=> IsLive(u)) /\ status'[u] = status[u]
  PROVE  Live' = Live \ {t} /\ Over' = Over \cup {t}
  BY DEF Live, Over

\* The task whose end the main thread cleans up is the only one, and it is not counted.
LEMMA MainUncounted ==
  ASSUME RunType, WakeType, PlaceTypes, TaskTypes, Meet, Shape, FromTheFirst, AloneLive, Counted,
         pc["main"] = "clean"
  PROVE  running_cnt = 0
<1>1. cur \in Tasks /\ status[cur] = "RUN" /\ Env[cur].may_reboot /\ reboot_mode
  BY DEF RunType, Shape, FromTheFirst
<1>2. cur \in Live
  <2>1. ~(pc[Recycle] = "tell" /\ tsk = cur)
    BY DEF Meet, Hands, Ending
  <2> QED
    BY <1>1, <2>1 DEF Live, IsLive
<1>3. Live = {cur}
  BY <1>1, <1>2 DEF AloneLive, RunAlone
<1>4. Cardinality(Live) = 1
  BY <1>3, FS_Singleton
<1>5. running_cnt + InHandCount = 1 /\ InHandCount = 1 /\ running_cnt \in Int
  BY <1>1, <1>4 DEF Counted, Exact, InHandCount, Begun, WakeType
<1> QED
  BY <1>5

\* An end that is dropped came before its start was counted: never with SlowChild, and
\* never without a reboot.
LEMMA DropsInexact ==
  ASSUME RunType, WakeType, PlaceTypes, TaskTypes, Meet, HandRuns, AloneLive, Slow, Quiet, Counted,
         pc[Recycle] = "clean", running_cnt <= 0
  PROVE  ~SlowChild /\ ~NoReboot
<1>1. tsk \in Tasks /\ status[tsk] = "RUN" /\ Env[tsk].may_reboot /\ reboot_mode
  BY DEF RunType, HandRuns, Ending
<1>2. ~NoReboot
  BY <1>1 DEF Quiet
<1>3. SUFFICES ASSUME SlowChild PROVE FALSE
  BY <1>2
<1>4. tsk \in Live
  BY <1>1 DEF Live, IsLive
<1>5. Live = {tsk} /\ ((cur = tsk /\ pc["main"] \in Begun \cup {"after"}) \/ cur = N + 1)
  BY <1>1, <1>4 DEF AloneLive, RunAlone
<1>6. Cardinality(Live) = 1
  BY <1>5, FS_Singleton
<1>7. running_cnt + InHandCount = 1 /\ running_cnt \in Int
  BY <1>1, <1>6 DEF Counted, Exact, WakeType
<1>8. pc["main"] \in Begun
  BY <1>7 DEF InHandCount
<1>9. cur = tsk
  BY <1>5, <1>8, TinaAssumption DEF RunType, Begun, Doing, Tasks
<1>10. pc["main"] \in {"unlock", "started"} /\ ~GivenUp
  BY <1>8, <1>9 DEF Meet, Hands, Ending, Begun, Doing, GivenUp
<1> QED
  BY <1>1, <1>3, <1>9, <1>10 DEF Slow, Held, Calm, Hands, Ending

\* What a step other than a boot does to the two sets and the two counts.
LEMMA Moves ==
  ASSUME RunType, WakeType, PlaceTypes, TaskTypes, Meet, Shape, HandRuns, FromTheFirst, AloneLive, Slow, Quiet, Counted, ~task_recover_after_reboot, [Next]_vars
  PROVE  Move
<1> USE TinaAssumption DEF RunType, WakeType, PlaceTypes, TaskTypes, Threads, Recycle
<1>1. ASSUME NEW h \in Threads, KillLimits(h) PROVE Move
  <2>1. /\ UNCHANGED <<status, cur, tsk, running_cnt, end_cnt>> /\ pc[h] = "kill" /\ T(h) \in Tasks
        /\ pc' = [pc EXCEPT ![h] = IF Carried(T(h)) THEN "clean" ELSE "sub"]
    BY <1>1 DEF KillLimits, others, local, tasks, counts, At, Goto, T
  <2>2. h = "main" => Carried(T(h))
    BY <2>1 DEF FromTheFirst, Carried, T
  <2> QED
    BY <2>1, <2>2, Resting DEF Begun, Move
<1>2. ASSUME NEW h \in Threads, task_clean_reboot(h) PROVE Move
  <2>1. /\ UNCHANGED <<status, cur, tsk>> /\ pc[h] = "clean" /\ pc' = [pc EXCEPT ![h] = "tell"]
        /\ reboot_mode' = FALSE
        /\ IF running_cnt > 0 THEN SUB ELSE UNCHANGED <<running_cnt, end_cnt>>
    BY <1>2 DEF task_clean_reboot, others, local, tasks, At, Goto
  <2>2. CASE h = "main"
    <3>1. running_cnt = 0
      BY <2>1, <2>2, MainUncounted
    <3>2. UNCHANGED <<running_cnt, end_cnt>>
      BY <2>1, <3>1
    <3> QED
      BY <2>1, <2>2, <3>2, Resting DEF Begun, Move
  <2>3. CASE h = Recycle
    <3>1. tsk \in Tasks /\ status[tsk] = "RUN"
      BY <2>1, <2>3 DEF HandRuns, Ending
    <3>2. /\ pc[Recycle] = "clean" /\ pc'[Recycle] = "tell" /\ pc'["main"] = pc["main"]
      BY <2>1, <2>3
    <3>3. Live' = Live \ {tsk} /\ Over' = Over \cup {tsk} /\ tsk \in Live
      <4>1. tsk \in Live
        BY <3>1, <3>2 DEF Live, IsLive
      <4>2. ~IsLive(tsk)'
        <5>1. ~(pc["main"] = "lastsub" /\ cur = tsk)
          BY <3>1 DEF Shape
        <5> QED
          BY <2>1, <3>2, <5>1 DEF IsLive
      <4>3. \A u \in Tasks \ {tsk} : (IsLive(u)' <=> IsLive(u)) /\ status'[u] = status[u]
        BY <2>1, <3>2 DEF IsLive
      <4> QED
        BY <2>1, <3>1, <4>1, <4>2, <4>3, Leaving
    <3>4. InHandCount' = InHandCount /\ InHandCount \in Int
      BY <3>2 DEF InHandCount
    <3>5. CASE running_cnt > 0
      <4>1. running_cnt' = running_cnt - 1 /\ end_cnt' = end_cnt + 1
        BY <2>1, <3>5 DEF SUB
      <4>2. Total' = Total - 1
        BY <3>4, <4>1 DEF Total
      <4> QED
        BY <3>1, <3>3, <4>1, <4>2 DEF Ends, Move
    <3>6. CASE ~(running_cnt > 0)
      <4>1. UNCHANGED <<running_cnt, end_cnt>>
        BY <2>1, <3>6
      <4>2. ~SlowChild /\ ~NoReboot
        BY <3>2, <3>6, DropsInexact
      <4>3. ~Exact'
        BY <2>1, <4>2 DEF Exact
      <4>4. Total' = Total
        BY <3>4, <4>1 DEF Total
      <4> QED
        BY <3>1, <3>3, <4>1, <4>3, <4>4 DEF Drops, Move
    <3> QED
      BY <3>5, <3>6
  <2> QED
    BY <2>2, <2>3
<1>3. ASSUME NEW h \in Threads, CountEnd(h) PROVE Move
  <2>1. /\ UNCHANGED <<status, cur, tsk>> /\ pc[h] = "sub" /\ pc' = [pc EXCEPT ![h] = "tell"]
        /\ running_cnt' = running_cnt - 1 /\ end_cnt' = end_cnt + 1
    BY <1>3 DEF CountEnd, others, local, tasks, At, Goto, SUB
  <2>2. h = Recycle
    BY <2>1 DEF FromTheFirst
  <2>3. tsk \in Tasks /\ status[tsk] = "RUN"
    BY <2>1, <2>2 DEF HandRuns, Ending
  <2>4. /\ pc[Recycle] = "sub" /\ pc'[Recycle] = "tell" /\ pc'["main"] = pc["main"]
    BY <2>1, <2>2
  <2>5. tsk \in Live
    BY <2>3, <2>4 DEF Live, IsLive
  <2>6. ~IsLive(tsk)'
    <3>1. ~(pc["main"] = "lastsub" /\ cur = tsk)
      BY <2>3 DEF Shape
    <3> QED
      BY <2>1, <2>4, <3>1 DEF IsLive
  <2>7. \A u \in Tasks \ {tsk} : (IsLive(u)' <=> IsLive(u)) /\ status'[u] = status[u]
    BY <2>1, <2>4 DEF IsLive
  <2>8. Total' = Total - 1
    <3>1. InHandCount' = InHandCount /\ InHandCount \in Int
      BY <2>4 DEF InHandCount
    <3> QED
      BY <2>1, <3>1 DEF Total
  <2>9. Live' = Live \ {tsk} /\ Over' = Over \cup {tsk}
    BY <2>1, <2>3, <2>5, <2>6, <2>7, Leaving
  <2> QED
    BY <2>1, <2>3, <2>5, <2>8, <2>9 DEF Ends, Move
<1>4. ASSUME NEW h \in Threads, TELL_PARENT(h) PROVE Move
  <2>1. /\ UNCHANGED <<cur, tsk, running_cnt, end_cnt>> /\ pc[h] = "tell" /\ T(h) \in Tasks
        /\ pc' = [pc EXCEPT ![h] = IF h = "main" THEN "lastsub" ELSE "again"]
        /\ status' = [status EXCEPT ![T(h)] = "END"]
    BY <1>4 DEF TELL_PARENT, others, local, At, Goto, T
  <2>2. Live' = Live /\ Over' = Over
    <3>1. \A u \in Tasks \ {T(h)} : (IsLive(u)' <=> IsLive(u)) /\ status'[u] = status[u]
      BY <2>1 DEF IsLive, T
    <3>2. status[T(h)] = "RUN" /\ status'[T(h)] = "END"
      BY <2>1 DEF T, Shape, HandRuns, Ending
    <3>3. IsLive(T(h))' <=> IsLive(T(h))
      <4>1. CASE h = "main"
        <5>1. ~(pc[Recycle] = "tell" /\ tsk = cur)
          BY <2>1, <4>1 DEF Meet, Hands, Ending
        <5>2. IsLive(cur)
          BY <2>1, <3>2, <4>1, <5>1 DEF IsLive, T
        <5>3. IsLive(cur)'
          BY <2>1, <4>1 DEF IsLive
        <5> QED
          BY <2>1, <4>1, <5>2, <5>3 DEF T
      <4>2. CASE h = Recycle
        <5>1. ~(pc["main"] = "lastsub" /\ cur = tsk)
          BY <3>2, <4>2 DEF Shape, T
        <5>2. ~IsLive(tsk)
          BY <2>1, <4>2, <5>1 DEF IsLive
        <5>3. ~IsLive(tsk)'
          BY <2>1, <3>2, <4>2, <5>1 DEF IsLive, T
        <5> QED
          BY <2>1, <4>2, <5>2, <5>3 DEF T
      <4> QED
        BY <4>1, <4>2
    <3>4. \A u \in Tasks : (IsLive(u)' <=> IsLive(u)) /\ (status'[u] = "WAIT" <=> status[u] = "WAIT")
      <4>1. \A u \in Tasks : u = T(h) => (IsLive(u)' <=> IsLive(u))
        BY <2>1, <3>3 DEF T, IsLive
      <4> QED
        BY <3>1, <3>2, <4>1
    <3> QED
      BY <3>4 DEF Live, Over
  <2>3. InHandCount' = InHandCount
    BY <2>1 DEF InHandCount, Begun
  <2> QED
    BY <2>1, <2>2, <2>3 DEF Rests, Move, Total
<1>5. ASSUME NEW h \in Threads, LockTask(h) PROVE Move
  <2>1. /\ UNCHANGED <<cur, tsk, status, running_cnt, end_cnt>>
        /\ pc[h] = "lock"
        /\ \E p \in {"reboot", "last"} : pc' = [pc EXCEPT ![h] = p]
    BY <1>5 DEF LockTask, rest, tasks, counts, At, Goto
  <2> QED
    BY <2>1, Resting DEF Move, Begun, Doing
<1>6. ASSUME NEW h \in Threads, task_init_reboot_mode(h) PROVE Move
  <2>1. /\ UNCHANGED <<cur, tsk, status, running_cnt, end_cnt>>
        /\ pc[h] = "reboot"
        /\ \E p \in {"status", "unlock"} : pc' = [pc EXCEPT ![h] = p]
    BY <1>6 DEF task_init_reboot_mode, counts, Leave, At, Goto
  <2> QED
    BY <2>1, Resting DEF Move, Begun, Doing
<1>7. ASSUME NEW h \in Threads, task_create_reboot_status(h) PROVE Move
  <2>1. /\ UNCHANGED <<cur, tsk, status, running_cnt, end_cnt>>
        /\ pc[h] \in {"status", "fill"}
        /\ \E p \in {"fill", "last", "unlock"} : pc' = [pc EXCEPT ![h] = p]
    BY <1>7 DEF task_create_reboot_status, tasks, counts, Leave, At, Goto
  <2> QED
    BY <2>1, Resting DEF Move, Begun, Doing
<1>8. ASSUME NEW h \in Threads, LastTimes(h) PROVE Move
  <2>1. /\ UNCHANGED <<status, cur, tsk, running_cnt, end_cnt>> /\ pc[h] = "last" /\ T(h) \in Tasks
        /\ pc' = [pc EXCEPT ![h] = IF run_times[T(h)] < Limit(T(h)) THEN "limits"
                                   ELSE IF reboot_mode THEN "kill" ELSE "lastsub"]
    BY <1>8 DEF LastTimes, others, local, rest, tasks, counts, At, Goto, T
  <2>2. h = "main" => pc'["main"] # "lastsub"
    <3> SUFFICES ASSUME h = "main" PROVE pc'["main"] # "lastsub"
      OBVIOUS
    <3>1. run_times[cur] = 0 \/ reboot_mode
      BY <2>1 DEF FromTheFirst
    <3>2. Limit(cur) \in Nat \ {0}
      BY <2>1 DEF Limit, T
    <3> QED
      BY <2>1, <3>1, <3>2 DEF T
  <2>3. h = "main" => pc'["main"] \in {"limits", "kill", "lastsub"}
    BY <2>1
  <2>4. pc'[Recycle] = "tell" <=> pc[Recycle] = "tell"
    BY <2>1
  <2>5. pc'["main"] # pc["main"] => h = "main"
    BY <2>1
  <2> QED
    BY <2>1, <2>2, <2>3, <2>4, <2>5, Resting DEF Begun, Move, Doing
<1>9. ASSUME NEW h \in Threads, LastSub(h) PROVE Move
  <2>1. /\ UNCHANGED <<status, cur, tsk>> /\ pc[h] = "lastsub" /\ pc' = [pc EXCEPT ![h] = "unlock"]
        /\ running_cnt' = running_cnt - 1 /\ end_cnt' = end_cnt + 1
    BY <1>9 DEF LastSub, tasks, Leave, At, Goto, SUB
  <2>2. h = "main"
    BY <2>1 DEF RecycleAt, Doing, Ending
  <2>3. cur \in Tasks /\ status[cur] = "END" /\ pc["main"] = "lastsub"
    BY <2>1, <2>2 DEF Shape
  <2>4. cur \in Live /\ ~IsLive(cur)'
    BY <2>1, <2>2, <2>3 DEF Live, IsLive
  <2>5. \A u \in Tasks \ {cur} : (IsLive(u)' <=> IsLive(u)) /\ status'[u] = status[u]
    BY <2>1, <2>2 DEF IsLive
  <2>6. Live' = Live \ {cur} /\ Over' = Over \cup {cur}
    BY <2>1, <2>3, <2>4, <2>5, Leaving
  <2>7. Total' = Total - 1
    <3>1. InHandCount' = 1 /\ InHandCount = 1
      BY <2>1, <2>2, <2>3 DEF InHandCount, Begun
    <3> QED
      BY <2>1, <3>1 DEF Total
  <2> QED
    BY <2>1, <2>3, <2>4, <2>6, <2>7 DEF Ends, Move
<1>10. ASSUME NEW h \in Threads, DoLimits(h) PROVE Move
  <2>1. /\ UNCHANGED <<cur, tsk, status, running_cnt, end_cnt>>
        /\ pc[h] = "limits"
        /\ \E p \in {"fork", "unlock"} : pc' = [pc EXCEPT ![h] = p]
    BY <1>10 DEF DoLimits, counts, Leave, At, Goto
  <2> QED
    BY <2>1, Resting DEF Move, Begun, Doing
<1>11. ASSUME NEW h \in Threads, ForkTestcase(h) PROVE Move
  <2>1. /\ UNCHANGED <<cur, tsk, status, running_cnt, end_cnt>>
        /\ pc[h] = "fork"
        /\ \E p \in {"record", "unlock"} : pc' = [pc EXCEPT ![h] = p]
    BY <1>11 DEF ForkTestcase, tasks, counts, Leave, At, Goto
  <2> QED
    BY <2>1, Resting DEF Move, Begun, Doing
<1>12. ASSUME NEW h \in Threads, RecordPid(h) PROVE Move
  <2>1. /\ UNCHANGED <<cur, tsk, status, running_cnt, end_cnt>>
        /\ pc[h] = "record"
        /\ \E p \in {"fork", "unlock"} : pc' = [pc EXCEPT ![h] = p]
    BY <1>12 DEF RecordPid, counts, Leave, At, Goto
  <2> QED
    BY <2>1, Resting DEF Move, Begun, Doing
<1>13. ASSUME NEW h \in Threads, UnlockTask(h) PROVE Move
  <2>1. /\ UNCHANGED <<status, cur, tsk, running_cnt, end_cnt>> /\ pc[h] = "unlock"
        /\ pc' = [pc EXCEPT ![h] = IF h = Recycle THEN "again" ELSE IF ret[h] THEN "started" ELSE "failed"]
    BY <1>13 DEF UnlockTask, rest, tasks, counts, At, Goto
  <2> QED
    BY <2>1, Resting DEF Begun, Move
<1>14. CASE ListTop
  <2>1. /\ UNCHANGED <<cur, tsk, status, running_cnt, end_cnt>>
        /\ pc["main"] = "list"
        /\ \E p \in {"join", "wait", "alone"} : pc' = [pc EXCEPT !["main"] = p]
    BY <1>14 DEF ListTop, others, local, rest, tasks, counts, At, Goto
  <2> QED
    BY <2>1, Resting DEF Move, Begun, Doing
<1>15. CASE WAIT_CHILD
  <2>1. /\ UNCHANGED <<cur, tsk, status, running_cnt, end_cnt>>
        /\ pc["main"] = "wait"
        /\ pc' = [pc EXCEPT !["main"] = "list"]
    BY <1>15 DEF WAIT_CHILD, tasks, others, local, At, Goto
  <2> QED
    BY <2>1, Resting DEF Move, Begun, Doing
<1>16. CASE BeginTask
  <2>1. pc["main"] = "alone" /\ cur \in Tasks /\ status[cur] = "WAIT"
    BY <1>16 DEF BeginTask, At, Shape
  <2>2. cur \notin Live /\ cur \notin Over
    <3>1. pc[Recycle] = "tell" => tsk # cur
      BY <2>1 DEF Meet, Hands, Ending
    <3> QED
      BY <2>1, <3>1 DEF Live, Over, IsLive
  <2>3. UNCHANGED <<tsk, running_cnt>> /\ pc'[Recycle] = pc[Recycle] /\ pc'["main"] \in {"list", "lock"}
    BY <1>16 DEF BeginTask, NextTask, Goto, ERR
  <2>4. CASE /\ status' = [status EXCEPT ![cur] = "END"] /\ pc'["main"] = "list" /\ end_cnt' = end_cnt + 1
             /\ reboot_mode
    <3>1. \A u \in Tasks \ {cur} : (IsLive(u)' <=> IsLive(u)) /\ status'[u] = status[u]
      BY <2>1, <2>3, <2>4 DEF IsLive
    <3>2. status'[cur] = "END" /\ ~(status'[cur] = "RUN" /\ ~(pc'[Recycle] = "tell" /\ tsk' = cur))
      BY <2>1, <2>4
    <3>3. \A t \in Tasks : t \in Live' <=> t \in Live
      <4>1. cur \notin Live'
        BY <2>4, <3>2 DEF Live, IsLive
      <4> QED
        BY <2>2, <3>1, <4>1 DEF Live
    <3>4. Live' = Live
      BY <3>3 DEF Live
    <3>5. Over' = Over \cup {cur}
      <4>1. \A t \in Tasks : t \in Over' <=> status'[t] # "WAIT" /\ t \notin Live'
        BY DEF Over, Live
      <4>2. \A t \in Tasks : t \in Over <=> status[t] # "WAIT" /\ t \notin Live
        BY DEF Over, Live
      <4>3. \A t \in Tasks : t \in Over' <=> t \in Over \/ t = cur
        BY <2>2, <3>1, <3>2, <3>4, <4>1, <4>2
      <4>4. Over' \subseteq Tasks /\ Over \subseteq Tasks
        BY DEF Over
      <4> QED
        BY <2>1, <4>3, <4>4
    <3>6. Total' = Total
      BY <2>1, <2>3, <2>4 DEF Total, InHandCount, Begun, Doing
    <3> QED
      BY <2>1, <2>2, <2>4, <3>4, <3>5, <3>6 DEF Passes, Move
  <2>5. CASE status' = [status EXCEPT ![cur] = "RUN"] /\ pc'["main"] = "lock" /\ UNCHANGED <<cur, end_cnt>>
    <3>1. \A u \in Tasks \ {cur} : (IsLive(u)' <=> IsLive(u)) /\ status'[u] = status[u]
      BY <2>1, <2>3, <2>5 DEF IsLive
    <3>2. IsLive(cur)' /\ status'[cur] = "RUN"
      <4>1. ~(pc[Recycle] = "tell" /\ tsk = cur)
        BY <2>1 DEF Meet, Hands, Ending
      <4> QED
        BY <2>1, <2>3, <2>5, <4>1 DEF IsLive
    <3>3. Live' = Live \cup {cur}
      BY <2>1, <2>5, <3>1, <3>2, ZenonT(40) DEF Live
    <3>4. \A t \in Tasks : t \in Over' <=> t \in Over
      BY <2>2, <2>5, <3>1, <3>2 DEF Over
    <3>5. Over' = Over
      BY <3>4 DEF Over
    <3>6. InHandCount = 0 /\ InHandCount' = 1
      BY <2>1, <2>5 DEF InHandCount, Begun, Doing
    <3>7. Total' = Total + 1
      BY <2>3, <3>6 DEF Total
    <3> QED
      BY <1>16, <2>1, <2>2, <2>5, <3>3, <3>5, <3>7 DEF Begins, Move
  <2> QED
    BY <1>16, <2>1, <2>4, <2>5 DEF BeginTask, NextTask, Goto, ERR
<1>17. CASE TaskStarted
  <2>1. /\ UNCHANGED <<status, cur, tsk, end_cnt>> /\ pc["main"] = "started"
        /\ pc' = [pc EXCEPT !["main"] = "after"] /\ running_cnt' = running_cnt + 1
    BY <1>17 DEF TaskStarted, others, local, tasks, At, Goto, ADD
  <2>2. \A t \in Tasks : IsLive(t)' <=> IsLive(t)
    BY <2>1 DEF IsLive
  <2>3. Live' = Live /\ Over' = Over
    BY <2>1, <2>2 DEF Live, Over
  <2>4. InHandCount = 1 /\ InHandCount' = 0
    BY <2>1 DEF InHandCount, Begun, Doing
  <2>5. Total' = Total
    BY <2>1, <2>4 DEF Total
  <2> QED
    BY <2>1, <2>3, <2>5 DEF Rests, Move
<1>18. CASE TaskFailed
  <2>1. /\ UNCHANGED <<tsk, running_cnt>> /\ pc["main"] = "failed" /\ end_cnt' = end_cnt + 1
        /\ pc' = [pc EXCEPT !["main"] = "list"] /\ status' = [status EXCEPT ![cur] = "END"]
    BY <1>18 DEF TaskFailed, NextTask, At, Goto, ERR
  <2>2. cur \in Tasks /\ status[cur] = "RUN"
    BY <2>1 DEF Shape, GivenUp
  <2>3. cur \in Live
    <3>1. ~(pc[Recycle] = "tell" /\ tsk = cur)
      BY <2>1 DEF Meet, Hands, Ending, GivenUp
    <3> QED
      BY <2>2, <3>1 DEF Live, IsLive
  <2>4. status'[cur] = "END" /\ pc'["main"] = "list" /\ pc'[Recycle] = pc[Recycle]
    BY <2>1, <2>2
  <2>5. \A u \in Tasks \ {cur} : (IsLive(u)' <=> IsLive(u)) /\ status'[u] = status[u]
    BY <2>1, <2>4 DEF IsLive
  <2>6. \A t \in Tasks : t = cur => ~IsLive(t)'
    BY <2>4 DEF IsLive
  <2>7. PICK t \in Tasks : t = cur
    BY <2>2
  <2>8. Live' = Live \ {t} /\ Over' = Over \cup {t}
    BY <2>3, <2>4, <2>5, <2>6, <2>7, Leaving
  <2>9. InHandCount = 1 /\ InHandCount' = 0
    BY <2>1, <2>4 DEF InHandCount, Begun, Doing
  <2>10. Total' = Total - 1
    BY <2>1, <2>9 DEF Total
  <2> QED
    BY <2>1, <2>3, <2>7, <2>8, <2>10 DEF Ends, Move
<1>19. CASE WaitAlone
  <2>1. /\ UNCHANGED <<status, tsk, running_cnt, end_cnt>> /\ pc["main"] = "after"
        /\ pc' = [pc EXCEPT !["main"] = "list"]
    BY <1>19 DEF WaitAlone, NextTask, rest, tasks, counts, At, Goto
  <2> QED
    BY <2>1, Resting DEF Begun, Move, Doing
<1>20. CASE task_quit_clean
  <2>1. /\ UNCHANGED <<pc, cur, tsk, status, running_cnt, end_cnt>>
        /\ pc["main"] = "join"
    BY <1>20 DEF task_quit_clean, sched, rest, tasks, counts, At, Goto
  <2> QED
    BY <2>1, Resting DEF Move, Begun, Doing
<1>21. CASE RecycleTop
  <2>1. /\ UNCHANGED <<cur, tsk, status, running_cnt, end_cnt>>
        /\ pc[Recycle] = "top"
        /\ \E p \in {"exit", "wait4"} : pc' = [pc EXCEPT ![Recycle] = p]
    BY <1>21 DEF RecycleTop, others, local, rest, tasks, counts, At, Goto
  <2> QED
    BY <2>1, Resting DEF Move
<1>22. CASE wait4
  <2>1. /\ UNCHANGED <<cur, tsk, status, running_cnt, end_cnt>>
        /\ pc[Recycle] = "wait4"
        /\ \E p \in {"match", "top"} : pc' = [pc EXCEPT ![Recycle] = p]
    BY <1>22 DEF wait4, tasks, counts, At, Goto
  <2> QED
    BY <2>1, Resting DEF Move
<1>23. CASE MatchLeader
  <2>1. /\ UNCHANGED <<cur, tsk, status, running_cnt, end_cnt>>
        /\ pc[Recycle] = "match"
        /\ pc' = [pc EXCEPT ![Recycle] = "top"]
    BY <1>23 DEF MatchLeader, counts, local, At, Goto
  <2> QED
    BY <2>1, Resting DEF Move
<1>24. CASE task_recycle_once
  <2>1. /\ UNCHANGED <<cur, status, running_cnt, end_cnt>>
        /\ pc[Recycle] = "match"
        /\ pc' = [pc EXCEPT ![Recycle] = "check"]
    BY <1>24 DEF task_recycle_once, counts, At, Goto
  <2> QED
    BY <2>1, Resting DEF Move
<1>25. CASE NoMatch
  <2>1. /\ UNCHANGED <<cur, tsk, status, running_cnt, end_cnt>>
        /\ pc[Recycle] = "match"
        /\ pc' = [pc EXCEPT ![Recycle] = "top"]
    BY <1>25 DEF NoMatch, tasks, counts, local, At, Goto
  <2> QED
    BY <2>1, Resting DEF Move
<1>26. CASE task_check_end
  <2>1. /\ UNCHANGED <<status, cur, tsk, running_cnt, end_cnt>> /\ pc[Recycle] = "check"
        /\ \E p \in {"kill", "again", "lock"} : pc' = [pc EXCEPT ![Recycle] = p]
    BY <1>26 DEF task_check_end, others, local, rest, tasks, counts, At, Goto
  <2> QED
    BY <2>1, Resting DEF Move
<1>27. CASE Again
  <2>1. /\ UNCHANGED <<cur, tsk, status, running_cnt, end_cnt>>
        /\ pc[Recycle] = "again"
        /\ \E p \in {"exit", "top"} : pc' = [pc EXCEPT ![Recycle] = p]
    BY <1>27 DEF Again, local, rest, tasks, counts, At, Goto
  <2> QED
    BY <2>1, Resting DEF Move
<1>28. ASSUME NEW t \in Tasks, OnceLimit(t) PROVE Move
  <2>1. UNCHANGED <<pc, cur, tsk, status, running_cnt, end_cnt>>
    BY <1>28 DEF OnceLimit, sched, tasks, counts, At, Goto
  <2> QED
    BY <2>1, Resting DEF Move
<1>29. ASSUME NEW t \in Tasks, WholeLimit(t) PROVE Move
  <2>1. UNCHANGED <<pc, cur, tsk, status, running_cnt, end_cnt>>
    BY <1>29 DEF WholeLimit, sched, counts, At, Goto
  <2> QED
    BY <2>1, Resting DEF Move
<1>30. ASSUME NEW t \in Tasks, NEW k \in Slots, Exit(t, k) PROVE Move
  <2>1. UNCHANGED <<pc, cur, tsk, status, running_cnt, end_cnt>>
    BY <1>30 DEF Exit, sched, tasks, counts, At, Goto
  <2> QED
    BY <2>1, Resting DEF Move
<1>31. CASE task_signal_quit
  <2>1. UNCHANGED <<pc, cur, tsk, status, running_cnt, end_cnt>>
    BY <1>31 DEF task_signal_quit, sched, tasks, counts, At, Goto
  <2> QED
    BY <2>1, Resting DEF Move
<1>32. CASE PowerOff
  <2>1. UNCHANGED <<pc, cur, tsk, status, running_cnt, end_cnt>>
    BY <1>32 DEF PowerOff, sched, tasks, counts, At, Goto
  <2> QED
    BY <2>1, Resting DEF Move
<1>33. CASE task_recover_after_reboot
  BY <1>33
<1>34. CASE Stopped \/ UNCHANGED vars
  <2>1. UNCHANGED <<pc, cur, tsk, status, running_cnt, end_cnt>>
    BY <1>34 DEF Stopped, vars
  <2> QED
    BY <2>1, Resting DEF Move
<1>35. CASE task_do_crash
  <2>1. UNCHANGED <<pc, cur, tsk, status, running_cnt, end_cnt>>
    BY <1>35 DEF task_do_crash, sched, tasks, counts, At, Goto
  <2> QED
    BY <2>1, Resting DEF Move
<1> QED
  BY <1>1, <1>2, <1>3, <1>4, <1>5, <1>6, <1>7, <1>8, <1>9, <1>10, <1>11, <1>12, <1>13, <1>14,
     <1>15, <1>16, <1>17, <1>18, <1>19, <1>20, <1>21, <1>22, <1>23, <1>24, <1>25, <1>26, <1>27,
     <1>28, <1>29, <1>30, <1>31, <1>32, <1>33, <1>34, <1>35
  DEF Next, Main, Recycler, Thread, task_begin, task_recycle, task_do, task_recycle_end, Threads,
      Recycle


\* The sets are finite.
LEMMA SetsFinite ==
  /\ IsFiniteSet(Tasks) /\ Cardinality(Tasks) = N
  /\ Live \subseteq Tasks /\ IsFiniteSet(Live) /\ Cardinality(Live) \in Nat
  /\ Over \subseteq Tasks /\ IsFiniteSet(Over) /\ Cardinality(Over) \in Nat
<1>1. IsFiniteSet(Tasks) /\ Cardinality(Tasks) = N
  <2>1. N \in Int /\ 1 \in Int /\ ~(1 > N) /\ N - 1 + 1 = N
    BY TinaAssumption
  <2>2. IsFiniteSet(1 .. N) /\ Cardinality(1 .. N) = IF 1 > N THEN 0 ELSE N - 1 + 1
    BY <2>1, FS_Interval
  <2> QED
    BY <2>1, <2>2 DEF Tasks
<1>2. Live \in SUBSET Tasks /\ Over \in SUBSET Tasks
  BY DEF Live, Over
<1>3. IsFiniteSet(Live) /\ IsFiniteSet(Over)
  BY <1>1, <1>2, FS_Subset
<1>4. Cardinality(Live) \in Nat /\ Cardinality(Over) \in Nat
  BY <1>3, FS_CardinalityType
<1> QED
  BY <1>1, <1>2, <1>3, <1>4

\* No task both runs and is over.
LEMMA Disjoint == Live \cap Over = {}
  BY DEF Live, Over

\* Only a boot begins reboot mode.
LEMMA ModeKept ==
  ASSUME ~task_recover_after_reboot, [Next]_vars
  PROVE  reboot_mode' => reboot_mode
<1> USE TinaAssumption
<1>1. ASSUME NEW h \in Threads, KillLimits(h) PROVE reboot_mode' => reboot_mode
  BY <1>1 DEF KillLimits, reboots
<1>2. ASSUME NEW h \in Threads, task_clean_reboot(h) PROVE reboot_mode' => reboot_mode
  BY <1>2 DEF task_clean_reboot
<1>3. ASSUME NEW h \in Threads, CountEnd(h) PROVE reboot_mode' => reboot_mode
  BY <1>3 DEF CountEnd, reboots
<1>4. ASSUME NEW h \in Threads, TELL_PARENT(h) PROVE reboot_mode' => reboot_mode
  BY <1>4 DEF TELL_PARENT, reboots
<1>5. ASSUME NEW h \in Threads, LockTask(h) PROVE reboot_mode' => reboot_mode
  BY <1>5 DEF LockTask, rest, reboots
<1>6. ASSUME NEW h \in Threads, task_init_reboot_mode(h) PROVE reboot_mode' => reboot_mode
  BY <1>6 DEF task_init_reboot_mode, reboots
<1>7. ASSUME NEW h \in Threads, task_create_reboot_status(h) PROVE reboot_mode' => reboot_mode
  BY <1>7 DEF task_create_reboot_status
<1>8. ASSUME NEW h \in Threads, LastTimes(h) PROVE reboot_mode' => reboot_mode
  BY <1>8 DEF LastTimes, rest, reboots
<1>9. ASSUME NEW h \in Threads, LastSub(h) PROVE reboot_mode' => reboot_mode
  BY <1>9 DEF LastSub, reboots
<1>10. ASSUME NEW h \in Threads, DoLimits(h) PROVE reboot_mode' => reboot_mode
  BY <1>10 DEF DoLimits, reboots
<1>11. ASSUME NEW h \in Threads, ForkTestcase(h) PROVE reboot_mode' => reboot_mode
  BY <1>11 DEF ForkTestcase, reboots
<1>12. ASSUME NEW h \in Threads, RecordPid(h) PROVE reboot_mode' => reboot_mode
  BY <1>12 DEF RecordPid, reboots
<1>13. ASSUME NEW h \in Threads, UnlockTask(h) PROVE reboot_mode' => reboot_mode
  BY <1>13 DEF UnlockTask, rest, reboots
<1>14. CASE ListTop
  BY <1>14 DEF ListTop, rest, reboots
<1>15. CASE WAIT_CHILD
  BY <1>15 DEF WAIT_CHILD, reboots
<1>16. CASE BeginTask
  BY <1>16 DEF BeginTask, reboots
<1>17. CASE TaskStarted
  BY <1>17 DEF TaskStarted, reboots
<1>18. CASE TaskFailed
  BY <1>18 DEF TaskFailed, reboots
<1>19. CASE WaitAlone
  BY <1>19 DEF WaitAlone, rest, reboots
<1>20. CASE task_quit_clean
  BY <1>20 DEF task_quit_clean, rest, reboots
<1>21. CASE RecycleTop
  BY <1>21 DEF RecycleTop, rest, reboots
<1>22. CASE wait4
  <2>1. UNCHANGED <<reboot_mode>> /\ \E p \in {"match", "top"} : pc' = [pc EXCEPT ![Recycle] = p]
    BY <1>22 DEF wait4, reboots, Goto, At
  <2> QED
    BY <1>22, <2>1 DEF wait4
<1>23. CASE MatchLeader
  BY <1>23 DEF MatchLeader, reboots
<1>24. CASE task_recycle_once
  BY <1>24 DEF task_recycle_once, reboots
<1>25. CASE NoMatch
  BY <1>25 DEF NoMatch, reboots
<1>26. CASE task_check_end
  BY <1>26 DEF task_check_end, rest, reboots
<1>27. CASE Again
  BY <1>27 DEF Again, rest, reboots
<1>28. ASSUME NEW t \in Tasks, OnceLimit(t) PROVE reboot_mode' => reboot_mode
  BY <1>28 DEF OnceLimit, reboots
<1>29. ASSUME NEW t \in Tasks, WholeLimit(t) PROVE reboot_mode' => reboot_mode
  BY <1>29 DEF WholeLimit, reboots
<1>30. ASSUME NEW t \in Tasks, NEW k \in Slots, Exit(t, k) PROVE reboot_mode' => reboot_mode
  BY <1>30 DEF Exit, reboots
<1>31. CASE task_signal_quit
  BY <1>31 DEF task_signal_quit, reboots
<1>32. CASE PowerOff
  BY <1>32 DEF PowerOff, reboots
<1>33. CASE task_recover_after_reboot
  BY <1>33
<1>34. CASE Stopped \/ UNCHANGED vars
  <2>1. UNCHANGED <<reboot_mode>>
    BY <1>34 DEF Stopped, vars
  <2> QED
    BY <2>1
<1>35. CASE task_do_crash
  BY <1>35 DEF task_do_crash, reboots
<1> QED
  BY <1>1, <1>2, <1>3, <1>4, <1>5, <1>6, <1>7, <1>8, <1>9, <1>10, <1>11, <1>12, <1>13, <1>14,
     <1>15, <1>16, <1>17, <1>18, <1>19, <1>20, <1>21, <1>22, <1>23, <1>24, <1>25, <1>26, <1>27,
     <1>28, <1>29, <1>30, <1>31, <1>32, <1>33, <1>34, <1>35
  DEF Next, Main, Recycler, Thread, task_begin, task_recycle, task_do, task_recycle_end, Threads,
      Recycle

\* The counts after a move.
LEMMA CountedMove ==
  ASSUME WakeType, TaskTypes, Counted, Move, Exact' => Exact
  PROVE  Counted'
<1>1. running_cnt \in Int /\ end_cnt \in Int /\ InHandCount \in Int /\ Total \in Int
  BY DEF WakeType, TaskTypes, InHandCount, Total
<1> DEFINE l == Cardinality(Live)  v == Cardinality(Over)
<1>2. l \in Int /\ v \in Int
  BY SetsFinite
<1>3. /\ Total >= l /\ end_cnt <= v
      /\ Exact => Total = l /\ end_cnt = v
  BY DEF Counted, Total
<1>4. SUFFICES /\ Total' >= Cardinality(Live') /\ end_cnt' <= Cardinality(Over')
               /\ Exact' => Total' = Cardinality(Live') /\ end_cnt' = Cardinality(Over')
  BY DEF Counted, Total
<1> HIDE DEF l, v
<1>5. CASE Rests
  BY <1>3, <1>5 DEF Rests, l, v
<1>6. CASE Begins
  <2>1. Cardinality(Live') = l + 1
    BY <1>6, SetsFinite, FS_AddElement DEF Begins, l
  <2> QED
    BY <1>1, <1>2, <1>3, <1>6, <2>1 DEF Begins, v
<1>7. CASE Passes
  <2>1. Cardinality(Over') = v + 1
    BY <1>7, SetsFinite, FS_AddElement DEF Passes, v
  <2> QED
    BY <1>1, <1>2, <1>3, <1>7, <2>1 DEF Passes, l
<1>8. ASSUME NEW t \in Tasks, t \in Live, Live' = Live \ {t}, Over' = Over \cup {t}
      PROVE  Cardinality(Live') = l - 1 /\ Cardinality(Over') = v + 1
  <2>1. t \notin Over
    BY <1>8, Disjoint
  <2>2. Cardinality(Live \ {t}) = l - 1
    BY <1>8, SetsFinite, FS_RemoveElement DEF l
  <2>3. Cardinality(Over \cup {t}) = v + 1
    BY <2>1, SetsFinite, FS_AddElement DEF v
  <2> QED
    BY <1>8, <2>2, <2>3
<1>9. ASSUME NEW t \in Tasks, Ends(t)
      PROVE  /\ Total' >= Cardinality(Live') /\ end_cnt' <= Cardinality(Over')
             /\ Exact' => Total' = Cardinality(Live') /\ end_cnt' = Cardinality(Over')
  <2>1. Cardinality(Live') = l - 1 /\ Cardinality(Over') = v + 1
    BY <1>8, <1>9 DEF Ends
  <2>2. Total' = Total - 1 /\ end_cnt' = end_cnt + 1
    BY <1>9 DEF Ends
  <2> QED
    BY <1>1, <1>2, <1>3, <2>1, <2>2
<1>10. ASSUME NEW t \in Tasks, Drops(t)
      PROVE  /\ Total' >= Cardinality(Live') /\ end_cnt' <= Cardinality(Over')
             /\ Exact' => Total' = Cardinality(Live') /\ end_cnt' = Cardinality(Over')
  <2>1. Cardinality(Live') = l - 1 /\ Cardinality(Over') = v + 1
    BY <1>8, <1>10 DEF Drops
  <2>2. Total' = Total /\ end_cnt' = end_cnt /\ ~Exact'
    BY <1>10 DEF Drops
  <2> QED
    BY <1>1, <1>2, <1>3, <2>1, <2>2
<1> QED
  BY <1>5, <1>6, <1>7, <1>9, <1>10 DEF Move

\* A boot: nothing runs and nothing is over.
LEMMA RecoverEmpty ==
  ASSUME task_recover_after_reboot
  PROVE  Live' = {} /\ Over' = {} /\ Counted' /\ AloneLive'
<1>1. \A t \in Tasks : status'[t] = "WAIT"
  BY DEF task_recover_after_reboot, Every
<1>2. pc'["main"] = "list"
  BY DEF task_recover_after_reboot, AtStart, Threads
<1>3. Live' = {} /\ Over' = {}
  BY <1>1, <1>2 DEF Live, Over, IsLive
<1>4. running_cnt' = 0 /\ end_cnt' = 0 /\ InHandCount' = 0
  BY <1>2 DEF task_recover_after_reboot, InHandCount, Begun, Doing
<1>5. Cardinality(Live') = 0 /\ Cardinality(Over') = 0
  BY <1>3, FS_EmptySet
<1> QED
  BY <1>3, <1>4, <1>5 DEF Counted, AloneLive

\* The counts cover what runs.
LEMMA CountedKept ==
  ASSUME RunType, WakeType, PlaceTypes, TaskTypes, Meet, Shape, HandRuns, FromTheFirst, AloneLive,
         Slow, Quiet, Counted, [Next]_vars
  PROVE  Counted'
<1>1. CASE task_recover_after_reboot
  BY <1>1, RecoverEmpty
<1>2. CASE ~task_recover_after_reboot
  <2>1. Exact' => Exact
    BY <1>2, ModeKept DEF Exact
  <2>2. Move
    BY <1>2, Moves
  <2> QED
    BY <2>1, <2>2, CountedMove
<1> QED
  BY <1>1, <1>2



-----------------------------------------------------------------------------
(* What must run alone does. *)

\* Where the main thread is with a task it has begun.
With == Begun \cup {"after"}

\* The main thread stays with its task, and no task begins.
LEMMA AloneStays ==
  ASSUME AloneLive, Live' \subseteq Live, cur' = cur, pc["main"] \in With => pc'["main"] \in With
  PROVE  AloneLive'
  BY DEF AloneLive, With

\* When nobody waits for a task that runs alone, it has ended or is the last.
LEMMA NotAwaitedLast ==
  ASSUME RunType, WakeType, TaskTypes, Shape, AloneLive, Counted, ~Awaited, pc["main"] = "after",
         NEW t \in Live, RunAlone(t)
  PROVE  cur = N
<1>1. cur \in Tasks /\ Live = {t} /\ cur = t /\ t \in Tasks
  <2>1. cur \in Tasks
    BY DEF RunType
  <2>2. Live = {t} /\ (cur = t \/ cur = N + 1) /\ t \in Tasks
    BY DEF AloneLive, Live
  <2> QED
    BY <2>1, <2>2, TinaAssumption DEF Tasks
<1>2. Cardinality(Live) = 1
  BY <1>1, FS_Singleton
<1>3. InHandCount = 0 /\ running_cnt \in Int /\ end_cnt \in Int
  BY DEF InHandCount, Begun, Doing, WakeType, TaskTypes
<1>4. running_cnt > 0
  BY <1>2, <1>3 DEF Counted
<1>5. end_cnt + 1 = N
  BY <1>1, <1>4 DEF Awaited
<1>6. SUFFICES ASSUME cur < N PROVE FALSE
  BY <1>1, TinaAssumption DEF Tasks
<1>7. N \in Tasks /\ status[N] = "WAIT" /\ N # t
  BY <1>1, <1>6, TinaAssumption DEF Tasks, Shape
<1>8. Over \subseteq (Tasks \ {t}) \ {N}
  BY <1>1, <1>7 DEF Over, Live
<1>9. IsFiniteSet((Tasks \ {t}) \ {N}) /\ Cardinality((Tasks \ {t}) \ {N}) = N - 2
  <2>1. IsFiniteSet(Tasks \ {t}) /\ Cardinality(Tasks \ {t}) = N - 1
    BY <1>1, SetsFinite, FS_RemoveElement
  <2>2. N \in Tasks \ {t} /\ N \in Int
    BY <1>7, TinaAssumption
  <2>3. IsFiniteSet((Tasks \ {t}) \ {N}) /\ Cardinality((Tasks \ {t}) \ {N}) = (N - 1) - 1
    BY ZenonT(40), <2>1, <2>2, FS_RemoveElement
  <2> QED
    BY <2>2, <2>3
<1>10. Cardinality(Over) <= N - 2
  BY <1>8, <1>9, FS_Subset
<1> QED
  BY <1>3, <1>5, <1>10, SetsFinite, TinaAssumption DEF Counted

\* Of the other steps none takes the main thread from its task.
LEMMA StaysWith ==
  ASSUME RunType, FromTheFirst, ~BeginTask, ~TaskFailed, ~WaitAlone, ~task_recover_after_reboot, [Next]_vars
  PROVE  cur' = cur /\ (pc["main"] \in With => pc'["main"] \in With)
<1> USE TinaAssumption DEF RunType, Threads, Recycle
<1>1. ASSUME NEW h \in Threads, KillLimits(h) PROVE cur' = cur /\ (pc["main"] \in With => pc'["main"] \in With)
  <2>1. /\ UNCHANGED cur /\ pc[h] = "kill" /\ T(h) \in Tasks
        /\ pc' = [pc EXCEPT ![h] = IF Carried(T(h)) THEN "clean" ELSE "sub"]
    BY <1>1 DEF KillLimits, others, local, At, Goto, T
  <2>2. h = "main" => Carried(T(h))
    BY <2>1 DEF FromTheFirst, Carried, T
  <2> QED
    BY <2>1, <2>2 DEF Begun, With
<1>2. ASSUME NEW h \in Threads, task_clean_reboot(h) PROVE cur' = cur /\ (pc["main"] \in With => pc'["main"] \in With)
  <2>1. /\ UNCHANGED <<cur>>
        /\ pc[h] = "clean"
        /\ pc' = [pc EXCEPT ![h] = "tell"]
    BY <1>2 DEF task_clean_reboot, others, local, At, Goto
  <2> QED
    BY <2>1 DEF With, Begun, Doing
<1>3. ASSUME NEW h \in Threads, CountEnd(h) PROVE cur' = cur /\ (pc["main"] \in With => pc'["main"] \in With)
  <2>1. /\ UNCHANGED <<cur>>
        /\ pc[h] = "sub"
        /\ pc' = [pc EXCEPT ![h] = "tell"]
    BY <1>3 DEF CountEnd, others, local, At, Goto
  <2> QED
    BY <2>1 DEF With, Begun, Doing
<1>4. ASSUME NEW h \in Threads, TELL_PARENT(h) PROVE cur' = cur /\ (pc["main"] \in With => pc'["main"] \in With)
  <2>1. /\ UNCHANGED cur /\ pc[h] = "tell"
        /\ pc' = [pc EXCEPT ![h] = IF h = "main" THEN "lastsub" ELSE "again"]
    BY <1>4 DEF TELL_PARENT, others, local, At, Goto
  <2> QED
    BY <2>1 DEF With, Begun
<1>5. ASSUME NEW h \in Threads, LockTask(h) PROVE cur' = cur /\ (pc["main"] \in With => pc'["main"] \in With)
  <2>1. /\ UNCHANGED <<cur>>
        /\ pc[h] = "lock"
        /\ \E p \in {"reboot", "last"} : pc' = [pc EXCEPT ![h] = p]
    BY <1>5 DEF LockTask, At, Goto
  <2> QED
    BY <2>1 DEF With, Begun, Doing
<1>6. ASSUME NEW h \in Threads, task_init_reboot_mode(h) PROVE cur' = cur /\ (pc["main"] \in With => pc'["main"] \in With)
  <2>1. /\ UNCHANGED <<cur>>
        /\ pc[h] = "reboot"
        /\ \E p \in {"status", "unlock"} : pc' = [pc EXCEPT ![h] = p]
    BY <1>6 DEF task_init_reboot_mode, Leave, At, Goto
  <2> QED
    BY <2>1 DEF With, Begun, Doing
<1>7. ASSUME NEW h \in Threads, task_create_reboot_status(h) PROVE cur' = cur /\ (pc["main"] \in With => pc'["main"] \in With)
  <2>1. /\ UNCHANGED <<cur>>
        /\ pc[h] \in {"status", "fill"}
        /\ \E p \in {"fill", "last", "unlock"} : pc' = [pc EXCEPT ![h] = p]
    BY <1>7 DEF task_create_reboot_status, Leave, At, Goto
  <2> QED
    BY <2>1 DEF With, Begun, Doing
<1>8. ASSUME NEW h \in Threads, LastTimes(h) PROVE cur' = cur /\ (pc["main"] \in With => pc'["main"] \in With)
  <2>1. /\ UNCHANGED <<cur>>
        /\ pc[h] = "last"
        /\ \E p \in {"limits", "kill", "lastsub"} : pc' = [pc EXCEPT ![h] = p]
    BY <1>8 DEF LastTimes, others, local, At, Goto
  <2> QED
    BY <2>1 DEF With, Begun, Doing
<1>9. ASSUME NEW h \in Threads, LastSub(h) PROVE cur' = cur /\ (pc["main"] \in With => pc'["main"] \in With)
  <2>1. /\ UNCHANGED <<cur>>
        /\ pc[h] = "lastsub"
        /\ pc' = [pc EXCEPT ![h] = "unlock"]
    BY <1>9 DEF LastSub, Leave, At, Goto
  <2> QED
    BY <2>1 DEF With, Begun, Doing
<1>10. ASSUME NEW h \in Threads, DoLimits(h) PROVE cur' = cur /\ (pc["main"] \in With => pc'["main"] \in With)
  <2>1. /\ UNCHANGED <<cur>>
        /\ pc[h] = "limits"
        /\ \E p \in {"fork", "unlock"} : pc' = [pc EXCEPT ![h] = p]
    BY <1>10 DEF DoLimits, Leave, At, Goto
  <2> QED
    BY <2>1 DEF With, Begun, Doing
<1>11. ASSUME NEW h \in Threads, ForkTestcase(h) PROVE cur' = cur /\ (pc["main"] \in With => pc'["main"] \in With)
  <2>1. /\ UNCHANGED <<cur>>
        /\ pc[h] = "fork"
        /\ \E p \in {"record", "unlock"} : pc' = [pc EXCEPT ![h] = p]
    BY <1>11 DEF ForkTestcase, Leave, At, Goto
  <2> QED
    BY <2>1 DEF With, Begun, Doing
<1>12. ASSUME NEW h \in Threads, RecordPid(h) PROVE cur' = cur /\ (pc["main"] \in With => pc'["main"] \in With)
  <2>1. /\ UNCHANGED <<cur>>
        /\ pc[h] = "record"
        /\ \E p \in {"fork", "unlock"} : pc' = [pc EXCEPT ![h] = p]
    BY <1>12 DEF RecordPid, Leave, At, Goto
  <2> QED
    BY <2>1 DEF With, Begun, Doing
<1>13. ASSUME NEW h \in Threads, UnlockTask(h) PROVE cur' = cur /\ (pc["main"] \in With => pc'["main"] \in With)
  <2>1. /\ UNCHANGED cur /\ pc[h] = "unlock"
        /\ pc' = [pc EXCEPT ![h] = IF h = Recycle THEN "again" ELSE IF ret[h] THEN "started" ELSE "failed"]
    BY <1>13 DEF UnlockTask, At, Goto
  <2> QED
    BY <2>1 DEF With, Begun
<1>14. CASE ListTop
  <2>1. /\ UNCHANGED <<cur>>
        /\ pc["main"] = "list"
        /\ \E p \in {"join", "wait", "alone"} : pc' = [pc EXCEPT !["main"] = p]
    BY <1>14 DEF ListTop, others, local, At, Goto
  <2> QED
    BY <2>1 DEF With, Begun, Doing
<1>15. CASE WAIT_CHILD
  <2>1. /\ UNCHANGED <<cur>>
        /\ pc["main"] = "wait"
        /\ pc' = [pc EXCEPT !["main"] = "list"]
    BY <1>15 DEF WAIT_CHILD, others, local, At, Goto
  <2> QED
    BY <2>1 DEF With, Begun, Doing
<1>16. CASE BeginTask
  BY <1>16
<1>17. CASE TaskStarted
  <2>1. /\ UNCHANGED <<cur>>
        /\ pc["main"] = "started"
        /\ pc' = [pc EXCEPT !["main"] = "after"]
    BY <1>17 DEF TaskStarted, others, local, At, Goto
  <2> QED
    BY <2>1 DEF With, Begun, Doing
<1>18. CASE TaskFailed
  BY <1>18
<1>19. CASE WaitAlone
  BY <1>19
<1>20. CASE task_quit_clean
  <2>1. /\ UNCHANGED <<pc, cur>>
        /\ pc["main"] = "join"
    BY <1>20 DEF task_quit_clean, sched, At, Goto
  <2> QED
    BY <2>1 DEF With, Begun, Doing
<1>21. CASE RecycleTop
  <2>1. /\ UNCHANGED <<cur>>
        /\ pc[Recycle] = "top"
        /\ \E p \in {"exit", "wait4"} : pc' = [pc EXCEPT ![Recycle] = p]
    BY <1>21 DEF RecycleTop, others, local, At, Goto
  <2> QED
    BY <2>1 DEF With
<1>22. CASE wait4
  <2>1. /\ UNCHANGED <<cur>>
        /\ pc[Recycle] = "wait4"
        /\ \E p \in {"match", "top"} : pc' = [pc EXCEPT ![Recycle] = p]
    BY <1>22 DEF wait4, At, Goto
  <2> QED
    BY <2>1 DEF With
<1>23. CASE MatchLeader
  <2>1. /\ UNCHANGED <<cur>>
        /\ pc[Recycle] = "match"
        /\ pc' = [pc EXCEPT ![Recycle] = "top"]
    BY <1>23 DEF MatchLeader, local, At, Goto
  <2> QED
    BY <2>1 DEF With
<1>24. CASE task_recycle_once
  <2>1. /\ UNCHANGED <<cur>>
        /\ pc[Recycle] = "match"
        /\ pc' = [pc EXCEPT ![Recycle] = "check"]
    BY <1>24 DEF task_recycle_once, At, Goto
  <2> QED
    BY <2>1 DEF With
<1>25. CASE NoMatch
  <2>1. /\ UNCHANGED <<cur>>
        /\ pc[Recycle] = "match"
        /\ pc' = [pc EXCEPT ![Recycle] = "top"]
    BY <1>25 DEF NoMatch, local, At, Goto
  <2> QED
    BY <2>1 DEF With
<1>26. CASE task_check_end
  <2>1. /\ UNCHANGED <<cur>>
        /\ pc[Recycle] = "check"
        /\ \E p \in {"kill", "again", "lock"} : pc' = [pc EXCEPT ![Recycle] = p]
    BY <1>26 DEF task_check_end, others, local, At, Goto
  <2> QED
    BY <2>1 DEF With
<1>27. CASE Again
  <2>1. /\ UNCHANGED <<cur>>
        /\ pc[Recycle] = "again"
        /\ \E p \in {"exit", "top"} : pc' = [pc EXCEPT ![Recycle] = p]
    BY <1>27 DEF Again, local, At, Goto
  <2> QED
    BY <2>1 DEF With
<1>28. ASSUME NEW t \in Tasks, OnceLimit(t) PROVE cur' = cur /\ (pc["main"] \in With => pc'["main"] \in With)
  <2>1. UNCHANGED <<pc, cur>>
    BY <1>28 DEF OnceLimit, sched, At, Goto
  <2> QED
    BY <2>1 DEF With
<1>29. ASSUME NEW t \in Tasks, WholeLimit(t) PROVE cur' = cur /\ (pc["main"] \in With => pc'["main"] \in With)
  <2>1. UNCHANGED <<pc, cur>>
    BY <1>29 DEF WholeLimit, sched, At, Goto
  <2> QED
    BY <2>1 DEF With
<1>30. ASSUME NEW t \in Tasks, NEW k \in Slots, Exit(t, k) PROVE cur' = cur /\ (pc["main"] \in With => pc'["main"] \in With)
  <2>1. UNCHANGED <<pc, cur>>
    BY <1>30 DEF Exit, sched, At, Goto
  <2> QED
    BY <2>1 DEF With
<1>31. CASE task_signal_quit
  <2>1. UNCHANGED <<pc, cur>>
    BY <1>31 DEF task_signal_quit, sched, At, Goto
  <2> QED
    BY <2>1 DEF With
<1>32. CASE PowerOff
  <2>1. UNCHANGED <<pc, cur>>
    BY <1>32 DEF PowerOff, sched, At, Goto
  <2> QED
    BY <2>1 DEF With
<1>33. CASE task_recover_after_reboot
  BY <1>33
<1>34. CASE Stopped \/ UNCHANGED vars
  <2>1. UNCHANGED <<pc, cur>>
    BY <1>34 DEF Stopped, vars
  <2> QED
    BY <2>1
<1>35. CASE task_do_crash
  <2>1. UNCHANGED <<pc, cur>>
    BY <1>35 DEF task_do_crash, sched, At, Goto
  <2> QED
    BY <2>1 DEF With
<1> QED
  BY <1>1, <1>2, <1>3, <1>4, <1>5, <1>6, <1>7, <1>8, <1>9, <1>10, <1>11, <1>12, <1>13, <1>14,
     <1>15, <1>16, <1>17, <1>18, <1>19, <1>20, <1>21, <1>22, <1>23, <1>24, <1>25, <1>26, <1>27,
     <1>28, <1>29, <1>30, <1>31, <1>32, <1>33, <1>34, <1>35
  DEF Next, Main, Recycler, Thread, task_begin, task_recycle, task_do, task_recycle_end, Threads,
      Recycle

\* What must run alone is all that runs.
LEMMA AloneKept ==
  ASSUME RunType, WakeType, PlaceTypes, TaskTypes, Meet, Shape, HandRuns, FromTheFirst, AloneLive,
         Slow, Quiet, Counted, [Next]_vars
  PROVE  AloneLive'
<1>a. ~task_recover_after_reboot /\ ~BeginTask => Live' \subseteq Live
  <2> SUFFICES ASSUME ~task_recover_after_reboot, ~BeginTask PROVE Live' \subseteq Live
    OBVIOUS
  <2>1. Move
    BY Moves
  <2> QED
    BY <2>1 DEF Move, Begins, Rests, Passes, Ends, Drops
<1>b. BeginTask => Move
  <2>1. BeginTask => ~task_recover_after_reboot
    BY DEF BeginTask, At, task_recover_after_reboot
  <2> QED
    BY <2>1, Moves
<1>c. TaskFailed \/ WaitAlone => ~task_recover_after_reboot /\ ~BeginTask
  BY DEF TaskFailed, WaitAlone, BeginTask, At, task_recover_after_reboot
<1>d. (pc["main"] \notin {"list", "join"} => cur \in Tasks) /\ DOMAIN pc = Threads /\ cur \in Int
  BY TinaAssumption DEF RunType
<1>e. end_cnt \in Int /\ end_cnt + 1 # end_cnt
  BY DEF TaskTypes
<1>1. CASE task_recover_after_reboot
  BY <1>1, RecoverEmpty
<1>2. CASE BeginTask
  <2>1. pc["main"] = "alone" /\ cur \in Tasks /\ MayBegin
    BY <1>2, <1>d DEF BeginTask, At
  <2>2. \A t \in Live : ~RunAlone(t)
    BY <2>1, TinaAssumption DEF AloneLive, With, Begun, Doing, Tasks
  <2>3. Live' \subseteq Live \/ (Live' = Live \cup {cur} /\ UNCHANGED cur /\ pc'["main"] = "lock")
    <3>1. CASE reboot_mode /\ reboot_keypath # cur
      <4>1. end_cnt' = end_cnt + 1
        BY <1>2, <3>1 DEF BeginTask, ERR
      <4> QED
        BY <1>2, <1>b, <1>e, <4>1 DEF Move, Rests, Begins, Passes, Ends, Drops
    <3>2. CASE ~(reboot_mode /\ reboot_keypath # cur)
      <4>1. /\ UNCHANGED cur /\ pc'["main"] = "lock" /\ status' = [status EXCEPT ![cur] = "RUN"]
        BY <1>2, <1>d, <3>2 DEF BeginTask, Goto, Threads
      <4> QED
        BY <1>2, <1>b, <2>1, <4>1 DEF Move, Rests, Begins, Passes, Ends, Drops
    <3> QED
      BY <3>1, <3>2
  <2>4. RunAlone(cur) => Live = {}
    <3> SUFFICES ASSUME RunAlone(cur) PROVE Live = {}
      OBVIOUS
    <3>1. running_cnt <= 0
      BY <2>1 DEF MayBegin
    <3>2. InHandCount = 0 /\ running_cnt \in Int
      BY <2>1 DEF InHandCount, Begun, Doing, WakeType
    <3>3. Cardinality(Live) = 0
      BY <3>1, <3>2, SetsFinite DEF Counted
    <3> QED
      BY <3>3, SetsFinite, FS_EmptySet
  <2> QED
    BY <2>2, <2>3, <2>4 DEF AloneLive, With, Begun, Doing
<1>3. CASE TaskFailed
  <2>1. pc["main"] = "failed" /\ cur \in Tasks /\ Live' \subseteq Live
    BY <1>3, <1>a, <1>c, <1>d DEF TaskFailed, At
  <2>2. cur \notin Live'
    <3>1. pc'["main"] = "list" /\ \A t \in Tasks : t = cur => status'[t] = "END"
      BY <1>3, <1>d DEF TaskFailed, NextTask, Goto, Threads, TaskTypes
    <3> QED
      BY <3>1 DEF Live, IsLive
  <2>3. \A t \in Live' : ~RunAlone(t)
    <3> SUFFICES ASSUME NEW t \in Live', RunAlone(t) PROVE FALSE
      OBVIOUS
    <3>1. cur = t
      BY <2>1, TinaAssumption DEF AloneLive, Tasks
    <3> QED
      BY <2>2, <3>1
  <2> QED
    BY <2>3 DEF AloneLive
<1>4. CASE WaitAlone
  <2>1. pc["main"] = "after" /\ ~Awaited /\ cur' = cur + 1 /\ Live' \subseteq Live /\ cur \in Tasks
    BY <1>4, <1>a, <1>c, <1>d DEF WaitAlone, At, NextTask
  <2>2. \A t \in Live' : RunAlone(t) => Live = {t} /\ cur' = N + 1
    BY <2>1, NotAwaitedLast DEF AloneLive
  <2> QED
    BY <2>1, <2>2 DEF AloneLive
<1>5. CASE ~task_recover_after_reboot /\ ~BeginTask /\ ~TaskFailed /\ ~WaitAlone
  BY <1>5, <1>a, StaysWith, AloneStays
<1> QED
  BY <1>1, <1>2, <1>3, <1>4, <1>5


-----------------------------------------------------------------------------
(* The boot script and the status file *)

\* Where a thread writes them, and where it relies on them.
Files  == {"kill", "clean", "reboot", "status", "fill"}
Filing == {"status", "fill", "last", "limits", "fork", "record"}

\* What a thread has in hand runs.
LEMMA HandLive ==
  ASSUME RunType, Meet, Shape, HandRuns, NEW h \in Threads,
         pc[h] \in Doing \cup {"kill", "clean"}
  PROVE  T(h) \in Live
<1>1. CASE h = "main"
  <2>1. cur \in Tasks /\ status[cur] = "RUN"
    BY <1>1 DEF RunType, Shape, Doing
  <2>2. ~(pc[Recycle] = "tell" /\ tsk = cur)
    BY <1>1 DEF Meet, Hands, Ending, Doing
  <2> QED
    BY <1>1, <2>1, <2>2 DEF Live, IsLive, T
<1>2. CASE h = Recycle
  <2>1. tsk \in Tasks /\ status[tsk] = "RUN" /\ pc[Recycle] # "tell"
    BY <1>2 DEF RunType, HandRuns, Doing, Ending
  <2> QED
    BY <1>2, <2>1 DEF Live, IsLive, T, Recycle
<1> QED
  BY <1>1, <1>2 DEF Threads, Recycle

\* Where one thread writes the files, the other does not rely on them.
LEMMA Solo ==
  ASSUME RunType, Meet, Shape, HandRuns, AloneLive,
         pc["main"] \in Doing \cup {"kill", "clean"}, pc[Recycle] \in Doing \cup {"kill", "clean"}
  PROVE  ~Env[cur].may_reboot /\ ~Env[tsk].may_reboot
<1>1. cur \in Live /\ tsk \in Live
  BY HandLive DEF T, Threads, Recycle
<1>2. SUFFICES ASSUME Env[cur].may_reboot \/ Env[tsk].may_reboot PROVE FALSE
  OBVIOUS
<1>3. cur = tsk /\ cur \in Tasks
  BY <1>1, <1>2 DEF AloneLive, RunAlone, Live
<1> QED
  BY <1>3 DEF Meet, Hands, Doing, Ending

\* IsReady of a thread, when neither it nor the files nor its run move.
LEMMA ReadyStays ==
  ASSUME NEW g \in Threads, IsReady(g),
         \/ pc'[g] \notin Filing
         \/ /\ \/ pc'[g] = pc[g]
               \/ pc[g] \in {"last", "limits", "fork"} /\ pc'[g] \in {"limits", "fork", "record"}
            /\ T(g)' = T(g)
            /\ UNCHANGED <<fboot, sfile, run_times>>
  PROVE  IsReady(g)'
  BY DEF IsReady, Filing

\* The same, when the other thread moves and the task cannot reboot.
LEMMA ReadyFree ==
  ASSUME NEW g \in Threads, T(g)' = T(g), ~Env[T(g)].may_reboot, pc'[g] \notin {"status", "fill"}
  PROVE  IsReady(g)'
  BY DEF IsReady

\* The files are those of the run that task_do forks.
LEMMA ReadyKept ==
  ASSUME RunType, Meet, Shape, HandRuns, FromTheFirst, AloneLive, Rebooted, FilesReady, [Next]_vars
  PROVE  FilesReady'
<1> USE TinaAssumption DEF RunType, Threads, Recycle
<1> SUFFICES ASSUME NEW g \in Threads PROVE IsReady(g)'
  BY DEF FilesReady
<1>a. IsReady(g)
  BY DEF FilesReady
<1>1. ASSUME NEW h \in Threads, KillLimits(h) PROVE IsReady(g)'
  <2>1. /\ UNCHANGED <<cur, tsk, sfile, run_times>> /\ pc[h] = "kill" /\ T(h) \in Tasks
        /\ \E p \in {"clean", "sub"} : pc' = [pc EXCEPT ![h] = p]
        /\ ~Env[T(h)].may_reboot => UNCHANGED fboot
    BY <1>1 DEF KillLimits, others, local, tasks, At, Goto, T, Carried
  <2>2. CASE g = h
    BY <2>1, <2>2, <1>a, ReadyStays DEF Filing
  <2>3. CASE g # h
    <3>1. pc'[g] = pc[g] /\ T(g)' = T(g)
      BY <2>1, <2>3 DEF T
    <3>2. CASE ~Env[T(h)].may_reboot \/ pc[g] \notin Filing
      BY <2>1, <3>1, <3>2, <1>a, ReadyStays
    <3>3. CASE Env[T(h)].may_reboot /\ pc[g] \in Filing
      BY <2>1, <2>3, <3>3, Solo DEF T, Filing, Doing
    <3> QED
      BY <3>2, <3>3
  <2> QED
    BY <2>2, <2>3
<1>2. ASSUME NEW h \in Threads, task_clean_reboot(h) PROVE IsReady(g)'
  <2>1. UNCHANGED <<cur, tsk>> /\ pc[h] = "clean" /\ pc' = [pc EXCEPT ![h] = "tell"]
    BY <1>2 DEF task_clean_reboot, others, local, At, Goto
  <2>2. CASE g = h
    BY <2>1, <2>2, <1>a, ReadyStays DEF Filing
  <2>3. CASE g # h
    <3>1. pc'[g] = pc[g]
      BY <2>1, <2>3
    <3>2. Env[T(h)].may_reboot
      BY <2>1 DEF T, FromTheFirst, HandRuns
    <3>3. pc[g] \notin Filing
      BY <2>1, <2>3, <3>2, Solo DEF T, Filing, Doing
    <3> QED
      BY <3>1, <3>3, <1>a, ReadyStays
  <2> QED
    BY <2>2, <2>3
<1>3. ASSUME NEW h \in Threads, CountEnd(h) PROVE IsReady(g)'
  <2>1. /\ UNCHANGED <<cur, tsk, fboot, sfile, run_times>>
        /\ pc[h] = "sub"
        /\ pc' = [pc EXCEPT ![h] = "tell"]
    BY <1>3 DEF CountEnd, tasks, flash, others, local, At, Goto
  <2> QED
    BY <2>1, <1>a, ReadyStays DEF T, Filing
<1>4. ASSUME NEW h \in Threads, TELL_PARENT(h) PROVE IsReady(g)'
  <2>1. /\ UNCHANGED <<cur, tsk, fboot, sfile, run_times>>
        /\ pc[h] = "tell"
        /\ \E p \in {"lastsub", "again"} : pc' = [pc EXCEPT ![h] = p]
    BY <1>4 DEF TELL_PARENT, flash, others, local, At, Goto
  <2> QED
    BY <2>1, <1>a, ReadyStays DEF T, Filing
<1>5. ASSUME NEW h \in Threads, LockTask(h) PROVE IsReady(g)'
  <2>1. /\ UNCHANGED <<cur, tsk, fboot, sfile, run_times>> /\ pc[h] = "lock"
        /\ pc' = [pc EXCEPT ![h] = IF Env[T(h)].may_reboot THEN "reboot" ELSE "last"]
    BY <1>5 DEF LockTask, rest, tasks, flash, At, Goto
  <2>2. T(g)' = T(g)
    BY <2>1 DEF T
  <2>3. CASE g = h
    BY <2>1, <2>2, <2>3, <1>a, ReadyStays, ReadyFree DEF Filing
  <2>4. CASE g # h
    <3>1. pc'[g] = pc[g]
      BY <2>1, <2>4
    <3> QED
      BY <2>1, <2>2, <3>1, <1>a, ReadyStays
  <2> QED
    BY <2>3, <2>4
<1>6. ASSUME NEW h \in Threads, task_init_reboot_mode(h) PROVE IsReady(g)'
  <2>1. UNCHANGED <<cur, tsk>> /\ pc[h] = "reboot" /\ \E p \in {"status", "unlock"} : pc' = [pc EXCEPT ![h] = p]
    BY <1>6 DEF task_init_reboot_mode, Leave, At, Goto
  <2>2. Env[T(h)].may_reboot /\ T(h) \in Tasks
    BY <2>1 DEF T, FromTheFirst, HandRuns
  <2>3. \A f \in Threads : f # h => pc[f] \notin Doing \cup {"kill", "clean"}
    BY <2>1, <2>2, Solo DEF T, Doing
  <2>4. CASE g # h
    <3>1. pc'[g] \notin Filing
      BY <2>1, <2>3, <2>4 DEF Filing, Doing
    <3> QED
      BY <3>1, <1>a, ReadyStays
  <2>5. CASE g = h
    <3>1. CASE reboot_mode /\ UNCHANGED fboot
      <4>1. status[T(h)] = "RUN"
        BY <2>1 DEF T, Shape, HandRuns, Doing
      <4>2. "clean" \notin {pc["main"], pc[Recycle]}
        BY <2>1, <2>3
      <4>3. fboot = T(h)
        BY <2>2, <3>1, <4>1, <4>2 DEF Rebooted
      <4> QED
        BY <2>1, <2>5, <3>1, <4>3 DEF IsReady, T
    <3>2. CASE fboot' = T(h)
      BY <2>1, <2>5, <3>2 DEF IsReady, T
    <3>3. CASE pc' = [pc EXCEPT ![h] = "unlock"]
      BY <2>5, <3>3, <1>a, ReadyStays DEF Filing
    <3> QED
      BY <1>6, <3>1, <3>2, <3>3 DEF task_init_reboot_mode, Leave, flash, Goto
  <2> QED
    BY <2>4, <2>5
<1>7. ASSUME NEW h \in Threads, task_create_reboot_status(h) PROVE IsReady(g)'
  <2>1. /\ UNCHANGED <<cur, tsk, fboot, run_times>> /\ pc[h] \in {"status", "fill"}
        /\ \E p \in {"fill", "last", "unlock"} : pc' = [pc EXCEPT ![h] = p]
    BY <1>7 DEF task_create_reboot_status, tasks, Leave, At, Goto
  <2>2. Env[T(h)].may_reboot
    BY <2>1 DEF T, FromTheFirst, HandRuns
  <2>3. \A f \in Threads : f # h => pc[f] \notin Doing \cup {"kill", "clean"}
    BY <2>1, <2>2, Solo DEF T, Doing
  <2>4. CASE g # h
    <3>1. pc'[g] \notin Filing
      BY <2>1, <2>3, <2>4 DEF Filing, Doing
    <3> QED
      BY <3>1, <1>a, ReadyStays
  <2>5. CASE g = h
    <3>1. fboot = T(h)
      BY <1>a, <2>1, <2>5 DEF IsReady
    <3>2. CASE sfile' = run_times[T(h)]
      BY <2>1, <2>5, <3>1, <3>2 DEF IsReady, T
    <3>3. CASE pc'[h] \in {"fill", "unlock"}
      BY <2>1, <2>5, <3>1, <3>3 DEF IsReady, T
    <3> QED
      BY <1>7, <3>2, <3>3 DEF task_create_reboot_status, StatusOpened, Leave, Goto
  <2> QED
    BY <2>4, <2>5
<1>8. ASSUME NEW h \in Threads, LastTimes(h) PROVE IsReady(g)'
  <2>1. /\ UNCHANGED <<cur, tsk, fboot, sfile, run_times>>
        /\ pc[h] = "last"
        /\ \E p \in {"limits", "kill", "lastsub"} : pc' = [pc EXCEPT ![h] = p]
    BY <1>8 DEF LastTimes, others, local, rest, tasks, flash, At, Goto
  <2> QED
    BY <2>1, <1>a, ReadyStays DEF T, Filing
<1>9. ASSUME NEW h \in Threads, LastSub(h) PROVE IsReady(g)'
  <2>1. /\ UNCHANGED <<cur, tsk, fboot, sfile, run_times>>
        /\ pc[h] = "lastsub"
        /\ pc' = [pc EXCEPT ![h] = "unlock"]
    BY <1>9 DEF LastSub, tasks, flash, Leave, At, Goto
  <2> QED
    BY <2>1, <1>a, ReadyStays DEF T, Filing
<1>10. ASSUME NEW h \in Threads, DoLimits(h) PROVE IsReady(g)'
  <2>1. /\ UNCHANGED <<cur, tsk, fboot, sfile, run_times>>
        /\ pc[h] = "limits"
        /\ \E p \in {"fork", "unlock"} : pc' = [pc EXCEPT ![h] = p]
    BY <1>10 DEF DoLimits, flash, Leave, At, Goto
  <2> QED
    BY <2>1, <1>a, ReadyStays DEF T, Filing
<1>11. ASSUME NEW h \in Threads, ForkTestcase(h) PROVE IsReady(g)'
  <2>1. /\ UNCHANGED <<cur, tsk, fboot, sfile, run_times>>
        /\ pc[h] = "fork"
        /\ \E p \in {"record", "unlock"} : pc' = [pc EXCEPT ![h] = p]
    BY <1>11 DEF ForkTestcase, tasks, flash, Leave, At, Goto
  <2> QED
    BY <2>1, <1>a, ReadyStays DEF T, Filing
<1>12. ASSUME NEW h \in Threads, RecordPid(h) PROVE IsReady(g)'
  <2>1. /\ UNCHANGED <<cur, tsk, fboot, sfile>> /\ pc[h] = "record" /\ T(h) \in Tasks
        /\ run_times' = [run_times EXCEPT ![T(h)] = run_times[T(h)] + 1]
        /\ pc' = [pc EXCEPT ![h] = IF Env[T(h)].run_parallel /\ run_times[T(h)] + 1 < Limit(T(h)) THEN "fork" ELSE "unlock"]
    BY <1>12 DEF RecordPid, flash, Leave, At, Goto, T
  <2>2. CASE g = h
    <3>1. CASE Env[T(h)].run_parallel
      <4>1. pc'[g] \in {"fork", "unlock"} /\ T(g)' = T(g) /\ pc[g] = "record"
        BY <2>1, <2>2 DEF T
      <4> QED
        BY <2>1, <2>2, <3>1, <4>1, <1>a DEF IsReady
    <3>2. CASE ~Env[T(h)].run_parallel
      BY <2>1, <2>2, <3>2, <1>a, ReadyStays DEF Filing
    <3> QED
      BY <3>1, <3>2
  <2>3. CASE g # h
    <3>1. pc'[g] = pc[g] /\ T(g)' = T(g)
      BY <2>1, <2>3 DEF T
    <3>2. CASE pc[g] \notin Filing
      BY <3>1, <3>2, <1>a, ReadyStays
    <3>3. CASE pc[g] \in Filing
      <4>1. ~Env[T(g)].may_reboot
        BY <2>1, <2>3, <3>3, Solo DEF T, Filing, Doing
      <4>2. pc[g] \notin {"status", "fill"}
        BY <2>1, <4>1 DEF T, FromTheFirst, HandRuns
      <4> QED
        BY <3>1, <4>1, <4>2, ReadyFree
    <3> QED
      BY <3>2, <3>3
  <2> QED
    BY <2>2, <2>3
<1>13. ASSUME NEW h \in Threads, UnlockTask(h) PROVE IsReady(g)'
  <2>1. /\ UNCHANGED <<cur, tsk, fboot, sfile, run_times>>
        /\ pc[h] = "unlock"
        /\ \E p \in {"again", "started", "failed"} : pc' = [pc EXCEPT ![h] = p]
    BY <1>13 DEF UnlockTask, rest, tasks, flash, At, Goto
  <2> QED
    BY <2>1, <1>a, ReadyStays DEF T, Filing
<1>14. CASE ListTop
  <2>1. /\ UNCHANGED <<cur, tsk, fboot, sfile, run_times>>
        /\ pc["main"] = "list"
        /\ \E p \in {"join", "wait", "alone"} : pc' = [pc EXCEPT !["main"] = p]
    BY <1>14 DEF ListTop, others, local, rest, tasks, flash, At, Goto
  <2> QED
    BY <2>1, <1>a, ReadyStays DEF T, Filing
<1>15. CASE WAIT_CHILD
  <2>1. /\ UNCHANGED <<cur, tsk, fboot, sfile, run_times>>
        /\ pc["main"] = "wait"
        /\ pc' = [pc EXCEPT !["main"] = "list"]
    BY <1>15 DEF WAIT_CHILD, tasks, flash, others, local, At, Goto
  <2> QED
    BY <2>1, <1>a, ReadyStays DEF T, Filing
<1>16. CASE BeginTask
  <2>1. UNCHANGED <<tsk, fboot, sfile, run_times>> /\ \E p \in {"list", "lock"} : pc' = [pc EXCEPT !["main"] = p]
    BY <1>16 DEF BeginTask, flash, NextTask, Goto
  <2>2. CASE g = "main"
    BY <2>1, <2>2, <1>a, ReadyStays DEF Filing
  <2>3. CASE g = Recycle
    <3>1. pc'[g] = pc[g] /\ T(g)' = T(g)
      BY <2>1, <2>3 DEF T
    <3> QED
      BY <2>1, <3>1, <1>a, ReadyStays
  <2> QED
    BY <2>2, <2>3
<1>17. CASE TaskStarted
  <2>1. /\ UNCHANGED <<cur, tsk, fboot, sfile, run_times>>
        /\ pc["main"] = "started"
        /\ pc' = [pc EXCEPT !["main"] = "after"]
    BY <1>17 DEF TaskStarted, tasks, flash, others, local, At, Goto
  <2> QED
    BY <2>1, <1>a, ReadyStays DEF T, Filing
<1>18. CASE TaskFailed
  <2>1. UNCHANGED <<tsk, fboot, sfile, run_times>> /\ \E p \in {"list", "lock"} : pc' = [pc EXCEPT !["main"] = p]
    BY <1>18 DEF TaskFailed, flash, NextTask, Goto
  <2>2. CASE g = "main"
    BY <2>1, <2>2, <1>a, ReadyStays DEF Filing
  <2>3. CASE g = Recycle
    <3>1. pc'[g] = pc[g] /\ T(g)' = T(g)
      BY <2>1, <2>3 DEF T
    <3> QED
      BY <2>1, <3>1, <1>a, ReadyStays
  <2> QED
    BY <2>2, <2>3
<1>19. CASE WaitAlone
  <2>1. UNCHANGED <<tsk, fboot, sfile, run_times>> /\ \E p \in {"list", "lock"} : pc' = [pc EXCEPT !["main"] = p]
    BY <1>19 DEF WaitAlone, rest, tasks, flash, NextTask, Goto
  <2>2. CASE g = "main"
    BY <2>1, <2>2, <1>a, ReadyStays DEF Filing
  <2>3. CASE g = Recycle
    <3>1. pc'[g] = pc[g] /\ T(g)' = T(g)
      BY <2>1, <2>3 DEF T
    <3> QED
      BY <2>1, <3>1, <1>a, ReadyStays
  <2> QED
    BY <2>2, <2>3
<1>20. CASE task_quit_clean
  <2>1. /\ UNCHANGED <<pc, cur, tsk, fboot, sfile, run_times>>
        /\ pc["main"] = "join"
    BY <1>20 DEF task_quit_clean, sched, rest, tasks, flash, At, Goto
  <2> QED
    BY <2>1, <1>a, ReadyStays DEF T, Filing
<1>21. CASE RecycleTop
  <2>1. /\ UNCHANGED <<cur, tsk, fboot, sfile, run_times>>
        /\ pc[Recycle] = "top"
        /\ \E p \in {"exit", "wait4"} : pc' = [pc EXCEPT ![Recycle] = p]
    BY <1>21 DEF RecycleTop, others, local, rest, tasks, flash, At, Goto
  <2> QED
    BY <2>1, <1>a, ReadyStays DEF T, Filing
<1>22. CASE wait4
  <2>1. /\ UNCHANGED <<cur, tsk, fboot, sfile, run_times>>
        /\ pc[Recycle] = "wait4"
        /\ \E p \in {"match", "top"} : pc' = [pc EXCEPT ![Recycle] = p]
    BY <1>22 DEF wait4, tasks, flash, At, Goto
  <2> QED
    BY <2>1, <1>a, ReadyStays DEF T, Filing
<1>23. CASE MatchLeader
  <2>1. /\ UNCHANGED <<cur, tsk, fboot, sfile, run_times>>
        /\ pc[Recycle] = "match"
        /\ pc' = [pc EXCEPT ![Recycle] = "top"]
    BY <1>23 DEF MatchLeader, flash, local, At, Goto
  <2> QED
    BY <2>1, <1>a, ReadyStays DEF T, Filing
<1>24. CASE task_recycle_once
  <2>1. UNCHANGED <<cur, fboot, sfile, run_times>> /\ pc' = [pc EXCEPT ![Recycle] = "check"]
    BY <1>24 DEF task_recycle_once, flash, Goto
  <2>2. CASE g = "main"
    <3>1. pc'[g] = pc[g] /\ T(g)' = T(g)
      BY <2>1, <2>2 DEF T
    <3> QED
      BY <2>1, <3>1, <1>a, ReadyStays
  <2>3. CASE g = Recycle
    BY <2>1, <2>3, <1>a, ReadyStays DEF Filing
  <2> QED
    BY <2>2, <2>3
<1>25. CASE NoMatch
  <2>1. /\ UNCHANGED <<cur, tsk, fboot, sfile, run_times>>
        /\ pc[Recycle] = "match"
        /\ pc' = [pc EXCEPT ![Recycle] = "top"]
    BY <1>25 DEF NoMatch, tasks, flash, local, At, Goto
  <2> QED
    BY <2>1, <1>a, ReadyStays DEF T, Filing
<1>26. CASE task_check_end
  <2>1. /\ UNCHANGED <<cur, tsk, fboot, sfile, run_times>>
        /\ pc[Recycle] = "check"
        /\ \E p \in {"kill", "again", "lock"} : pc' = [pc EXCEPT ![Recycle] = p]
    BY <1>26 DEF task_check_end, others, local, rest, tasks, flash, At, Goto
  <2> QED
    BY <2>1, <1>a, ReadyStays DEF T, Filing
<1>27. CASE Again
  <2>1. /\ UNCHANGED <<cur, tsk, fboot, sfile, run_times>>
        /\ pc[Recycle] = "again"
        /\ \E p \in {"exit", "top"} : pc' = [pc EXCEPT ![Recycle] = p]
    BY <1>27 DEF Again, local, rest, tasks, flash, At, Goto
  <2> QED
    BY <2>1, <1>a, ReadyStays DEF T, Filing
<1>28. ASSUME NEW t \in Tasks, OnceLimit(t) PROVE IsReady(g)'
  <2>1. UNCHANGED <<pc, cur, tsk, fboot, sfile, run_times>>
    BY <1>28 DEF OnceLimit, sched, tasks, flash, At, Goto
  <2> QED
    BY <2>1, <1>a, ReadyStays DEF T, Filing
<1>29. ASSUME NEW t \in Tasks, WholeLimit(t) PROVE IsReady(g)'
  <2>1. UNCHANGED <<pc, cur, tsk, fboot, sfile, run_times>>
    BY <1>29 DEF WholeLimit, sched, flash, At, Goto
  <2> QED
    BY <2>1, <1>a, ReadyStays DEF T, Filing
<1>30. ASSUME NEW t \in Tasks, NEW k \in Slots, Exit(t, k) PROVE IsReady(g)'
  <2>1. UNCHANGED <<pc, cur, tsk, fboot, sfile, run_times>>
    BY <1>30 DEF Exit, sched, tasks, flash, At, Goto
  <2> QED
    BY <2>1, <1>a, ReadyStays DEF T, Filing
<1>31. CASE task_signal_quit
  <2>1. UNCHANGED <<pc, cur, tsk, fboot, sfile, run_times>>
    BY <1>31 DEF task_signal_quit, sched, tasks, flash, At, Goto
  <2> QED
    BY <2>1, <1>a, ReadyStays DEF T, Filing
<1>32. CASE PowerOff
  <2>1. UNCHANGED <<pc, cur, tsk, fboot, sfile, run_times>>
    BY <1>32 DEF PowerOff, sched, tasks, flash, At, Goto
  <2> QED
    BY <2>1, <1>a, ReadyStays DEF T, Filing
<1>33. CASE task_recover_after_reboot
  <2>1. pc'[g] \in {"list", "top"}
    BY <1>33 DEF task_recover_after_reboot, AtStart
  <2> QED
    BY <2>1, <1>a, ReadyStays DEF Filing
<1>34. CASE Stopped \/ UNCHANGED vars
  <2>1. UNCHANGED <<pc, cur, tsk, fboot, sfile, run_times>>
    BY <1>34 DEF Stopped, vars
  <2> QED
    BY <2>1, <1>a, ReadyStays DEF T
<1>35. CASE task_do_crash
  <2>1. UNCHANGED <<pc, cur, tsk, fboot, sfile, run_times>>
    BY <1>35 DEF task_do_crash, sched, tasks, flash, At, Goto
  <2> QED
    BY <2>1, <1>a, ReadyStays DEF T, Filing
<1> QED
  BY <1>1, <1>2, <1>3, <1>4, <1>5, <1>6, <1>7, <1>8, <1>9, <1>10, <1>11, <1>12, <1>13, <1>14,
     <1>15, <1>16, <1>17, <1>18, <1>19, <1>20, <1>21, <1>22, <1>23, <1>24, <1>25, <1>26, <1>27,
     <1>28, <1>29, <1>30, <1>31, <1>32, <1>33, <1>34, <1>35
  DEF Next, Main, Recycler, Thread, task_begin, task_recycle, task_do, task_recycle_end, Threads,
      Recycle


\* What executes runs.
LEMMA KnownLive ==
  ASSUME NEW t \in Tasks, NEW k \in Slots, IsKnown(t, k)
  PROVE  t \in Live
  BY DEF IsKnown, Live, IsLive, Ending

\* While a process that may reboot executes no thread writes the files.
LEMMA FilesLeft ==
  ASSUME RunType, Meet, Shape, HandRuns, AloneLive, NotForked, OneSet, AliveKnown,
         NEW t \in Tasks, NEW k \in Slots, Env[t].may_reboot, proc[t][k] = "alive",
         NEW h \in Threads, pc[h] \in Files
  PROVE  ~Env[T(h)].may_reboot
<1>1. IsKnown(t, k)
  BY DEF AliveKnown
<1>2. Live = {t}
  BY <1>1, KnownLive DEF AloneLive, RunAlone
<1>3. T(h) = t
  BY <1>2, HandLive DEF Files, Doing
<1>4. CASE h = "main"
  BY <1>3, <1>4 DEF NotForked, T, Files, Late
<1>5. CASE h = Recycle
  <2>1. tsk = t /\ pc[Recycle] \in {"reboot", "status", "fill"}
    BY <1>1, <1>3, <1>5 DEF T, IsKnown, Ending, Files, Recycle
  <2>2. ~Env[t].run_parallel
    BY <2>1 DEF HandRuns, Doing
  <2>3. pid[t][k] # "set"
    BY <2>1, <2>2 DEF OneSet, IsLastRun, Hands, Doing
  <2>4. cur = t /\ pc["main"] = "record"
    BY <1>1, <2>1, <2>3 DEF IsKnown
  <2> QED
    BY <2>1, <2>2, <2>4 DEF Meet, Hands, Doing
<1> QED
  BY <1>4, <1>5 DEF Threads, Recycle

\* The other steps leave the files alone.
LEMMA FilesStay ==
  ASSUME FromTheFirst, HandRuns, ~task_recover_after_reboot, \A h \in Threads : pc[h] \in Files => ~Env[T(h)].may_reboot, [Next]_vars
  PROVE  UNCHANGED <<fboot, sfile>>
<1> USE TinaAssumption
<1>a. \A h \in Threads : pc[h] \in Files => ~Env[T(h)].may_reboot
  OBVIOUS
<1>1. ASSUME NEW h \in Threads, KillLimits(h) PROVE UNCHANGED <<fboot, sfile>>
  BY <1>1, <1>a DEF KillLimits, At, Carried, Files
<1>2. ASSUME NEW h \in Threads, task_clean_reboot(h) PROVE UNCHANGED <<fboot, sfile>>
  <2>1. pc[h] = "clean"
    BY <1>2 DEF task_clean_reboot, At
  <2>2. Env[T(h)].may_reboot
    BY <2>1 DEF T, FromTheFirst, HandRuns, Threads, Recycle
  <2> QED
    BY <1>a, <2>1, <2>2 DEF Files
<1>3. ASSUME NEW h \in Threads, CountEnd(h) PROVE UNCHANGED <<fboot, sfile>>
  BY <1>3 DEF CountEnd, flash
<1>4. ASSUME NEW h \in Threads, TELL_PARENT(h) PROVE UNCHANGED <<fboot, sfile>>
  BY <1>4 DEF TELL_PARENT, flash
<1>5. ASSUME NEW h \in Threads, LockTask(h) PROVE UNCHANGED <<fboot, sfile>>
  BY <1>5 DEF LockTask, rest, flash
<1>6. ASSUME NEW h \in Threads, task_init_reboot_mode(h) PROVE UNCHANGED <<fboot, sfile>>
  <2>1. pc[h] \in {"reboot", "status", "fill"}
    BY <1>6 DEF task_init_reboot_mode, At
  <2>2. Env[T(h)].may_reboot
    BY <2>1 DEF T, FromTheFirst, HandRuns, Threads, Recycle
  <2> QED
    BY <1>a, <2>1, <2>2 DEF Files
<1>7. ASSUME NEW h \in Threads, task_create_reboot_status(h) PROVE UNCHANGED <<fboot, sfile>>
  <2>1. pc[h] \in {"reboot", "status", "fill"}
    BY <1>7 DEF task_create_reboot_status, At
  <2>2. Env[T(h)].may_reboot
    BY <2>1 DEF T, FromTheFirst, HandRuns, Threads, Recycle
  <2> QED
    BY <1>a, <2>1, <2>2 DEF Files
<1>8. ASSUME NEW h \in Threads, LastTimes(h) PROVE UNCHANGED <<fboot, sfile>>
  BY <1>8 DEF LastTimes, rest, flash
<1>9. ASSUME NEW h \in Threads, LastSub(h) PROVE UNCHANGED <<fboot, sfile>>
  BY <1>9 DEF LastSub, flash
<1>10. ASSUME NEW h \in Threads, DoLimits(h) PROVE UNCHANGED <<fboot, sfile>>
  BY <1>10 DEF DoLimits, flash
<1>11. ASSUME NEW h \in Threads, ForkTestcase(h) PROVE UNCHANGED <<fboot, sfile>>
  BY <1>11 DEF ForkTestcase, flash
<1>12. ASSUME NEW h \in Threads, RecordPid(h) PROVE UNCHANGED <<fboot, sfile>>
  BY <1>12 DEF RecordPid, flash
<1>13. ASSUME NEW h \in Threads, UnlockTask(h) PROVE UNCHANGED <<fboot, sfile>>
  BY <1>13 DEF UnlockTask, rest, flash
<1>14. CASE ListTop
  BY <1>14 DEF ListTop, rest, flash
<1>15. CASE WAIT_CHILD
  BY <1>15 DEF WAIT_CHILD, flash
<1>16. CASE BeginTask
  BY <1>16 DEF BeginTask, flash
<1>17. CASE TaskStarted
  BY <1>17 DEF TaskStarted, flash
<1>18. CASE TaskFailed
  BY <1>18 DEF TaskFailed, flash
<1>19. CASE WaitAlone
  BY <1>19 DEF WaitAlone, rest, flash
<1>20. CASE task_quit_clean
  BY <1>20 DEF task_quit_clean, rest, flash
<1>21. CASE RecycleTop
  BY <1>21 DEF RecycleTop, rest, flash
<1>22. CASE wait4
  <2>1. UNCHANGED <<fboot, sfile>> /\ \E p \in {"match", "top"} : pc' = [pc EXCEPT ![Recycle] = p]
    BY <1>22 DEF wait4, flash, Goto, At
  <2> QED
    BY <1>22, <2>1 DEF wait4
<1>23. CASE MatchLeader
  BY <1>23 DEF MatchLeader, flash
<1>24. CASE task_recycle_once
  BY <1>24 DEF task_recycle_once, flash
<1>25. CASE NoMatch
  BY <1>25 DEF NoMatch, flash
<1>26. CASE task_check_end
  BY <1>26 DEF task_check_end, rest, flash
<1>27. CASE Again
  BY <1>27 DEF Again, rest, flash
<1>28. ASSUME NEW t \in Tasks, OnceLimit(t) PROVE UNCHANGED <<fboot, sfile>>
  BY <1>28 DEF OnceLimit, flash
<1>29. ASSUME NEW t \in Tasks, WholeLimit(t) PROVE UNCHANGED <<fboot, sfile>>
  BY <1>29 DEF WholeLimit, flash
<1>30. ASSUME NEW t \in Tasks, NEW k \in Slots, Exit(t, k) PROVE UNCHANGED <<fboot, sfile>>
  BY <1>30 DEF Exit, flash
<1>31. CASE task_signal_quit
  BY <1>31 DEF task_signal_quit, flash
<1>32. CASE PowerOff
  BY <1>32 DEF PowerOff, flash
<1>33. CASE task_recover_after_reboot
  BY <1>33
<1>34. CASE Stopped \/ UNCHANGED vars
  <2>1. UNCHANGED <<fboot, sfile>>
    BY <1>34 DEF Stopped, vars
  <2> QED
    BY <2>1
<1>35. CASE task_do_crash
  BY <1>35 DEF task_do_crash, flash
<1> QED
  BY <1>1, <1>2, <1>3, <1>4, <1>5, <1>6, <1>7, <1>8, <1>9, <1>10, <1>11, <1>12, <1>13, <1>14,
     <1>15, <1>16, <1>17, <1>18, <1>19, <1>20, <1>21, <1>22, <1>23, <1>24, <1>25, <1>26, <1>27,
     <1>28, <1>29, <1>30, <1>31, <1>32, <1>33, <1>34, <1>35
  DEF Next, Main, Recycler, Thread, task_begin, task_recycle, task_do, task_recycle_end, Threads,
      Recycle

\* The files are those of the run that executes.
LEMMA CurrentKept ==
  ASSUME RunType, PlaceTypes, ProcTypes, Meet, Shape, HandRuns, FromTheFirst, AloneLive, NotForked,
         OneSet, AliveKnown, FilesReady, FilesCurrent, [Next]_vars
  PROVE  FilesCurrent'
<1> SUFFICES ASSUME NEW t \in Tasks, NEW k \in Slots, Env[t].may_reboot, proc'[t][k] = "alive"
             PROVE  fboot' = t /\ (Env[t].run_parallel \/ sfile' = k)
  BY DEF FilesCurrent
<1>1. CASE task_recover_after_reboot
  BY <1>1 DEF task_recover_after_reboot, EveryRun, Every
<1>2. ASSUME NEW h \in Threads, ForkTestcase(h) PROVE fboot' = t /\ (Env[t].run_parallel \/ sfile' = k)
  <2>1. pc[h] = "fork" /\ UNCHANGED <<fboot, sfile>>
    BY <1>2, ForkCases
  <2>2. CASE proc[t][k] = "alive"
    BY <2>1, <2>2 DEF FilesCurrent
  <2>3. CASE proc[t][k] # "alive"
    <3>1. ~Aging
      BY <2>3 DEF Aging
    <3>2. t = T(h) /\ k = run_times[t]
      <4>1. /\ proc'[T(h)] = [proc[T(h)] EXCEPT ![run_times[T(h)]] =
                                IF leader[T(h)] = "gone" THEN "fail" ELSE "alive"]
            /\ \A u \in Tasks : u # T(h) => proc'[u] = proc[u]
        BY <1>2, <3>1, ForkCases
      <4>2. t = T(h)
        BY <2>3, <4>1
      <4> QED
        BY <2>3, <4>1, <4>2 DEF ProcTypes
    <3> QED
      BY <2>1, <3>2 DEF FilesReady, IsReady
  <2> QED
    BY <2>2, <2>3
<1>3. CASE Unforked
  <2>1. proc[t][k] = "alive"
    BY <1>3, Ages DEF Aging
  <2>2. \A h \in Threads : pc[h] \in Files => ~Env[T(h)].may_reboot
    BY <2>1, FilesLeft
  <2>3. UNCHANGED <<fboot, sfile>>
    BY <1>3, <2>2, FilesStay DEF Unforked
  <2> QED
    BY <2>1, <2>3 DEF FilesCurrent
<1> QED
  BY <1>1, <1>2, <1>3 DEF Unforked


-----------------------------------------------------------------------------
(* With SlowChild *)

\* Calm, when the main thread does not move and nothing of its task does.
LEMMA CalmStays ==
  ASSUME Slow, SlowChild, Held', cur' = cur, pc'["main"] = pc["main"], ret'["main"] = ret["main"],
         status'[cur] = "RUN" => status[cur] = "RUN",
         Calm => /\ proc'[cur] = proc[cur] /\ leader'[cur] = leader[cur]
                 /\ ~(tsk' = cur /\ pc'[Recycle] \in Hands)
  PROVE  Calm'
<1>1. Held
  BY DEF Held, GivenUp
<1>2. Calm
  BY <1>1 DEF Slow
<1> QED
  BY <1>2 DEF Calm

\* A signal to a group leaves the others alone.
LEMMA KillOthers ==
  ASSUME ProcTypes, NEW t \in Tasks, NEW how, kill(t, how)
  PROVE  \A u \in Tasks : u # t => proc'[u] = proc[u] /\ leader'[u] = leader[u]
  BY DEF ProcTypes, kill

\* Nothing of a task dies before it is counted.
LEMMA SlowKept ==
  ASSUME RunType, PlaceTypes, TaskTypes, ProcTypes, Meet, Shape, FromTheFirst, NotForked, DeathOf, Slow, [Next]_vars
  PROVE  Slow'
<1> USE TinaAssumption DEF RunType, PlaceTypes, TaskTypes, Threads, Recycle
<1> SUFFICES ASSUME SlowChild, Held' PROVE Calm'
  BY DEF Slow
<1>a. SlowChild /\ Held' /\ Slow
  OBVIOUS
<1>b. pc["main"] \notin {"list", "join"} => cur \in Tasks
  OBVIOUS
<1>1. ASSUME NEW h \in Threads, KillLimits(h) PROVE Calm'
  <2>1. /\ UNCHANGED <<ret, cur, tsk, status>> /\ pc[h] = "kill"
        /\ \E p \in {"clean", "sub"} : pc' = [pc EXCEPT ![h] = p]
    BY <1>1 DEF KillLimits, tasks, others, local, Leave, At, Goto
  <2>2. CASE h = "main"
    BY <1>a, <2>1, <2>2 DEF Held
  <2>3. CASE h = Recycle
    <3>1. /\ pc'["main"] = pc["main"] /\ ret'["main"] = ret["main"]
          /\ pc'[Recycle] \in Hands => pc[Recycle] \in Hands
      BY <2>1, <2>3 DEF Hands, Ending
    <3>2. proc'[cur] = proc[cur] /\ leader'[cur] = leader[cur]
      <4>1. CASE UNCHANGED <<proc, leader>>
        BY <4>1
      <4>2. CASE Env[tsk].run_parallel /\ kill(tsk, "fail")
        <5>1. Held
          BY <1>a, <2>1, <3>1 DEF Held, GivenUp
        <5>2. cur \in Tasks /\ cur # tsk /\ tsk \in Tasks
          BY <1>a, <1>b, <2>1, <2>3, <5>1 DEF Held, Slow, Calm, Hands, Ending
        <5> QED
          BY <4>2, <5>2, KillOthers
      <4> QED
        BY <1>1, <2>3, <4>1, <4>2 DEF KillLimits, T
    <3> QED
      BY <1>a, <2>1, <3>1, <3>2, CalmStays DEF Calm
  <2> QED
    BY <2>2, <2>3
<1>2. ASSUME NEW h \in Threads, task_clean_reboot(h) PROVE Calm'
  <2>1. /\ UNCHANGED <<ret, cur, tsk, status, proc, leader>> /\ pc[h] = "clean"
        /\ \E p \in {"tell"} : pc' = [pc EXCEPT ![h] = p]
    BY <1>2 DEF task_clean_reboot, tasks, kernel, others, local, Leave, At, Goto
  <2>2. CASE h = "main"
    BY <1>a, <2>1, <2>2 DEF Held
  <2>3. CASE h = Recycle
    <3>1. /\ pc'["main"] = pc["main"] /\ ret'["main"] = ret["main"]
          /\ pc'[Recycle] \in Hands => pc[Recycle] \in Hands
      BY <2>1, <2>3 DEF Hands, Doing, Ending
    <3> QED
      BY <1>a, <2>1, <3>1, CalmStays DEF Calm
  <2> QED
    BY <2>2, <2>3
<1>3. ASSUME NEW h \in Threads, CountEnd(h) PROVE Calm'
  <2>1. /\ UNCHANGED <<ret, cur, tsk, status, proc, leader>> /\ pc[h] = "sub"
        /\ \E p \in {"tell"} : pc' = [pc EXCEPT ![h] = p]
    BY <1>3 DEF CountEnd, tasks, kernel, others, local, Leave, At, Goto
  <2>2. CASE h = "main"
    BY <1>a, <2>1, <2>2 DEF Held
  <2>3. CASE h = Recycle
    <3>1. /\ pc'["main"] = pc["main"] /\ ret'["main"] = ret["main"]
          /\ pc'[Recycle] \in Hands => pc[Recycle] \in Hands
      BY <2>1, <2>3 DEF Hands, Doing, Ending
    <3> QED
      BY <1>a, <2>1, <3>1, CalmStays DEF Calm
  <2> QED
    BY <2>2, <2>3
<1>4. ASSUME NEW h \in Threads, TELL_PARENT(h) PROVE Calm'
  <2>1. /\ UNCHANGED <<ret, cur, tsk, proc, leader>> /\ pc[h] = "tell"
        /\ \E p \in {"lastsub", "again"} : pc' = [pc EXCEPT ![h] = p]
    BY <1>4 DEF TELL_PARENT, kernel, others, local, Leave, At, Goto
  <2>2. CASE h = "main"
    <3>1. pc'["main"] = "lastsub"
      BY <1>4, <2>2 DEF TELL_PARENT, Goto
    <3> QED
      BY <1>a, <3>1 DEF Held
  <2>3. CASE h = Recycle
    <3>1. /\ pc'["main"] = pc["main"] /\ ret'["main"] = ret["main"] /\ pc'[Recycle] \notin Hands
      BY <1>4, <2>1, <2>3 DEF TELL_PARENT, Goto, Hands, Doing, Ending
    <3>2. status'[cur] = "RUN" => status[cur] = "RUN"
      BY <1>4, <2>1, <2>3 DEF TELL_PARENT
    <3> QED
      BY <1>a, <2>1, <3>1, <3>2, CalmStays
  <2> QED
    BY <2>2, <2>3
<1>5. ASSUME NEW h \in Threads, LockTask(h) PROVE Calm'
  <2>1. /\ UNCHANGED <<ret, cur, tsk, status, proc, leader>> /\ pc[h] = "lock"
        /\ \E p \in {"reboot", "last"} : pc' = [pc EXCEPT ![h] = p]
    BY <1>5 DEF LockTask, rest, tasks, kernel, Leave, At, Goto
  <2>2. CASE h = "main"
    BY <1>a, <2>1, <2>2 DEF Held
  <2>3. CASE h = Recycle
    <3>1. /\ pc'["main"] = pc["main"] /\ ret'["main"] = ret["main"]
          /\ pc'[Recycle] \in Hands => pc[Recycle] \in Hands
      BY <2>1, <2>3 DEF Hands, Doing, Ending
    <3> QED
      BY <1>a, <2>1, <3>1, CalmStays DEF Calm
  <2> QED
    BY <2>2, <2>3
<1>6. ASSUME NEW h \in Threads, task_init_reboot_mode(h) PROVE Calm'
  <2>1. /\ UNCHANGED <<cur, tsk, status, proc, leader>> /\ pc[h] = "reboot"
        /\ \E p \in {"status", "unlock"} : pc' = [pc EXCEPT ![h] = p]
    BY <1>6 DEF task_init_reboot_mode, kernel, Leave, At, Goto
  <2>2. CASE h = "main"
    <3>1. pc'["main"] = "unlock" => ~ret'["main"]
      BY <1>6, <2>1, <2>2 DEF task_init_reboot_mode, Leave, Goto
    <3> QED
      BY <1>a, <2>1, <2>2, <3>1 DEF Held, GivenUp
  <2>3. CASE h = Recycle
    <3>1. /\ pc'["main"] = pc["main"] /\ ret'["main"] = ret["main"]
          /\ pc'[Recycle] \in Hands => pc[Recycle] \in Hands
      BY <1>6, <2>1, <2>3 DEF task_init_reboot_mode, Leave, Hands, Doing, Ending
    <3> QED
      BY <1>a, <2>1, <3>1, CalmStays DEF Calm
  <2> QED
    BY <2>2, <2>3
<1>7. ASSUME NEW h \in Threads, task_create_reboot_status(h) PROVE Calm'
  <2>1. /\ UNCHANGED <<cur, tsk, status, proc, leader>> /\ pc[h] \in {"status", "fill"}
        /\ \E p \in {"fill", "last", "unlock"} : pc' = [pc EXCEPT ![h] = p]
    BY <1>7 DEF task_create_reboot_status, tasks, kernel, Leave, At, Goto
  <2>2. CASE h = "main"
    <3>1. pc'["main"] = "unlock" => ~ret'["main"]
      BY <1>7, <2>1, <2>2 DEF task_create_reboot_status, Leave, Goto
    <3> QED
      BY <1>a, <2>1, <2>2, <3>1 DEF Held, GivenUp
  <2>3. CASE h = Recycle
    <3>1. /\ pc'["main"] = pc["main"] /\ ret'["main"] = ret["main"]
          /\ pc'[Recycle] \in Hands => pc[Recycle] \in Hands
      BY <1>7, <2>1, <2>3 DEF task_create_reboot_status, Leave, Hands, Doing, Ending
    <3> QED
      BY <1>a, <2>1, <3>1, CalmStays DEF Calm
  <2> QED
    BY <2>2, <2>3
<1>8. ASSUME NEW h \in Threads, LastTimes(h) PROVE Calm'
  <2>1. /\ UNCHANGED <<ret, cur, tsk, status, proc, leader>> /\ pc[h] = "last"
        /\ \E p \in {"limits", "kill", "lastsub"} : pc' = [pc EXCEPT ![h] = p]
    BY <1>8 DEF LastTimes, others, local, rest, tasks, kernel, Leave, At, Goto
  <2>2. CASE h = "main"
    BY <1>a, <2>1, <2>2 DEF Held
  <2>3. CASE h = Recycle
    <3>1. /\ pc'["main"] = pc["main"] /\ ret'["main"] = ret["main"]
          /\ pc'[Recycle] \in Hands => pc[Recycle] \in Hands
      BY <2>1, <2>3 DEF Hands, Doing, Ending
    <3> QED
      BY <1>a, <2>1, <3>1, CalmStays DEF Calm
  <2> QED
    BY <2>2, <2>3
<1>9. ASSUME NEW h \in Threads, LastSub(h) PROVE Calm'
  <2>1. UNCHANGED <<cur, status>> /\ pc[h] = "lastsub"
    BY <1>9 DEF LastSub, tasks, At
  <2>2. h = "main"
    BY <2>1 DEF RecycleAt, Doing, Ending
  <2> QED
    BY <1>a, <2>1, <2>2 DEF Shape, Held
<1>10. ASSUME NEW h \in Threads, DoLimits(h) PROVE Calm'
  <2>1. /\ UNCHANGED <<cur, tsk, status, proc>> /\ pc[h] = "limits" /\ T(h) \in Tasks
        /\ \/ pc' = [pc EXCEPT ![h] = "fork"] /\ UNCHANGED ret /\ leader' = [leader EXCEPT ![T(h)] = "alive"]
           \/ pc' = [pc EXCEPT ![h] = "unlock"] /\ ret' = [ret EXCEPT ![h] = FALSE] /\ UNCHANGED leader
    BY <1>10 DEF DoLimits, NewGroup, Leave, At, Goto, T
  <2>2. CASE h = "main"
    <3>1. pc'["main"] = "fork" /\ leader'[cur] = "alive" /\ pc'[Recycle] = pc[Recycle]
      BY <1>a, <2>1, <2>2 DEF Held, GivenUp, ProcTypes, T
    <3>2. \A k \in Slots : proc[cur][k] = "none"
      BY <2>1, <2>2 DEF NotForked, Late, T
    <3>3. ~(tsk = cur /\ pc[Recycle] \in Hands)
      BY <2>1, <2>2 DEF Meet
    <3> QED
      BY <2>1, <3>1, <3>2, <3>3 DEF Calm
  <2>3. CASE h = Recycle
    <3>1. pc'["main"] = pc["main"] /\ ret'["main"] = ret["main"] /\ (pc'[Recycle] \in Hands => pc[Recycle] \in Hands)
      BY <2>1, <2>3 DEF Hands, Doing, Ending
    <3>2. Calm => cur # tsk
      BY <2>1, <2>3 DEF Calm, Hands, Doing
    <3>3. Calm => leader'[cur] = leader[cur]
      <4>1. cur \in Tasks
        BY <1>a, <1>b, <3>1 DEF Held
      <4> QED
        BY <2>1, <2>3, <3>2, <4>1 DEF T, ProcTypes
    <3> QED
      BY <1>a, <2>1, <3>1, <3>2, <3>3, CalmStays
  <2> QED
    BY <2>2, <2>3
<1>11. ASSUME NEW h \in Threads, ForkTestcase(h) PROVE Calm'
  <2>1. /\ T(h) \in Tasks /\ pc[h] = "fork" /\ UNCHANGED <<cur, tsk, status, run_times>>
    BY <1>11, ForkCases
  <2>2. CASE h = "main"
    <3>1. ~(pc' = [pc EXCEPT ![h] = "unlock"] /\ ret' = [ret EXCEPT ![h] = FALSE])
      BY <1>a, <2>1, <2>2 DEF Held, GivenUp
    <3>2. /\ pc' = [pc EXCEPT !["main"] = "record"] /\ UNCHANGED leader
          /\ proc'[cur] = [proc[cur] EXCEPT ![run_times[cur]] = IF leader[cur] = "gone" THEN "fail" ELSE "alive"]
      BY <1>11, <2>2, <3>1, ForkCases DEF T
    <3>3. Held
      BY <1>a, <2>1, <2>2 DEF Held, GivenUp
    <3>4. Calm
      BY <1>a, <3>3 DEF Slow
    <3>5. \A k \in Slots : proc'[cur][k] \in {"none", "alive"}
      BY <2>1, <2>2, <3>2, <3>4 DEF Calm, ProcTypes, T
    <3>6. pc'[Recycle] = pc[Recycle]
      BY <3>2
    <3> QED
      BY <2>1, <2>2, <3>2, <3>4, <3>5, <3>6 DEF Calm
  <2>3. CASE h = Recycle
    <3>1. \E p \in {"record", "unlock"} : pc' = [pc EXCEPT ![Recycle] = p]
      BY <1>11, <2>3, ForkCases
    <3>2. pc'["main"] = pc["main"] /\ ret'["main"] = ret["main"] /\ (pc'[Recycle] \in Hands => pc[Recycle] \in Hands)
      <4>1. ret'["main"] = ret["main"]
        BY <1>11, <2>3 DEF ForkTestcase, Leave
      <4> QED
        BY <2>1, <2>3, <3>1, <4>1 DEF Hands, Doing, Ending
    <3>3. Calm => cur # tsk
      BY <2>1, <2>3 DEF Calm, Hands, Doing
    <3>4. cur \in Tasks
      BY <1>a, <1>b, <3>2 DEF Held
    <3>5. Calm => proc'[cur] = proc[cur] /\ leader'[cur] = leader[cur]
      <4>1. CASE kill(T(h), "fail")
        BY <2>1, <2>3, <3>3, <3>4, <4>1, KillOthers DEF T
      <4>2. CASE /\ proc' = [proc EXCEPT ![T(h)][run_times[T(h)]] = IF leader[T(h)] = "gone" THEN "fail" ELSE "alive"]
                 /\ UNCHANGED leader
        BY <2>1, <2>3, <3>3, <3>4, <4>2 DEF T, ProcTypes
      <4> QED
        BY <1>11, <4>1, <4>2 DEF ForkTestcase
    <3> QED
      BY <1>a, <2>1, <3>2, <3>3, <3>5, CalmStays
  <2> QED
    BY <2>2, <2>3
<1>12. ASSUME NEW h \in Threads, RecordPid(h) PROVE Calm'
  <2>1. /\ UNCHANGED <<cur, tsk, status, proc, leader>> /\ pc[h] = "record"
        /\ \E p \in {"fork", "unlock"} : pc' = [pc EXCEPT ![h] = p]
        /\ \A g \in Threads : g # h => ret'[g] = ret[g]
    BY <1>12 DEF RecordPid, kernel, Leave, At, Goto
  <2>2. CASE h = "main"
    <3>1. Held
      BY <1>a, <2>1, <2>2 DEF Held, GivenUp
    <3>2. Calm
      BY <1>a, <3>1 DEF Slow
    <3>3. pc["main"] = "record" /\ pc'[Recycle] = pc[Recycle]
      BY <2>1, <2>2
    <3> QED
      BY <2>1, <3>2, <3>3 DEF Calm
  <2>3. CASE h = Recycle
    <3>1. pc'["main"] = pc["main"] /\ ret'["main"] = ret["main"] /\ (pc'[Recycle] \in Hands => pc[Recycle] \in Hands)
      BY <2>1, <2>3 DEF Hands, Doing, Ending
    <3> QED
      BY <1>a, <2>1, <3>1, CalmStays DEF Calm
  <2> QED
    BY <2>2, <2>3
<1>13. ASSUME NEW h \in Threads, UnlockTask(h) PROVE Calm'
  <2>1. /\ UNCHANGED <<ret, cur, tsk, status, proc, leader>> /\ pc[h] = "unlock"
        /\ pc' = [pc EXCEPT ![h] = IF h = Recycle THEN "again" ELSE IF ret[h] THEN "started" ELSE "failed"]
    BY <1>13 DEF UnlockTask, rest, tasks, kernel, At, Goto
  <2>2. CASE h = "main"
    <3>1. Held
      BY <1>a, <2>1, <2>2 DEF Held, GivenUp
    <3>2. Calm
      BY <1>a, <3>1 DEF Slow
    <3>3. pc'["main"] \in {"started", "failed"} /\ pc'[Recycle] = pc[Recycle]
      BY <2>1, <2>2
    <3> QED
      BY <2>1, <3>2, <3>3 DEF Calm
  <2>3. CASE h = Recycle
    <3>1. pc'["main"] = pc["main"] /\ pc'[Recycle] \notin Hands
      BY <2>1, <2>3 DEF Hands, Doing, Ending
    <3> QED
      BY <1>a, <2>1, <3>1, CalmStays
  <2> QED
    BY <2>2, <2>3
<1>14. CASE ListTop
  <2>1. pc'["main"] \in {"join", "wait", "alone"}
    BY <1>14 DEF ListTop, Goto
  <2> QED
    BY <1>a, <2>1 DEF Held
<1>15. CASE WAIT_CHILD
  <2>1. pc'["main"] \in {"list"}
    BY <1>15 DEF WAIT_CHILD, Goto
  <2> QED
    BY <1>a, <2>1 DEF Held
<1>16. CASE BeginTask
  <2>1. pc'["main"] \in {"list", "lock"}
    BY <1>16 DEF BeginTask, Goto, NextTask
  <2> QED
    BY <1>a, <2>1 DEF Held
<1>17. CASE TaskStarted
  <2>1. pc'["main"] \in {"after"}
    BY <1>17 DEF TaskStarted, Goto
  <2> QED
    BY <1>a, <2>1 DEF Held
<1>18. CASE TaskFailed
  <2>1. pc'["main"] \in {"list"}
    BY <1>18 DEF TaskFailed, Goto, NextTask
  <2> QED
    BY <1>a, <2>1 DEF Held
<1>19. CASE WaitAlone
  <2>1. pc'["main"] \in {"list"}
    BY <1>19 DEF WaitAlone, Goto, NextTask
  <2> QED
    BY <1>a, <2>1 DEF Held
<1>20. CASE task_quit_clean
  BY <1>20, <1>a DEF task_quit_clean, At, sched, Held
<1>21. CASE RecycleTop
  <2>1. /\ UNCHANGED <<ret, cur, tsk, status, proc, leader>> /\ pc'["main"] = pc["main"]
        /\ pc'[Recycle] \in Hands => pc[Recycle] \in Hands
    BY <1>21 DEF RecycleTop, others, local, rest, tasks, kernel, At, Goto, Hands, Doing, Ending
  <2> QED
    BY <1>a, <2>1, CalmStays DEF Calm
<1>22. CASE wait4
  <2>1. /\ UNCHANGED <<ret, cur, tsk, status>> /\ pc'["main"] = pc["main"] /\ pc'[Recycle] \notin Hands
    BY <1>22 DEF wait4, tasks, Goto, Hands, Doing, Ending
  <2>2. cur \in Tasks
    BY <1>a, <1>b, <2>1 DEF Held
  <2>3. Calm => proc'[cur] = proc[cur]
    <3>1. UNCHANGED proc \/ \E t \in Tasks, k \in Slots : proc[t][k] \in Zombies /\ proc' = [proc EXCEPT ![t][k] = "gone"]
      BY <1>22 DEF wait4, kernel
    <3> QED
      BY <2>2, <3>1 DEF Calm, Zombies, ProcTypes
  <2>4. leader'[cur] = leader[cur] \/ leader[cur] = "dead"
    BY <1>22, <2>2 DEF wait4, kernel, ProcTypes
  <2>5. Calm /\ Held => leader'[cur] = leader[cur] \/ pc["main"] \notin {"fork", "record"}
    BY <2>4 DEF Calm
  <2>6. Held
    BY <1>a, <2>1 DEF Held, GivenUp
  <2>7. Calm
    BY <1>a, <2>6 DEF Slow
  <2> QED
    BY <2>1, <2>3, <2>5, <2>6, <2>7 DEF Calm
<1>23. CASE MatchLeader
  <2>1. /\ UNCHANGED <<ret, cur, tsk, status, proc, leader>> /\ pc'["main"] = pc["main"]
        /\ pc'[Recycle] \in Hands => pc[Recycle] \in Hands
    BY <1>23 DEF MatchLeader, kernel, local, At, Goto, Hands, Doing, Ending
  <2> QED
    BY <1>a, <2>1, CalmStays DEF Calm
<1>24. CASE task_recycle_once
  <2>1. /\ UNCHANGED <<ret, cur, status>> /\ pc'["main"] = pc["main"] /\ pc[Recycle] = "match" /\ got[3] # "leader"
        /\ tsk' = got[1]
        /\ kill(got[1], "fail") \/ UNCHANGED <<proc, leader>>
    BY <1>24 DEF task_recycle_once, At, Goto
  <2>2. PICK t \in Tasks, k \in Slots : t = got[1] /\ k = got[2]
    BY <2>1
  <2>3. proc[t][k] = "gone"
    BY <2>1, <2>2 DEF DeathOf
  <2>4. cur \in Tasks /\ (Calm => t # cur)
    BY <1>a, <1>b, <2>1, <2>3 DEF Held, Calm
  <2>5. Calm => proc'[cur] = proc[cur] /\ leader'[cur] = leader[cur]
    BY <2>1, <2>2, <2>4, KillOthers
  <2> QED
    BY <1>a, <2>1, <2>2, <2>4, <2>5, CalmStays
<1>25. CASE NoMatch
  <2>1. /\ UNCHANGED <<ret, cur, tsk, status, proc, leader>> /\ pc'["main"] = pc["main"]
        /\ pc'[Recycle] \in Hands => pc[Recycle] \in Hands
    BY <1>25 DEF NoMatch, tasks, kernel, local, At, Goto, Hands, Doing, Ending
  <2> QED
    BY <1>a, <2>1, CalmStays DEF Calm
<1>26. CASE task_check_end
  <2>1. /\ UNCHANGED <<ret, cur, tsk, status, proc, leader>> /\ pc'["main"] = pc["main"]
        /\ pc'[Recycle] \in Hands => pc[Recycle] \in Hands
    BY <1>26 DEF task_check_end, others, local, rest, tasks, kernel, At, Goto, Hands, Doing, Ending
  <2> QED
    BY <1>a, <2>1, CalmStays DEF Calm
<1>27. CASE Again
  <2>1. /\ UNCHANGED <<ret, cur, tsk, status, proc, leader>> /\ pc'["main"] = pc["main"]
        /\ pc'[Recycle] \in Hands => pc[Recycle] \in Hands
    BY <1>27 DEF Again, local, rest, tasks, kernel, At, Goto, Hands, Doing, Ending
  <2> QED
    BY <1>a, <2>1, CalmStays DEF Calm
<1>28. ASSUME NEW t \in Tasks, OnceLimit(t) PROVE Calm'
  <2>1. UNCHANGED <<ret, cur, tsk, status, pc>> /\ Settled(t)
    BY <1>28, <1>a DEF OnceLimit, sched, tasks
  <2>2. cur \in Tasks /\ cur # t
    BY <1>a, <1>b, <2>1 DEF Held, Settled, T
  <2>3. proc'[cur] = proc[cur] /\ leader'[cur] = leader[cur]
    BY <1>28, <2>2, KillOthers DEF OnceLimit
  <2> QED
    BY <1>a, <2>1, <2>3, CalmStays DEF Calm
<1>29. ASSUME NEW t \in Tasks, WholeLimit(t) PROVE Calm'
  <2>1. UNCHANGED <<ret, cur, tsk, status, pc>> /\ Settled(t)
    BY <1>29, <1>a DEF WholeLimit, sched
  <2>2. cur \in Tasks /\ cur # t
    BY <1>a, <1>b, <2>1 DEF Held, Settled, T
  <2>3. proc'[cur] = proc[cur] /\ leader'[cur] = leader[cur]
    BY <1>29, <2>2, KillOthers DEF WholeLimit
  <2> QED
    BY <1>a, <2>1, <2>3, CalmStays DEF Calm
<1>30. ASSUME NEW t \in Tasks, NEW k \in Slots, Exit(t, k) PROVE Calm'
  <2>1. UNCHANGED <<ret, cur, tsk, status, pc>> /\ Settled(t)
    BY <1>30, <1>a DEF Exit, sched, tasks
  <2>2. cur \in Tasks /\ cur # t
    BY <1>a, <1>b, <2>1 DEF Held, Settled, T
  <2>3. proc'[cur] = proc[cur] /\ leader'[cur] = leader[cur]
    BY <1>30, <2>2 DEF Exit, ProcTypes
  <2> QED
    BY <1>a, <2>1, <2>3, CalmStays DEF Calm
<1>31. CASE task_signal_quit
  <2>1. UNCHANGED <<cur, pc>> /\ \A t \in Tasks : Settled(t)
    BY <1>31, <1>a DEF task_signal_quit, sched
  <2>2. cur \in Tasks
    BY <1>a, <1>b, <2>1 DEF Held
  <2> QED
    BY <1>a, <2>1, <2>2 DEF Held, Settled, T
<1>32. CASE PowerOff
  <2>1. UNCHANGED <<ret, cur, tsk, status, pc, proc, leader>>
    BY <1>32 DEF PowerOff, sched, tasks, kernel
  <2> QED
    BY <1>a, <2>1, CalmStays DEF Calm
<1>33. CASE task_recover_after_reboot
  <2>1. pc'["main"] = "list"
    BY <1>33 DEF task_recover_after_reboot, AtStart
  <2> QED
    BY <1>a, <2>1 DEF Held
<1>34. CASE Stopped \/ UNCHANGED vars
  <2>1. UNCHANGED <<ret, cur, tsk, status, pc, proc, leader>>
    BY <1>34 DEF Stopped, vars
  <2> QED
    BY <1>a, <2>1, CalmStays DEF Calm
<1>35. CASE task_do_crash
  <2>1. UNCHANGED <<ret, cur, tsk, status, pc, proc, leader>>
    BY <1>35 DEF task_do_crash, sched, tasks, kernel
  <2> QED
    BY <1>a, <2>1, CalmStays DEF Calm
<1> QED
  BY <1>1, <1>2, <1>3, <1>4, <1>5, <1>6, <1>7, <1>8, <1>9, <1>10, <1>11, <1>12, <1>13, <1>14,
     <1>15, <1>16, <1>17, <1>18, <1>19, <1>20, <1>21, <1>22, <1>23, <1>24, <1>25, <1>26, <1>27,
     <1>28, <1>29, <1>30, <1>31, <1>32, <1>33, <1>34, <1>35
  DEF Next, Main, Recycler, Thread, task_begin, task_recycle, task_do, task_recycle_end, Threads,
      Recycle


-----------------------------------------------------------------------------
(* The end *)

\* Only a loss of power takes the machine down, and nothing goes on while it is.
LEMMA OffStays ==
  ASSUME tool' = "off", ~PowerOff, [Next]_vars
  PROVE  UNCHANGED <<tool, fboot, reboot_mode>>
<1> USE TinaAssumption DEF At
<1>1. ASSUME NEW h \in Threads, KillLimits(h) PROVE UNCHANGED <<tool, fboot, reboot_mode>>
  BY <1>1 DEF KillLimits, others
<1>2. ASSUME NEW h \in Threads, task_clean_reboot(h) PROVE UNCHANGED <<tool, fboot, reboot_mode>>
  BY <1>2 DEF task_clean_reboot, others
<1>3. ASSUME NEW h \in Threads, CountEnd(h) PROVE UNCHANGED <<tool, fboot, reboot_mode>>
  BY <1>3 DEF CountEnd, others
<1>4. ASSUME NEW h \in Threads, TELL_PARENT(h) PROVE UNCHANGED <<tool, fboot, reboot_mode>>
  BY <1>4 DEF TELL_PARENT, others
<1>5. ASSUME NEW h \in Threads, LockTask(h) PROVE UNCHANGED <<tool, fboot, reboot_mode>>
  BY <1>5 DEF LockTask
<1>6. ASSUME NEW h \in Threads, task_init_reboot_mode(h) PROVE UNCHANGED <<tool, fboot, reboot_mode>>
  BY <1>6 DEF task_init_reboot_mode
<1>7. ASSUME NEW h \in Threads, task_create_reboot_status(h) PROVE UNCHANGED <<tool, fboot, reboot_mode>>
  BY <1>7 DEF task_create_reboot_status
<1>8. ASSUME NEW h \in Threads, LastTimes(h) PROVE UNCHANGED <<tool, fboot, reboot_mode>>
  BY <1>8 DEF LastTimes, others
<1>9. ASSUME NEW h \in Threads, LastSub(h) PROVE UNCHANGED <<tool, fboot, reboot_mode>>
  BY <1>9 DEF LastSub
<1>10. ASSUME NEW h \in Threads, DoLimits(h) PROVE UNCHANGED <<tool, fboot, reboot_mode>>
  BY <1>10 DEF DoLimits
<1>11. ASSUME NEW h \in Threads, ForkTestcase(h) PROVE UNCHANGED <<tool, fboot, reboot_mode>>
  BY <1>11 DEF ForkTestcase
<1>12. ASSUME NEW h \in Threads, RecordPid(h) PROVE UNCHANGED <<tool, fboot, reboot_mode>>
  BY <1>12 DEF RecordPid
<1>13. ASSUME NEW h \in Threads, UnlockTask(h) PROVE UNCHANGED <<tool, fboot, reboot_mode>>
  BY <1>13 DEF UnlockTask
<1>14. CASE ListTop
  BY <1>14 DEF ListTop, others
<1>15. CASE WAIT_CHILD
  BY <1>15 DEF WAIT_CHILD, others
<1>16. CASE BeginTask
  BY <1>16 DEF BeginTask
<1>17. CASE TaskStarted
  BY <1>17 DEF TaskStarted, others
<1>18. CASE TaskFailed
  BY <1>18 DEF TaskFailed
<1>19. CASE WaitAlone
  BY <1>19 DEF WaitAlone
<1>20. CASE task_quit_clean
  BY <1>20 DEF task_quit_clean
<1>21. CASE RecycleTop
  BY <1>21 DEF RecycleTop, others
<1>22. CASE wait4
  <2>1. UNCHANGED <<tool>> /\ \E p \in {"match", "top"} : pc' = [pc EXCEPT ![Recycle] = p]
    BY <1>22 DEF wait4, Goto, At
  <2> QED
    BY <1>22, <2>1 DEF wait4
<1>23. CASE MatchLeader
  BY <1>23 DEF MatchLeader
<1>24. CASE task_recycle_once
  BY <1>24 DEF task_recycle_once
<1>25. CASE NoMatch
  BY <1>25 DEF NoMatch
<1>26. CASE task_check_end
  BY <1>26 DEF task_check_end, others
<1>27. CASE Again
  BY <1>27 DEF Again
<1>28. ASSUME NEW t \in Tasks, OnceLimit(t) PROVE UNCHANGED <<tool, fboot, reboot_mode>>
  BY <1>28 DEF OnceLimit
<1>29. ASSUME NEW t \in Tasks, WholeLimit(t) PROVE UNCHANGED <<tool, fboot, reboot_mode>>
  BY <1>29 DEF WholeLimit
<1>30. ASSUME NEW t \in Tasks, NEW k \in Slots, Exit(t, k) PROVE UNCHANGED <<tool, fboot, reboot_mode>>
  BY <1>30 DEF Exit
<1>31. CASE task_signal_quit
  BY <1>31 DEF task_signal_quit
<1>32. CASE PowerOff
  BY <1>32
<1>33. CASE task_recover_after_reboot
  BY <1>33 DEF task_recover_after_reboot
<1>34. CASE Stopped \/ UNCHANGED vars
  BY <1>34 DEF Stopped, vars
<1>35. CASE task_do_crash
  BY <1>35 DEF task_do_crash
<1> QED
  BY <1>1, <1>2, <1>3, <1>4, <1>5, <1>6, <1>7, <1>8, <1>9, <1>10, <1>11, <1>12, <1>13, <1>14,
     <1>15, <1>16, <1>17, <1>18, <1>19, <1>20, <1>21, <1>22, <1>23, <1>24, <1>25, <1>26, <1>27,
     <1>28, <1>29, <1>30, <1>31, <1>32, <1>33, <1>34, <1>35
  DEF Next, Main, Recycler, Thread, task_begin, task_recycle, task_do, task_recycle_end, Threads,
      Recycle

\* The recycle thread leaves from the top of its loop or from its bottom.
LEMMA ExitStays ==
  ASSUME RunType, pc'[Recycle] = "exit", ~RecycleTop, ~Again, [Next]_vars
  PROVE  pc[Recycle] = "exit"
<1> USE TinaAssumption DEF RunType, Threads, Recycle
<1>1. ASSUME NEW h \in Threads, KillLimits(h) PROVE pc[Recycle] = "exit"
  <2>1. /\ pc[h] = "kill"
        /\ \E p \in {"clean", "sub"} : pc' = [pc EXCEPT ![h] = p]
    BY <1>1 DEF KillLimits, At, Goto
  <2> QED
    BY <2>1
<1>2. ASSUME NEW h \in Threads, task_clean_reboot(h) PROVE pc[Recycle] = "exit"
  <2>1. /\ pc[h] = "clean"
        /\ pc' = [pc EXCEPT ![h] = "tell"]
    BY <1>2 DEF task_clean_reboot, At, Goto
  <2> QED
    BY <2>1
<1>3. ASSUME NEW h \in Threads, CountEnd(h) PROVE pc[Recycle] = "exit"
  <2>1. /\ pc[h] = "sub"
        /\ pc' = [pc EXCEPT ![h] = "tell"]
    BY <1>3 DEF CountEnd, At, Goto
  <2> QED
    BY <2>1
<1>4. ASSUME NEW h \in Threads, TELL_PARENT(h) PROVE pc[Recycle] = "exit"
  <2>1. /\ pc[h] = "tell"
        /\ \E p \in {"lastsub", "again"} : pc' = [pc EXCEPT ![h] = p]
    BY <1>4 DEF TELL_PARENT, At, Goto
  <2> QED
    BY <2>1
<1>5. ASSUME NEW h \in Threads, LockTask(h) PROVE pc[Recycle] = "exit"
  <2>1. /\ pc[h] = "lock"
        /\ \E p \in {"reboot", "last"} : pc' = [pc EXCEPT ![h] = p]
    BY <1>5 DEF LockTask, At, Goto
  <2> QED
    BY <2>1
<1>6. ASSUME NEW h \in Threads, task_init_reboot_mode(h) PROVE pc[Recycle] = "exit"
  <2>1. /\ pc[h] = "reboot"
        /\ \E p \in {"status", "unlock"} : pc' = [pc EXCEPT ![h] = p]
    BY <1>6 DEF task_init_reboot_mode, Leave, At, Goto
  <2> QED
    BY <2>1
<1>7. ASSUME NEW h \in Threads, task_create_reboot_status(h) PROVE pc[Recycle] = "exit"
  <2>1. /\ pc[h] \in {"status", "fill"}
        /\ \E p \in {"fill", "last", "unlock"} : pc' = [pc EXCEPT ![h] = p]
    BY <1>7 DEF task_create_reboot_status, Leave, At, Goto
  <2> QED
    BY <2>1
<1>8. ASSUME NEW h \in Threads, LastTimes(h) PROVE pc[Recycle] = "exit"
  <2>1. /\ pc[h] = "last"
        /\ \E p \in {"limits", "kill", "lastsub"} : pc' = [pc EXCEPT ![h] = p]
    BY <1>8 DEF LastTimes, At, Goto
  <2> QED
    BY <2>1
<1>9. ASSUME NEW h \in Threads, LastSub(h) PROVE pc[Recycle] = "exit"
  <2>1. /\ pc[h] = "lastsub"
        /\ pc' = [pc EXCEPT ![h] = "unlock"]
    BY <1>9 DEF LastSub, Leave, At, Goto
  <2> QED
    BY <2>1
<1>10. ASSUME NEW h \in Threads, DoLimits(h) PROVE pc[Recycle] = "exit"
  <2>1. /\ pc[h] = "limits"
        /\ \E p \in {"fork", "unlock"} : pc' = [pc EXCEPT ![h] = p]
    BY <1>10 DEF DoLimits, Leave, At, Goto
  <2> QED
    BY <2>1
<1>11. ASSUME NEW h \in Threads, ForkTestcase(h) PROVE pc[Recycle] = "exit"
  <2>1. /\ pc[h] = "fork"
        /\ \E p \in {"record", "unlock"} : pc' = [pc EXCEPT ![h] = p]
    BY <1>11 DEF ForkTestcase, Leave, At, Goto
  <2> QED
    BY <2>1
<1>12. ASSUME NEW h \in Threads, RecordPid(h) PROVE pc[Recycle] = "exit"
  <2>1. /\ pc[h] = "record"
        /\ \E p \in {"fork", "unlock"} : pc' = [pc EXCEPT ![h] = p]
    BY <1>12 DEF RecordPid, Leave, At, Goto
  <2> QED
    BY <2>1
<1>13. ASSUME NEW h \in Threads, UnlockTask(h) PROVE pc[Recycle] = "exit"
  <2>1. \E p \in {"again", "started", "failed"} : pc' = [pc EXCEPT ![h] = p]
    BY <1>13 DEF UnlockTask, Goto
  <2> QED
    BY <2>1
<1>14. CASE ListTop
  <2>1. /\ pc["main"] = "list"
        /\ \E p \in {"join", "wait", "alone"} : pc' = [pc EXCEPT !["main"] = p]
    BY <1>14 DEF ListTop, At, Goto
  <2> QED
    BY <2>1
<1>15. CASE WAIT_CHILD
  <2>1. /\ pc["main"] = "wait"
        /\ pc' = [pc EXCEPT !["main"] = "list"]
    BY <1>15 DEF WAIT_CHILD, At, Goto
  <2> QED
    BY <2>1
<1>16. CASE BeginTask
  <2>1. /\ pc["main"] = "alone"
        /\ \E p \in {"list", "lock"} : pc' = [pc EXCEPT !["main"] = p]
    BY <1>16 DEF BeginTask, NextTask, At, Goto
  <2> QED
    BY <2>1
<1>17. CASE TaskStarted
  <2>1. /\ pc["main"] = "started"
        /\ pc' = [pc EXCEPT !["main"] = "after"]
    BY <1>17 DEF TaskStarted, At, Goto
  <2> QED
    BY <2>1
<1>18. CASE TaskFailed
  <2>1. /\ pc["main"] = "failed"
        /\ pc' = [pc EXCEPT !["main"] = "list"]
    BY <1>18 DEF TaskFailed, NextTask, At, Goto
  <2> QED
    BY <2>1
<1>19. CASE WaitAlone
  <2>1. /\ pc["main"] = "after"
        /\ pc' = [pc EXCEPT !["main"] = "list"]
    BY <1>19 DEF WaitAlone, NextTask, At, Goto
  <2> QED
    BY <2>1
<1>20. CASE task_quit_clean
  <2>1. /\ UNCHANGED <<pc>>
        /\ pc["main"] = "join"
    BY <1>20 DEF task_quit_clean, sched, At, Goto
  <2> QED
    BY <2>1
<1>21. CASE RecycleTop
  BY <1>21
<1>22. CASE wait4
  <2>1. /\ pc[Recycle] = "wait4"
        /\ \E p \in {"match", "top"} : pc' = [pc EXCEPT ![Recycle] = p]
    BY <1>22 DEF wait4, At, Goto
  <2> QED
    BY <2>1
<1>23. CASE MatchLeader
  <2>1. /\ pc[Recycle] = "match"
        /\ pc' = [pc EXCEPT ![Recycle] = "top"]
    BY <1>23 DEF MatchLeader, At, Goto
  <2> QED
    BY <2>1
<1>24. CASE task_recycle_once
  <2>1. /\ pc[Recycle] = "match"
        /\ pc' = [pc EXCEPT ![Recycle] = "check"]
    BY <1>24 DEF task_recycle_once, At, Goto
  <2> QED
    BY <2>1
<1>25. CASE NoMatch
  <2>1. /\ pc[Recycle] = "match"
        /\ pc' = [pc EXCEPT ![Recycle] = "top"]
    BY <1>25 DEF NoMatch, At, Goto
  <2> QED
    BY <2>1
<1>26. CASE task_check_end
  <2>1. /\ pc[Recycle] = "check"
        /\ \E p \in {"kill", "again", "lock"} : pc' = [pc EXCEPT ![Recycle] = p]
    BY <1>26 DEF task_check_end, At, Goto
  <2> QED
    BY <2>1
<1>27. CASE Again
  BY <1>27
<1>28. ASSUME NEW t \in Tasks, OnceLimit(t) PROVE pc[Recycle] = "exit"
  <2>1. UNCHANGED <<pc>>
    BY <1>28 DEF OnceLimit, sched, At, Goto
  <2> QED
    BY <2>1
<1>29. ASSUME NEW t \in Tasks, WholeLimit(t) PROVE pc[Recycle] = "exit"
  <2>1. UNCHANGED <<pc>>
    BY <1>29 DEF WholeLimit, sched, At, Goto
  <2> QED
    BY <2>1
<1>30. ASSUME NEW t \in Tasks, NEW k \in Slots, Exit(t, k) PROVE pc[Recycle] = "exit"
  <2>1. UNCHANGED <<pc>>
    BY <1>30 DEF Exit, sched, At, Goto
  <2> QED
    BY <2>1
<1>31. CASE task_signal_quit
  <2>1. UNCHANGED <<pc>>
    BY <1>31 DEF task_signal_quit, sched, At, Goto
  <2> QED
    BY <2>1
<1>32. CASE PowerOff
  <2>1. UNCHANGED <<pc>>
    BY <1>32 DEF PowerOff, sched, At, Goto
  <2> QED
    BY <2>1
<1>33. CASE task_recover_after_reboot
  <2>1. pc'[Recycle] = "top"
    BY <1>33 DEF task_recover_after_reboot, AtStart
  <2> QED
    BY <2>1
<1>34. CASE Stopped \/ UNCHANGED vars
  <2>1. UNCHANGED <<pc>>
    BY <1>34 DEF Stopped, vars
  <2> QED
    BY <2>1
<1>35. CASE task_do_crash
  <2>1. UNCHANGED <<pc>>
    BY <1>35 DEF task_do_crash, sched, At, Goto
  <2> QED
    BY <2>1
<1> QED
  BY <1>1, <1>2, <1>3, <1>4, <1>5, <1>6, <1>7, <1>8, <1>9, <1>10, <1>11, <1>12, <1>13, <1>14,
     <1>15, <1>16, <1>17, <1>18, <1>19, <1>20, <1>21, <1>22, <1>23, <1>24, <1>25, <1>26, <1>27,
     <1>28, <1>29, <1>30, <1>31, <1>32, <1>33, <1>34, <1>35
  DEF Next, Main, Recycler, Thread, task_begin, task_recycle, task_do, task_recycle_end, Threads,
      Recycle

\* tinatest exits when both threads are done.
LEMMA ExitAfterKept ==
  ASSUME ExitAfter, [Next]_vars
  PROVE  ExitAfter'
<1> USE TinaAssumption DEF ExitAfter, At
<1>1. ASSUME NEW h \in Threads, KillLimits(h) PROVE ExitAfter'
  BY <1>1 DEF KillLimits, others
<1>2. ASSUME NEW h \in Threads, task_clean_reboot(h) PROVE ExitAfter'
  BY <1>2 DEF task_clean_reboot, others
<1>3. ASSUME NEW h \in Threads, CountEnd(h) PROVE ExitAfter'
  BY <1>3 DEF CountEnd, others
<1>4. ASSUME NEW h \in Threads, TELL_PARENT(h) PROVE ExitAfter'
  BY <1>4 DEF TELL_PARENT, others
<1>5. ASSUME NEW h \in Threads, LockTask(h) PROVE ExitAfter'
  BY <1>5 DEF LockTask
<1>6. ASSUME NEW h \in Threads, task_init_reboot_mode(h) PROVE ExitAfter'
  BY <1>6 DEF task_init_reboot_mode
<1>7. ASSUME NEW h \in Threads, task_create_reboot_status(h) PROVE ExitAfter'
  BY <1>7 DEF task_create_reboot_status
<1>8. ASSUME NEW h \in Threads, LastTimes(h) PROVE ExitAfter'
  BY <1>8 DEF LastTimes, others
<1>9. ASSUME NEW h \in Threads, LastSub(h) PROVE ExitAfter'
  BY <1>9 DEF LastSub
<1>10. ASSUME NEW h \in Threads, DoLimits(h) PROVE ExitAfter'
  BY <1>10 DEF DoLimits
<1>11. ASSUME NEW h \in Threads, ForkTestcase(h) PROVE ExitAfter'
  BY <1>11 DEF ForkTestcase
<1>12. ASSUME NEW h \in Threads, RecordPid(h) PROVE ExitAfter'
  BY <1>12 DEF RecordPid
<1>13. ASSUME NEW h \in Threads, UnlockTask(h) PROVE ExitAfter'
  BY <1>13 DEF UnlockTask
<1>14. CASE ListTop
  BY <1>14 DEF ListTop, others
<1>15. CASE WAIT_CHILD
  BY <1>15 DEF WAIT_CHILD, others
<1>16. CASE BeginTask
  BY <1>16 DEF BeginTask
<1>17. CASE TaskStarted
  BY <1>17 DEF TaskStarted, others
<1>18. CASE TaskFailed
  BY <1>18 DEF TaskFailed
<1>19. CASE WaitAlone
  BY <1>19 DEF WaitAlone
<1>20. CASE task_quit_clean
  BY <1>20 DEF task_quit_clean, At, sched, Recycle
<1>21. CASE RecycleTop
  BY <1>21 DEF RecycleTop, others
<1>22. CASE wait4
  <2>1. UNCHANGED <<tool>> /\ \E p \in {"match", "top"} : pc' = [pc EXCEPT ![Recycle] = p]
    BY <1>22 DEF wait4, Goto, At
  <2> QED
    BY <1>22, <2>1 DEF wait4
<1>23. CASE MatchLeader
  BY <1>23 DEF MatchLeader
<1>24. CASE task_recycle_once
  BY <1>24 DEF task_recycle_once
<1>25. CASE NoMatch
  BY <1>25 DEF NoMatch
<1>26. CASE task_check_end
  BY <1>26 DEF task_check_end, others
<1>27. CASE Again
  BY <1>27 DEF Again, At
<1>28. ASSUME NEW t \in Tasks, OnceLimit(t) PROVE ExitAfter'
  BY <1>28 DEF OnceLimit
<1>29. ASSUME NEW t \in Tasks, WholeLimit(t) PROVE ExitAfter'
  BY <1>29 DEF WholeLimit
<1>30. ASSUME NEW t \in Tasks, NEW k \in Slots, Exit(t, k) PROVE ExitAfter'
  BY <1>30 DEF Exit
<1>31. CASE task_signal_quit
  BY <1>31 DEF task_signal_quit
<1>32. CASE PowerOff
  BY <1>32 DEF PowerOff
<1>33. CASE task_recover_after_reboot
  BY <1>33 DEF task_recover_after_reboot
<1>34. CASE Stopped \/ UNCHANGED vars
  BY <1>34 DEF Stopped, vars
<1>35. CASE task_do_crash
  BY <1>35 DEF task_do_crash
<1> QED
  BY <1>1, <1>2, <1>3, <1>4, <1>5, <1>6, <1>7, <1>8, <1>9, <1>10, <1>11, <1>12, <1>13, <1>14,
     <1>15, <1>16, <1>17, <1>18, <1>19, <1>20, <1>21, <1>22, <1>23, <1>24, <1>25, <1>26, <1>27,
     <1>28, <1>29, <1>30, <1>31, <1>32, <1>33, <1>34, <1>35
  DEF Next, Main, Recycler, Thread, task_begin, task_recycle, task_do, task_recycle_end, Threads,
      Recycle

\* Where tinatest does not run nothing but a boot happens.
LEMMA Halted ==
  ASSUME tool # "run", ~task_recover_after_reboot, [Next]_vars
  PROVE  UNCHANGED vars
<1> USE TinaAssumption DEF At
<1>1. ASSUME NEW h \in Threads, KillLimits(h) PROVE UNCHANGED vars
  BY <1>1 DEF KillLimits
<1>2. ASSUME NEW h \in Threads, task_clean_reboot(h) PROVE UNCHANGED vars
  BY <1>2 DEF task_clean_reboot
<1>3. ASSUME NEW h \in Threads, CountEnd(h) PROVE UNCHANGED vars
  BY <1>3 DEF CountEnd
<1>4. ASSUME NEW h \in Threads, TELL_PARENT(h) PROVE UNCHANGED vars
  BY <1>4 DEF TELL_PARENT
<1>5. ASSUME NEW h \in Threads, LockTask(h) PROVE UNCHANGED vars
  BY <1>5 DEF LockTask
<1>6. ASSUME NEW h \in Threads, task_init_reboot_mode(h) PROVE UNCHANGED vars
  BY <1>6 DEF task_init_reboot_mode
<1>7. ASSUME NEW h \in Threads, task_create_reboot_status(h) PROVE UNCHANGED vars
  BY <1>7 DEF task_create_reboot_status
<1>8. ASSUME NEW h \in Threads, LastTimes(h) PROVE UNCHANGED vars
  BY <1>8 DEF LastTimes
<1>9. ASSUME NEW h \in Threads, LastSub(h) PROVE UNCHANGED vars
  BY <1>9 DEF LastSub
<1>10. ASSUME NEW h \in Threads, DoLimits(h) PROVE UNCHANGED vars
  BY <1>10 DEF DoLimits
<1>11. ASSUME NEW h \in Threads, ForkTestcase(h) PROVE UNCHANGED vars
  BY <1>11 DEF ForkTestcase
<1>12. ASSUME NEW h \in Threads, RecordPid(h) PROVE UNCHANGED vars
  BY <1>12 DEF RecordPid
<1>13. ASSUME NEW h \in Threads, UnlockTask(h) PROVE UNCHANGED vars
  BY <1>13 DEF UnlockTask
<1>14. CASE ListTop
  BY <1>14 DEF ListTop
<1>15. CASE WAIT_CHILD
  BY <1>15 DEF WAIT_CHILD
<1>16. CASE BeginTask
  BY <1>16 DEF BeginTask
<1>17. CASE TaskStarted
  BY <1>17 DEF TaskStarted
<1>18. CASE TaskFailed
  BY <1>18 DEF TaskFailed
<1>19. CASE WaitAlone
  BY <1>19 DEF WaitAlone
<1>20. CASE task_quit_clean
  BY <1>20 DEF task_quit_clean
<1>21. CASE RecycleTop
  BY <1>21 DEF RecycleTop
<1>22. CASE wait4
  BY <1>22 DEF wait4
<1>23. CASE MatchLeader
  BY <1>23 DEF MatchLeader
<1>24. CASE task_recycle_once
  BY <1>24 DEF task_recycle_once
<1>25. CASE NoMatch
  BY <1>25 DEF NoMatch
<1>26. CASE task_check_end
  BY <1>26 DEF task_check_end
<1>27. CASE Again
  BY <1>27 DEF Again
<1>28. ASSUME NEW t \in Tasks, OnceLimit(t) PROVE UNCHANGED vars
  BY <1>28 DEF OnceLimit
<1>29. ASSUME NEW t \in Tasks, WholeLimit(t) PROVE UNCHANGED vars
  BY <1>29 DEF WholeLimit
<1>30. ASSUME NEW t \in Tasks, NEW k \in Slots, Exit(t, k) PROVE UNCHANGED vars
  BY <1>30 DEF Exit
<1>31. CASE task_signal_quit
  BY <1>31 DEF task_signal_quit
<1>32. CASE PowerOff
  BY <1>32 DEF PowerOff
<1>33. CASE task_recover_after_reboot
  BY <1>33
<1>34. CASE Stopped \/ UNCHANGED vars
  BY <1>34 DEF Stopped
<1>35. CASE task_do_crash
  BY <1>35 DEF task_do_crash
<1> QED
  BY <1>1, <1>2, <1>3, <1>4, <1>5, <1>6, <1>7, <1>8, <1>9, <1>10, <1>11, <1>12, <1>13, <1>14,
     <1>15, <1>16, <1>17, <1>18, <1>19, <1>20, <1>21, <1>22, <1>23, <1>24, <1>25, <1>26, <1>27,
     <1>28, <1>29, <1>30, <1>31, <1>32, <1>33, <1>34, <1>35
  DEF Next, Main, Recycler, Thread, task_begin, task_recycle, task_do, task_recycle_end, Threads,
      Recycle

\* Where nothing can be carried over a reboot, nothing is.
LEMMA QuietKept ==
  ASSUME TaskTypes, Quiet, TaskTypes', Rebooted', [Next]_vars
  PROVE  Quiet'
<1> SUFFICES ASSUME NoReboot PROVE ~reboot_mode' /\ (fboot' = None \/ tool' # "off")
  BY DEF Quiet, NoReboot
<1>1. ~reboot_mode /\ (fboot = None \/ tool # "off")
  BY DEF Quiet
<1>2. ~task_recover_after_reboot
  BY <1>1 DEF task_recover_after_reboot
<1>3. ~reboot_mode'
  BY <1>1, <1>2, ModeKept
<1>4. CASE \A t \in Tasks : ~Env[t].may_reboot
  BY <1>3, <1>4 DEF TaskTypes, Rebooted
<1>5. CASE MaxCuts = 0 /\ \A t \in Tasks : "reboot" \notin Env[t].does
  <2>1. ~PowerOff
    BY <1>5 DEF PowerOff, TaskTypes
  <2> QED
    BY <1>1, <1>3, <2>1, OffStays
<1> QED
  BY <1>4, <1>5 DEF NoReboot

\* The recycle thread leaves when all have ended, or tinatest has crashed.
LEMMA LeavesKept ==
  ASSUME RunType, WakeType, PlaceTypes, TaskTypes, Meet, Shape, HandRuns, FromTheFirst, AloneLive,
         Slow, Quiet, Counted, LeavesLast, [Next]_vars
  PROVE  LeavesLast'
<1> SUFFICES ASSUME NotOnly, pc'[Recycle] = "exit" PROVE tool' = "crashed" \/ Over' = Tasks
  BY DEF LeavesLast, NotOnly
<1>1. ~task_recover_after_reboot
  BY DEF task_recover_after_reboot, AtStart, Threads, Recycle
<1>2. Over \subseteq Over' /\ Over' \subseteq Tasks
  <2>1. Move
    BY <1>1, Moves
  <2> QED
    BY <2>1 DEF Move, Rests, Begins, Passes, Ends, Drops, Over
<1>3. CASE RecycleTop
  <2>1. end_cnt = N
    BY <1>3 DEF RecycleTop, Goto, AllEnded, RunType, Threads, Recycle
  <2>2. Over \in SUBSET Tasks /\ Cardinality(Over) <= Cardinality(Tasks)
    BY SetsFinite, FS_Subset
  <2>3. Cardinality(Over) = Cardinality(Tasks)
    BY <2>1, <2>2, SetsFinite, TinaAssumption DEF Counted
  <2>4. Over = Tasks
    BY <2>2, <2>3, SetsFinite, FS_Subset
  <2> QED
    BY <1>2, <2>4
<1>4. CASE Again
  <2>1. Bad(tsk, got[3]) /\ Env[tsk].exit_tinatest_when_fail
    BY <1>4 DEF Again, Goto, RunType, Threads, Recycle
  <2>2. Tasks # {tsk}
    <3> SUFFICES ASSUME Tasks = {tsk} PROVE FALSE
      OBVIOUS
    <3>1. 1 \in Tasks /\ N \in Tasks
      BY TinaAssumption DEF Tasks
    <3>2. tsk = 1 /\ N = 1
      BY <3>1
    <3> QED
      BY <2>1, <3>2 DEF NotOnly
  <2> QED
    BY <1>4, <2>1, <2>2 DEF Again
<1>5. CASE ~RecycleTop /\ ~Again
  <2>1. tool = "crashed" \/ Over = Tasks
    BY <1>5, ExitStays DEF LeavesLast
  <2>2. CASE tool = "crashed"
    BY <1>1, <2>2, Halted DEF vars
  <2>3. CASE Over = Tasks
    BY <1>2, <2>3
  <2> QED
    BY <2>1, <2>2, <2>3
<1> QED
  BY <1>3, <1>4, <1>5



-----------------------------------------------------------------------------
(* The invariant *)

\* Init: nothing has begun.
LEMMA CountInit == Init => CountInv
<1> SUFFICES ASSUME Init PROVE CountInv
  OBVIOUS
<1>1. /\ pc["main"] = "list" /\ pc[Recycle] = "top" /\ cur = 1 /\ tool = "run"
      /\ reboot_mode = FALSE /\ fboot = None /\ reboot_keypath = None /\ ttquit = FALSE
      /\ running_cnt = 0 /\ end_cnt = 0
  BY DEF Init, AtStart, Threads, Recycle
<1>2. /\ \A t \in Tasks : status[t] = "WAIT" /\ run_times[t] = 0 /\ quit[t] = FALSE
      /\ \A t \in Tasks, k \in Slots : proc[t][k] = "none" /\ pid[t][k] = "none"
  BY DEF Init, Every, EveryRun
<1>3. AllTypes
  BY TypesInit
<1>4. 1 \in Tasks /\ \A t \in Tasks : ~(t < 1) /\ None \notin Tasks
  BY TinaAssumption DEF Tasks, None
<1>5. Shape
  BY <1>1, <1>2, <1>4 DEF Shape, Doing, Begun, GivenUp
<1>6. FromTheFirst
  BY <1>1, <1>2 DEF FromTheFirst, GivenUp
<1>7. NoneRecorded /\ HandRuns /\ NeverQuits
  BY <1>1, <1>2 DEF NoneRecorded, GivenUp, HandRuns, Doing, Ending, NeverQuits
<1>8. NotForked /\ DeathOf /\ OneSet /\ AliveKnown
  BY <1>1, <1>2 DEF NotForked, DeathOf, OneSet, AliveKnown
<1>9. Live = {} /\ Over = {}
  BY <1>1, <1>2 DEF Live, Over, IsLive
<1>10. AloneLive /\ Counted
  <2>1. Cardinality(Live) = 0 /\ Cardinality(Over) = 0
    BY <1>9, FS_EmptySet
  <2>2. InHandCount = 0
    BY <1>1 DEF InHandCount, Begun, Doing
  <2> QED
    BY <1>1, <1>9, <2>1, <2>2 DEF AloneLive, Counted
<1>11. Rebooted /\ Quiet
  BY <1>1 DEF Rebooted, Quiet, GivenUp
<1>12. FilesReady
  BY <1>1 DEF FilesReady, IsReady, Threads, Recycle
<1>13. FilesCurrent
  BY <1>2 DEF FilesCurrent
<1>14. Slow /\ LeavesLast /\ ExitAfter
  BY <1>1 DEF Slow, Held, LeavesLast, ExitAfter
<1> QED
  BY <1>3, <1>5, <1>6, <1>7, <1>8, <1>10, <1>11, <1>12, <1>13, <1>14 DEF CountInv

\* Where the two threads meet.
LEMMA MeetHolds == RunInv /\ CountInv => Meet
  BY HandsApart DEF CountInv, AllTypes, Meet

\* The invariant is kept, part by part.
LEMMA CountStep ==
  ASSUME Steady, RunInv, WakeType, CountInv, [Next]_vars
  PROVE  CountInv'
<1>1. /\ PlaceTypes /\ FlagTypes /\ TaskTypes /\ ProcTypes /\ Shape /\ FromTheFirst /\ NoneRecorded
      /\ HandRuns /\ NeverQuits /\ NotForked /\ DeathOf /\ OneSet /\ AliveKnown /\ AloneLive
      /\ Rebooted /\ FilesReady /\ FilesCurrent /\ Slow /\ Quiet /\ Counted /\ LeavesLast /\ ExitAfter
  BY DEF CountInv, AllTypes
<1>2. Meet /\ RunType
  BY MeetHolds DEF RunInv
<1>3. PlaceTypes' /\ FlagTypes' /\ TaskTypes' /\ ProcTypes'
  BY <1>1, PlacesKept, FlagsKept, TaskTypesKept, ProcTypesKept
<1>4. Shape'
  BY <1>1, <1>2, ShapeKept
<1>5. FromTheFirst'
  BY <1>1, <1>2, FirstKept
<1>6. NoneRecorded'
  BY <1>1, <1>2, NoneKept
<1>7. HandRuns'
  BY <1>1, <1>2, HandKept
<1>8. NeverQuits'
  BY <1>1, <1>2, QuitKept
<1>9. NotForked' /\ DeathOf' /\ OneSet' /\ AliveKnown'
  BY <1>1, <1>2, ProcsKept
<1>10. AloneLive'
  BY <1>1, <1>2, AloneKept
<1>11. Rebooted'
  BY <1>1, <1>2, RebootedKept
<1>12. FilesReady'
  BY <1>1, <1>2, ReadyKept
<1>13. FilesCurrent'
  BY <1>1, <1>2, CurrentKept
<1>14. Slow'
  BY <1>1, <1>2, SlowKept
<1>15. Quiet'
  BY <1>1, <1>3, <1>11, QuietKept
<1>16. Counted'
  BY <1>1, <1>2, CountedKept
<1>17. LeavesLast'
  BY <1>1, <1>2, LeavesKept
<1>18. ExitAfter'
  BY <1>1, ExitAfterKept
<1> QED
  BY <1>3, <1>4, <1>5, <1>6, <1>7, <1>8, <1>9, <1>10, <1>11, <1>12, <1>13, <1>14, <1>15, <1>16,
     <1>17, <1>18
  DEF CountInv, AllTypes

\* The invariant holds in every reachable state.
LEMMA CountInvariant == Steady => (Spec => []CountInv)
<1> SUFFICES ASSUME Steady PROVE Spec => []CountInv
  OBVIOUS
<1>1. RunInv /\ WakeInv /\ CountInv /\ [Next]_vars => CountInv'
  BY CountStep DEF WakeInv
<1> QED
  BY CountInit, RunInvariant, WakeInvariant, <1>1, PTL DEF Spec

-----------------------------------------------------------------------------
(* The theorems *)

\* What executes is counted as running, or in the hands of the main thread.
LEMMA ExecutingLive == CountInv => Executing \subseteq Live
<1> SUFFICES ASSUME CountInv, NEW t \in Executing PROVE t \in Live
  OBVIOUS
<1>1. PICK k \in Slots : t \in Tasks /\ proc[t][k] = "alive"
  BY DEF Executing
<1>2. IsKnown(t, k)
  BY <1>1 DEF CountInv, AliveKnown
<1> QED
  BY <1>1, <1>2, KnownLive

\* For every list in which no test case with parallel runs is given up while they are
\* being forked, and any run_cnt_up_to: no more than run_cnt_up_to test cases execute,
\* whatever calls fail and wherever the power is cut.
THEOREM NeverTooMany == Steady => (Spec => []AtMostUpTo)
<1> SUFFICES ASSUME Steady PROVE Spec => []AtMostUpTo
  OBVIOUS
<1>1. ASSUME RunInv, WakeInv, CountInv PROVE AtMostUpTo
  <2>1. /\ Executing \subseteq Live /\ IsFiniteSet(Live) /\ Cardinality(Live) \in Nat
        /\ running_cnt \in Int /\ running_cnt + InHandCount >= Cardinality(Live)
        /\ IsFiniteSet(Executing) /\ Cardinality(Executing) \in Nat
    <3>1. Executing \in SUBSET Live /\ IsFiniteSet(Live) /\ Cardinality(Live) \in Nat
      BY <1>1, ExecutingLive, SetsFinite
    <3>2. IsFiniteSet(Executing)
      BY <3>1, FS_Subset
    <3>3. Cardinality(Executing) \in Nat
      BY <3>2, FS_CardinalityType
    <3>4. running_cnt \in Int /\ running_cnt + InHandCount >= Cardinality(Live)
      BY <1>1 DEF WakeInv, WakeType, CountInv, Counted
    <3> QED
      BY <3>1, <3>2, <3>3, <3>4
  <2>2. CASE pc["main"] # "failed"
    <3>1. running_cnt + InHandCount <= UpTo
      <4>1. running_cnt <= UpTo /\ (pc["main"] \in Starting => running_cnt < UpTo) /\ UpTo \in Nat
        BY <1>1, TinaAssumption DEF WakeInv
      <4>2. pc["main"] \in Begun => pc["main"] \in Starting
        BY <2>2 DEF Begun, Doing, Starting
      <4> QED
        BY <2>1, <4>1, <4>2 DEF InHandCount
    <3>2. Cardinality(Executing) <= Cardinality(Live)
      BY <2>1, FS_Subset
    <3>3. InHandCount \in Int /\ UpTo \in Int
      BY TinaAssumption DEF InHandCount
    <3> QED
      BY <2>1, <3>1, <3>2, <3>3 DEF AtMostUpTo
  <2>3. CASE pc["main"] = "failed"
    <3>1. cur \in Tasks /\ cur \in Live
      <4>1. cur \in Tasks /\ status[cur] = "RUN" /\ GivenUp
        BY <1>1, <2>3 DEF RunInv, RunType, CountInv, Shape, GivenUp
      <4>2. ~(pc[Recycle] = "tell" /\ tsk = cur)
        BY <1>1, <4>1, MeetHolds DEF Meet, Hands, Ending
      <4> QED
        BY <4>1, <4>2 DEF Live, IsLive
    <3>2. cur \notin Executing
      <4>1. \A k \in Slots : ~IsKnown(cur, k)
        BY <2>3 DEF IsKnown, GivenUp
      <4> QED
        BY <1>1, <3>1, <4>1 DEF CountInv, AliveKnown, Executing
    <3>3. Executing \in SUBSET (Live \ {cur})
      BY <2>1, <3>2
    <3>4. IsFiniteSet(Live \ {cur}) /\ Cardinality(Live \ {cur}) = Cardinality(Live) - 1
      BY <2>1, <3>1, FS_RemoveElement
    <3>5. Cardinality(Executing) <= Cardinality(Live) - 1
      BY <3>3, <3>4, FS_Subset
    <3>6. InHandCount = 1 /\ running_cnt <= UpTo /\ UpTo \in Int
      BY <1>1, <2>3, TinaAssumption DEF InHandCount, Begun, WakeInv
    <3> QED
      BY <2>1, <3>5, <3>6 DEF AtMostUpTo
  <2> QED
    BY <2>2, <2>3
<1> QED
  BY CountInvariant, RunInvariant, WakeInvariant, <1>1, PTL

\* For the same lists: a test case that must run alone, because its configuration says so
\* or because it may reboot, executes alone.
THEOREM AloneMeansAlone == Steady => (Spec => []AloneIsAlone)
<1> SUFFICES ASSUME Steady PROVE Spec => []AloneIsAlone
  OBVIOUS
<1>1. ASSUME CountInv PROVE AloneIsAlone
  <2> SUFFICES ASSUME NEW t \in Executing, RunAlone(t) PROVE Executing = {t}
    BY DEF AloneIsAlone
  <2>1. Executing \subseteq Live
    BY <1>1, ExecutingLive
  <2>2. Live = {t}
    BY <1>1, <2>1 DEF CountInv, AloneLive
  <2> QED
    BY <2>1, <2>2
<1> QED
  BY CountInvariant, <1>1, PTL

\* For the same lists, test cases that reboot while their runs are made in parallel
\* included: wherever one that may reboot does so, the boot script names it, and the
\* status file its run or, of runs in parallel, the first of them.
THEOREM StatusFollows == Steady => (Spec => []StatusCurrent)
<1> SUFFICES ASSUME Steady PROVE Spec => []StatusCurrent
  OBVIOUS
<1>1. CountInv => StatusCurrent
  BY DEF CountInv, FilesCurrent, StatusCurrent
<1> QED
  BY CountInvariant, <1>1, PTL

\* When tinatest has exited the recycle thread has left, all tasks being over.
LEMMA ExitedOver ==
  ASSUME NotOnly, CountInv, tool = "exited"
  PROVE  Live = {} /\ \A t \in Tasks : status[t] = "END"
<1>1. pc["main"] = "join" /\ pc[Recycle] = "exit" /\ Over = Tasks
  BY DEF CountInv, ExitAfter, LeavesLast
<1>2. \A t \in Tasks : status[t] # "WAIT" /\ ~IsLive(t)
  BY <1>1 DEF Over
<1>3. status \in [Tasks -> {"WAIT", "RUN", "END"}]
  BY DEF CountInv, AllTypes, TaskTypes
<1> QED
  BY <1>1, <1>2, <1>3 DEF Live, IsLive

\* For the same lists, unless the only test case is one that ends tinatest when it fails:
\* tinatest exits only when every test case has ended, and leaves no process of one.
THEOREM ExitsDone == Steady /\ NotOnly => (Spec => []ExitsWhenDone)
<1> SUFFICES ASSUME Steady, NotOnly PROVE Spec => []ExitsWhenDone
  OBVIOUS
<1>1. CountInv => ExitsWhenDone
  BY ExecutingLive, ExitedOver DEF ExitsWhenDone
<1> QED
  BY CountInvariant, <1>1, PTL

\* The phase of a task is the set it is in.
LEMMA PhaseOf ==
  ASSUME CountInv, NEW t \in Tasks
  PROVE  Phase(t) = IF t \in Live THEN "run" ELSE IF t \in Over THEN "end" ELSE "wait"
<1>1. status[t] \in {"WAIT", "RUN", "END"}
  BY DEF CountInv, AllTypes, TaskTypes
<1>2. pc["main"] = "lastsub" /\ cur = t => status[t] = "END"
  BY DEF CountInv, Shape
<1>3. CASE status[t] = "WAIT"
  BY <1>2, <1>3 DEF Phase, IsLive, Live, Over
<1>4. CASE pc["main"] = "lastsub" /\ cur = t
  BY <1>2, <1>4 DEF Phase, IsLive, Live
<1>5. CASE status[t] = "END" /\ ~(pc["main"] = "lastsub" /\ cur = t)
  BY <1>5 DEF Phase, IsLive, Live, Over
<1>6. CASE status[t] = "RUN" /\ pc[Recycle] = "tell" /\ tsk = t
  <2>1. ~(pc["main"] = "lastsub" /\ cur = t)
    BY <1>2, <1>6
  <2> QED
    BY <1>6, <2>1 DEF Phase, IsLive, Live, Over
<1>7. CASE status[t] = "RUN" /\ ~(pc[Recycle] = "tell" /\ tsk = t)
  <2>1. ~(pc["main"] = "lastsub" /\ cur = t)
    BY <1>2, <1>7
  <2> QED
    BY <1>7, <2>1 DEF Phase, IsLive, Live
<1> QED
  BY <1>1, <1>3, <1>4, <1>5, <1>6, <1>7

\* The tasks that are over are those in the last phase of the plan.
LEMMA OverIsEnd == CountInv => Over = {t \in Tasks : Phase(t) = "end"}
<1> SUFFICES ASSUME CountInv PROVE Over = {t \in Tasks : Phase(t) = "end"}
  OBVIOUS
<1>1. \A t \in Tasks : t \in Over <=> Phase(t) = "end"
  BY PhaseOf, Disjoint
<1> QED
  BY <1>1 DEF Over

\* For the same lists, when no child dies before its start is counted or none can be
\* carried over a reboot: end_cnt, by which the recycle thread leaves, is exact.
THEOREM EndsAreCounted == Steady /\ (SlowChild \/ NoReboot) => (Spec => []EndsCounted)
<1> SUFFICES ASSUME Steady, SlowChild \/ NoReboot PROVE Spec => []EndsCounted
  OBVIOUS
<1>1. CountInv => EndsCounted
  BY OverIsEnd DEF CountInv, Counted, Exact, EndsCounted
<1> QED
  BY CountInvariant, <1>1, PTL

-----------------------------------------------------------------------------
(* The plan *)

Phases == [t \in Tasks |-> Phase(t)]

PhasesAre == \A t \in Tasks :
  Phases[t] = IF t \in Live THEN "run" ELSE IF t \in Over THEN "end" ELSE "wait"

\* The phases, from the two sets.
LEMMA PhasesOf == CountInv => PhasesAre
  BY PhaseOf DEF PhasesAre, Phases

\* When the main thread begins a task, there is a place for it, and nothing that runs
\* keeps it from beginning.
LEMMA MayBeginNow ==
  ASSUME RunInv, WakeInv, CountInv, BeginTask
  PROVE  /\ Cardinality(Live) < UpTo
         /\ RunAlone(cur) => Live = {}
         /\ \A t \in Live : ~RunAlone(t)
<1>1. pc["main"] = "alone" /\ cur \in Tasks /\ MayBegin
  BY DEF BeginTask, At, RunInv, RunType
<1>2. /\ running_cnt \in Int /\ running_cnt < UpTo /\ InHandCount = 0
      /\ running_cnt >= Cardinality(Live) /\ Cardinality(Live) \in Nat
  <2>1. running_cnt \in Int /\ running_cnt < UpTo
    BY <1>1 DEF WakeInv, WakeType, Starting
  <2>2. InHandCount = 0
    BY <1>1 DEF InHandCount, Begun, Doing
  <2>3. running_cnt + InHandCount >= Cardinality(Live)
    BY DEF CountInv, Counted
  <2> QED
    BY <2>1, <2>2, <2>3, SetsFinite
<1>3. RunAlone(cur) => Live = {}
  <2>1. RunAlone(cur) => Cardinality(Live) = 0
    BY <1>1, <1>2 DEF MayBegin
  <2> QED
    BY <2>1, SetsFinite, FS_EmptySet
<1>4. \A t \in Live : ~RunAlone(t)
  BY <1>1, TinaAssumption DEF CountInv, AloneLive, Begun, Doing, Tasks
<1>5. Cardinality(Live) < UpTo
  BY <1>2, TinaAssumption
<1> QED
  BY <1>3, <1>4, <1>5

\* TestPlan counts with the same Cardinality.
LEMMA SameCardinality == \A S : Plan!Cardinality(S) = Cardinality(S)
  BY Zenon DEF Cardinality, Plan!Cardinality

\* A move is a step of the plan.
LEMMA MovesPlanned ==
  ASSUME RunInv, WakeInv, CountInv, CountInv', Move, ~Passes
  PROVE  [Plan!PlanNext]_Phases
<1>1. /\ \A t \in Tasks : Phases[t] = IF t \in Live THEN "run" ELSE IF t \in Over THEN "end" ELSE "wait"
      /\ \A t \in Tasks : Phases'[t] = IF t \in Live' THEN "run" ELSE IF t \in Over' THEN "end" ELSE "wait"
  <2>1. PhasesAre
    BY PhasesOf
  <2>2. PhasesAre'
    BY PhasesOf, PTL
  <2> QED
    BY <2>1, <2>2 DEF PhasesAre
<1>2. /\ DOMAIN Phases = Tasks /\ DOMAIN Phases' = Tasks
      /\ Phases = [t \in Tasks |-> Phases[t]] /\ Phases' = [t \in Tasks |-> Phases'[t]]
  BY DEF Phases
<1>3. Live \subseteq Tasks /\ Over \subseteq Tasks /\ Live \cap Over = {}
  BY Disjoint DEF Live, Over
<1>4. CASE Rests
  <2>1. \A t \in Tasks : Phases'[t] = Phases[t]
    BY <1>1, <1>4 DEF Rests
  <2>2. Phases' = Phases
    BY <1>2, <2>1
  <2> QED
    BY <2>2
<1>5. CASE Begins
  <2>1. PICK t \in Tasks : t = cur
    BY <1>5 DEF Begins
  <2>2. /\ BeginTask /\ t \notin Live /\ Live' = Live \cup {t} /\ Over' = Over
    BY <1>5, <2>1 DEF Begins
  <2>3. pc["main"] = "alone"
    BY <2>2 DEF BeginTask, At
  <2>4. Shape
    BY DEF CountInv
  <2>5. status[t] = "WAIT" /\ \A s \in Tasks : s < t => status[s] # "WAIT"
    BY <2>1, <2>3, <2>4 DEF Shape
  <2>6. Phases[t] = "wait" /\ \A s \in Tasks : s < t => Phases[s] # "wait"
    <3>1. t \notin Over
      BY <2>5 DEF Over
    <3>2. \A s \in Tasks : status[s] # "WAIT" => s \in Live \cup Over
      BY DEF Live, Over
    <3> QED
      BY <1>1, <2>2, <2>5, <3>1, <3>2
  <2>7. {s \in Tasks : Phases[s] = "run"} = Live
    BY <1>1, <1>3
  <2>8. Phases' = [Phases EXCEPT ![t] = "run"]
    <3>1. \A s \in Tasks : Phases'[s] = IF s = t THEN "run" ELSE Phases[s]
      BY <1>1, <2>2
    <3> QED
      BY <1>2, <3>1
  <2>9. /\ Cardinality(Live) < UpTo
        /\ RunAlone(t) => Live = {}
        /\ Live \cap {s \in Tasks : RunAlone(s)} = {}
    BY <2>1, <2>2, MayBeginNow
  <2>10. Plan!Begin(t)
    <3>1. Plan!Cases = Tasks
      BY DEF Plan!Cases, Tasks
    <3>2. Plan!Turn(t)
      BY <2>6, <3>1 DEF Plan!Turn, Phases
    <3>3. Plan!InPhase("run") = Live
      BY <2>7, <3>1 DEF Plan!InPhase, Phases
    <3>4. [s \in Tasks |-> Phase(s)]' = [[s \in Tasks |-> Phase(s)] EXCEPT ![t] = "run"]
      BY <2>8 DEF Phases
    <3>5. Plan!Cardinality(Plan!InPhase("run")) < UpTo
      BY <2>9, <3>3, SameCardinality
    <3>6. t \in {s \in Tasks : RunAlone(s)} => Plan!InPhase("run") = {}
      BY <2>9, <3>3
    <3>7. Plan!InPhase("run") \cap {s \in Tasks : RunAlone(s)} = {}
      BY <2>9, <3>3
    <3> HIDE DEF Plan!InPhase, Plan!Turn
    <3> QED
      BY <3>2, <3>4, <3>5, <3>6, <3>7, Zenon DEF Plan!Begin
  <2> QED
    BY <2>10 DEF Plan!PlanNext, Plan!Cases, Tasks
<1>6. ASSUME NEW t \in Tasks, Ends(t) \/ Drops(t) PROVE Plan!PlanNext
  <2>1. t \in Live /\ Live' = Live \ {t} /\ Over' = Over \cup {t}
    BY <1>6 DEF Ends, Drops
  <2>2. Phases[t] = "run"
    BY <1>1, <2>1
  <2>3. Phases' = [Phases EXCEPT ![t] = "end"]
    <3>1. \A s \in Tasks : Phases'[s] = IF s = t THEN "end" ELSE Phases[s]
      BY <1>1, <2>1
    <3> QED
      BY <1>2, <3>1
  <2>4. Plan!Finish(t)
    BY <2>2, <2>3 DEF Plan!Finish, Phases
  <2> QED
    BY <2>4 DEF Plan!PlanNext, Plan!Cases, Tasks
<1> QED
  BY <1>4, <1>5, <1>6 DEF Move

\* For the same lists, when none can be carried over a reboot: the two threads carry out
\* the plan.  The test cases begin in the order of the list, each with a place left for
\* it, alone if it must be, and each ends once; a failed call ends its test case and no
\* other.
THEOREM PlanFollowed == Steady /\ NoReboot => (Spec => PlanKept)
<1> SUFFICES ASSUME Steady, NoReboot PROVE Spec => PlanKept
  OBVIOUS
<1>1. Init => Plan!PlanInit
  <2> SUFFICES ASSUME Init PROVE Plan!PlanInit
    OBVIOUS
  <2>1. \A t \in Tasks : Phase(t) = "wait"
    BY DEF Init, Every, Phase
  <2> QED
    BY <2>1 DEF Plan!PlanInit, Plan!Cases, Tasks
<1>2. RunInv /\ WakeInv /\ CountInv /\ CountInv' /\ [Next]_vars => [Plan!PlanNext]_Phases
  <2> SUFFICES ASSUME RunInv, WakeInv, CountInv, CountInv', [Next]_vars PROVE [Plan!PlanNext]_Phases
    OBVIOUS
  <2>1. ~reboot_mode /\ (fboot = None \/ tool # "off")
    BY DEF CountInv, Quiet
  <2>2. ~task_recover_after_reboot
    BY <2>1 DEF task_recover_after_reboot
  <2>3. Move
    BY <2>2, MeetHolds, Moves DEF CountInv, AllTypes, RunInv, WakeInv
  <2>4. ~Passes
    BY <2>1 DEF Passes
  <2> QED
    BY <2>3, <2>4, MovesPlanned
<1> QED
  BY CountInvariant, RunInvariant, WakeInvariant, <1>1, <1>2, PTL DEF Spec, PlanKept, Plan!PlanSpec, Phases


-----------------------------------------------------------------------------
(* The files of a test case that reboots in every run *)

\* None of its processes dies while tinatest runs, and none comes into the hands of the
\* recycle thread.
IsUndying(t) ==
  /\ \A k \in Slots : proc[t][k] \in {"none", "alive"}
  /\ ~(pc[Recycle] = "match" /\ got[3] # "leader" /\ got[1] = t)
  /\ ~(pc[Recycle] \in Hands /\ tsk = t)

Undying == \A t \in Tasks : Env[t].may_reboot => IsUndying(t)

\* The group into which task_do forks it has its leader.
Led == pc["main"] \in {"fork", "record"} /\ Env[cur].may_reboot => leader[cur] = "alive"

\* The boot script is that of a test case that has not ended; it is removed first, the
\* status file next.
Scripted ==
  /\ fboot # None => status[fboot] # "END"
  /\ pc["main"] \in {"clean", "tell"} => fboot = None
  /\ sfile # None => fboot # None \/ pc["main"] = "clean"

CleanInv == AlwaysReboots /\ faults = 0 => Undying /\ Led /\ Scripted

\* IsUndying, when nothing dies and the recycle thread takes up nothing.
LEMMA UndyingStays ==
  ASSUME NEW u \in Tasks, IsUndying(u), proc'[u] = proc[u],
         pc'[Recycle] = "match" => pc[Recycle] = "match" /\ got' = got,
         pc'[Recycle] \in Hands => pc[Recycle] \in Hands /\ tsk' = tsk
  PROVE  IsUndying(u)'
  BY DEF IsUndying

\* No process of such a test case dies.
LEMMA UndyingKept ==
  ASSUME RunType, TaskTypes, ProcTypes, NotForked, AlwaysReboots, faults' = 0, faults = 0, Undying, Led,
         [Next]_vars
  PROVE  Undying'
<1> USE TinaAssumption DEF RunType, Threads, Recycle
<1> SUFFICES ASSUME NEW u \in Tasks, Env[u].may_reboot PROVE IsUndying(u)'
  BY DEF Undying
<1>a. IsUndying(u)
  BY DEF Undying
<1>1. ASSUME NEW h \in Threads, KillLimits(h) PROVE IsUndying(u)'
  <2>1. /\ UNCHANGED <<got, tsk>> /\ pc[h] = "kill" /\ T(h) \in Tasks
        /\ \E p \in {"clean", "sub"} : pc' = [pc EXCEPT ![h] = p]
        /\ UNCHANGED proc \/ kill(T(h), "fail")
    BY <1>1 DEF KillLimits, others, local, At, Goto, T
  <2>2. proc'[u] = proc[u]
    <3>1. CASE u # T(h) \/ UNCHANGED proc
      BY <2>1, <3>1, KillOthers
    <3>2. CASE u = T(h) /\ kill(u, "fail")
      <4>1. h = "main"
        BY <1>a, <2>1, <3>2 DEF IsUndying, Hands, Ending, T
      <4>2. \A k \in Slots : proc[u][k] = "none"
        BY <2>1, <3>2, <4>1 DEF NotForked, Late, T
      <4>3. proc'[u] = [k \in Slots |-> proc[u][k]]
        BY <3>2, <4>2 DEF kill, Struck, ProcTypes
      <4> QED
        BY <4>3 DEF ProcTypes
    <3> QED
      BY <2>1, <3>1, <3>2
  <2> QED
    BY <1>a, <2>1, <2>2, UndyingStays DEF Hands, Doing, Ending
<1>2. ASSUME NEW h \in Threads, task_clean_reboot(h) PROVE IsUndying(u)'
  <2>1. /\ UNCHANGED <<proc, got, tsk>>
        /\ pc[h] = "clean"
        /\ pc' = [pc EXCEPT ![h] = "tell"]
    BY <1>2 DEF task_clean_reboot, kernel, others, local, At, Goto
  <2> QED
    BY <2>1, <1>a, UndyingStays DEF Hands, Doing, Ending
<1>3. ASSUME NEW h \in Threads, CountEnd(h) PROVE IsUndying(u)'
  <2>1. /\ UNCHANGED <<proc, got, tsk>>
        /\ pc[h] = "sub"
        /\ pc' = [pc EXCEPT ![h] = "tell"]
    BY <1>3 DEF CountEnd, kernel, others, local, At, Goto
  <2> QED
    BY <2>1, <1>a, UndyingStays DEF Hands, Doing, Ending
<1>4. ASSUME NEW h \in Threads, TELL_PARENT(h) PROVE IsUndying(u)'
  <2>1. /\ UNCHANGED <<proc, got, tsk>>
        /\ pc[h] = "tell"
        /\ \E p \in {"lastsub", "again"} : pc' = [pc EXCEPT ![h] = p]
    BY <1>4 DEF TELL_PARENT, kernel, others, local, At, Goto
  <2> QED
    BY <2>1, <1>a, UndyingStays DEF Hands, Doing, Ending
<1>5. ASSUME NEW h \in Threads, LockTask(h) PROVE IsUndying(u)'
  <2>1. /\ UNCHANGED <<proc, got, tsk>>
        /\ pc[h] = "lock"
        /\ \E p \in {"reboot", "last"} : pc' = [pc EXCEPT ![h] = p]
    BY <1>5 DEF LockTask, rest, kernel, At, Goto
  <2> QED
    BY <2>1, <1>a, UndyingStays DEF Hands, Doing, Ending
<1>6. ASSUME NEW h \in Threads, task_init_reboot_mode(h) PROVE IsUndying(u)'
  <2>1. /\ UNCHANGED <<proc, got, tsk>>
        /\ pc[h] = "reboot"
        /\ \E p \in {"status", "unlock"} : pc' = [pc EXCEPT ![h] = p]
    BY <1>6 DEF task_init_reboot_mode, kernel, Leave, At, Goto
  <2> QED
    BY <2>1, <1>a, UndyingStays DEF Hands, Doing, Ending
<1>7. ASSUME NEW h \in Threads, task_create_reboot_status(h) PROVE IsUndying(u)'
  <2>1. /\ UNCHANGED <<proc, got, tsk>>
        /\ pc[h] \in {"status", "fill"}
        /\ \E p \in {"fill", "last", "unlock"} : pc' = [pc EXCEPT ![h] = p]
    BY <1>7 DEF task_create_reboot_status, kernel, Leave, At, Goto
  <2> QED
    BY <2>1, <1>a, UndyingStays DEF Hands, Doing, Ending
<1>8. ASSUME NEW h \in Threads, LastTimes(h) PROVE IsUndying(u)'
  <2>1. /\ UNCHANGED <<proc, got, tsk>>
        /\ pc[h] = "last"
        /\ \E p \in {"limits", "kill", "lastsub"} : pc' = [pc EXCEPT ![h] = p]
    BY <1>8 DEF LastTimes, others, local, rest, kernel, At, Goto
  <2> QED
    BY <2>1, <1>a, UndyingStays DEF Hands, Doing, Ending
<1>9. ASSUME NEW h \in Threads, LastSub(h) PROVE IsUndying(u)'
  <2>1. /\ UNCHANGED <<proc, got, tsk>>
        /\ pc[h] = "lastsub"
        /\ pc' = [pc EXCEPT ![h] = "unlock"]
    BY <1>9 DEF LastSub, Leave, At, Goto
  <2> QED
    BY <2>1, <1>a, UndyingStays DEF Hands, Doing, Ending
<1>10. ASSUME NEW h \in Threads, DoLimits(h) PROVE IsUndying(u)'
  <2>1. /\ UNCHANGED <<proc, got, tsk>>
        /\ pc[h] = "limits"
        /\ \E p \in {"fork", "unlock"} : pc' = [pc EXCEPT ![h] = p]
    BY <1>10 DEF DoLimits, Leave, At, Goto
  <2> QED
    BY <2>1, <1>a, UndyingStays DEF Hands, Doing, Ending
<1>11. ASSUME NEW h \in Threads, ForkTestcase(h) PROVE IsUndying(u)'
  <2>1. /\ UNCHANGED <<got, tsk>> /\ pc[h] = "fork" /\ T(h) \in Tasks
        /\ pc' = [pc EXCEPT ![h] = "record"]
        /\ proc' = [proc EXCEPT ![T(h)][run_times[T(h)]] = IF leader[T(h)] = "gone" THEN "fail" ELSE "alive"]
    <3>1. ~Fails
      BY DEF Fails, TaskTypes
    <3> QED
      BY <1>11, <3>1 DEF ForkTestcase, At, Goto, T
  <2>2. CASE T(h) = u
    <3>1. h = "main" /\ cur = u
      BY <1>a, <2>1, <2>2 DEF T, IsUndying, Hands, Doing
    <3>2. leader[u] = "alive"
      BY <2>1, <3>1 DEF Led
    <3>3. \A k \in Slots : proc'[u][k] \in {"none", "alive"}
      BY <1>a, <2>1, <2>2, <3>2 DEF ProcTypes, IsUndying
    <3> QED
      BY <1>a, <2>1, <3>1, <3>3 DEF IsUndying
  <2>3. CASE T(h) # u
    <3>1. proc'[u] = proc[u]
      BY <2>1, <2>3 DEF ProcTypes
    <3> QED
      BY <1>a, <2>1, <3>1, UndyingStays DEF Hands, Doing
  <2> QED
    BY <2>2, <2>3
<1>12. ASSUME NEW h \in Threads, RecordPid(h) PROVE IsUndying(u)'
  <2>1. /\ UNCHANGED <<proc, got, tsk>>
        /\ pc[h] = "record"
        /\ \E p \in {"fork", "unlock"} : pc' = [pc EXCEPT ![h] = p]
    BY <1>12 DEF RecordPid, kernel, Leave, At, Goto
  <2> QED
    BY <2>1, <1>a, UndyingStays DEF Hands, Doing, Ending
<1>13. ASSUME NEW h \in Threads, UnlockTask(h) PROVE IsUndying(u)'
  <2>1. /\ UNCHANGED <<proc, got, tsk>>
        /\ pc[h] = "unlock"
        /\ \E p \in {"again", "started", "failed"} : pc' = [pc EXCEPT ![h] = p]
    BY <1>13 DEF UnlockTask, rest, kernel, At, Goto
  <2> QED
    BY <2>1, <1>a, UndyingStays DEF Hands, Doing, Ending
<1>14. CASE ListTop
  <2>1. /\ UNCHANGED <<proc, got, tsk>>
        /\ pc["main"] = "list"
        /\ \E p \in {"join", "wait", "alone"} : pc' = [pc EXCEPT !["main"] = p]
    BY <1>14 DEF ListTop, others, local, rest, kernel, At, Goto
  <2> QED
    BY <2>1, <1>a, UndyingStays DEF Hands, Doing, Ending
<1>15. CASE WAIT_CHILD
  <2>1. /\ UNCHANGED <<proc, got, tsk>>
        /\ pc["main"] = "wait"
        /\ pc' = [pc EXCEPT !["main"] = "list"]
    BY <1>15 DEF WAIT_CHILD, kernel, others, local, At, Goto
  <2> QED
    BY <2>1, <1>a, UndyingStays DEF Hands, Doing, Ending
<1>16. CASE BeginTask
  <2>1. /\ UNCHANGED <<proc, got, tsk>>
        /\ pc["main"] = "alone"
        /\ \E p \in {"list", "lock"} : pc' = [pc EXCEPT !["main"] = p]
    BY <1>16 DEF BeginTask, kernel, NextTask, At, Goto
  <2> QED
    BY <2>1, <1>a, UndyingStays DEF Hands, Doing, Ending
<1>17. CASE TaskStarted
  <2>1. /\ UNCHANGED <<proc, got, tsk>>
        /\ pc["main"] = "started"
        /\ pc' = [pc EXCEPT !["main"] = "after"]
    BY <1>17 DEF TaskStarted, kernel, others, local, At, Goto
  <2> QED
    BY <2>1, <1>a, UndyingStays DEF Hands, Doing, Ending
<1>18. CASE TaskFailed
  <2>1. /\ UNCHANGED <<proc, got, tsk>>
        /\ pc["main"] = "failed"
        /\ pc' = [pc EXCEPT !["main"] = "list"]
    BY <1>18 DEF TaskFailed, kernel, NextTask, At, Goto
  <2> QED
    BY <2>1, <1>a, UndyingStays DEF Hands, Doing, Ending
<1>19. CASE WaitAlone
  <2>1. /\ UNCHANGED <<proc, got, tsk>>
        /\ pc["main"] = "after"
        /\ pc' = [pc EXCEPT !["main"] = "list"]
    BY <1>19 DEF WaitAlone, rest, kernel, NextTask, At, Goto
  <2> QED
    BY <2>1, <1>a, UndyingStays DEF Hands, Doing, Ending
<1>20. CASE task_quit_clean
  <2>1. /\ UNCHANGED <<proc, got, tsk, pc>>
        /\ pc["main"] = "join"
    BY <1>20 DEF task_quit_clean, sched, rest, kernel, At, Goto
  <2> QED
    BY <2>1, <1>a, UndyingStays DEF Hands, Doing, Ending
<1>21. CASE RecycleTop
  <2>1. /\ UNCHANGED <<proc, got, tsk>>
        /\ pc[Recycle] = "top"
        /\ \E p \in {"exit", "wait4"} : pc' = [pc EXCEPT ![Recycle] = p]
    BY <1>21 DEF RecycleTop, others, local, rest, kernel, At, Goto
  <2> QED
    BY <2>1, <1>a, UndyingStays DEF Hands, Doing, Ending
<1>22. CASE wait4
  <2>1. tsk' = tsk /\ \E p \in {"match", "top"} : pc' = [pc EXCEPT ![Recycle] = p]
    BY <1>22 DEF wait4, Goto
  <2>2. CASE proc' = proc
    <3>1. pc'[Recycle] = "match" => got'[3] = "leader"
      <4>1. \A t \in Tasks, k \in Slots : proc[t][k] \in Zombies => proc[t][k] # "gone"
        BY DEF Zombies
      <4> QED
        BY <1>22, <2>2, <4>1 DEF wait4, Goto, ProcTypes
    <3> QED
      BY <1>a, <2>1, <2>2, <3>1 DEF IsUndying, Hands, Doing, Ending
  <2>3. CASE proc' # proc
    <3>1. PICK t \in Tasks, k \in Slots :
            /\ proc[t][k] \in Zombies /\ got' = <<t, k, proc[t][k]>>
            /\ proc' = [proc EXCEPT ![t][k] = "gone"]
      BY <1>22, <2>3 DEF wait4, kernel
    <3>2. t # u
      BY <1>a, <3>1 DEF IsUndying, Zombies
    <3>3. proc'[u] = proc[u] /\ got'[1] = t
      BY <3>1, <3>2 DEF ProcTypes
    <3> QED
      BY <1>a, <2>1, <3>2, <3>3 DEF IsUndying, Hands, Doing, Ending
  <2> QED
    BY <2>2, <2>3
<1>23. CASE MatchLeader
  <2>1. /\ UNCHANGED <<proc, tsk>>
        /\ pc[Recycle] = "match"
        /\ pc' = [pc EXCEPT ![Recycle] = "top"]
    BY <1>23 DEF MatchLeader, kernel, local, At, Goto
  <2> QED
    BY <2>1, <1>a, UndyingStays DEF Hands, Doing, Ending
<1>24. CASE task_recycle_once
  <2>1. /\ got' = got /\ pc[Recycle] = "match" /\ got[3] # "leader" /\ tsk' = got[1]
        /\ pc' = [pc EXCEPT ![Recycle] = "check"]
        /\ UNCHANGED proc \/ kill(got[1], "fail")
    BY <1>24 DEF task_recycle_once, At, Goto
  <2>2. got[1] # u
    BY <1>a, <2>1 DEF IsUndying
  <2>3. proc'[u] = proc[u]
    BY <2>1, <2>2, KillOthers
  <2> QED
    BY <1>a, <2>1, <2>2, <2>3 DEF IsUndying
<1>25. CASE NoMatch
  <2>1. /\ UNCHANGED <<proc, tsk>>
        /\ pc[Recycle] = "match"
        /\ pc' = [pc EXCEPT ![Recycle] = "top"]
    BY <1>25 DEF NoMatch, kernel, local, At, Goto
  <2> QED
    BY <2>1, <1>a, UndyingStays DEF Hands, Doing, Ending
<1>26. CASE task_check_end
  <2>1. /\ UNCHANGED <<proc, got, tsk>>
        /\ pc[Recycle] = "check"
        /\ \E p \in {"kill", "again", "lock"} : pc' = [pc EXCEPT ![Recycle] = p]
    BY <1>26 DEF task_check_end, others, local, rest, kernel, At, Goto
  <2> QED
    BY <2>1, <1>a, UndyingStays DEF Hands, Doing, Ending
<1>27. CASE Again
  <2>1. /\ UNCHANGED <<proc, tsk>>
        /\ pc[Recycle] = "again"
        /\ \E p \in {"exit", "top"} : pc' = [pc EXCEPT ![Recycle] = p]
    BY <1>27 DEF Again, local, rest, kernel, At, Goto
  <2> QED
    BY <2>1, <1>a, UndyingStays DEF Hands, Doing, Ending
<1>28. ASSUME NEW t \in Tasks, OnceLimit(t) PROVE IsUndying(u)'
  <2>1. UNCHANGED <<pc, got, tsk>> /\ t # u /\ kill(t, "alarm")
    BY <1>28 DEF OnceLimit, sched, AlwaysReboots
  <2>2. proc'[u] = proc[u]
    BY <2>1, KillOthers
  <2> QED
    BY <1>a, <2>1, <2>2, UndyingStays
<1>29. ASSUME NEW t \in Tasks, WholeLimit(t) PROVE IsUndying(u)'
  <2>1. UNCHANGED <<pc, got, tsk>> /\ t # u /\ (UNCHANGED proc \/ kill(t, "alarm"))
    BY <1>29 DEF WholeLimit, sched, AlwaysReboots
  <2>2. proc'[u] = proc[u]
    BY <2>1, KillOthers
  <2> QED
    BY <1>a, <2>1, <2>2, UndyingStays
<1>30. ASSUME NEW t \in Tasks, NEW k \in Slots, Exit(t, k) PROVE IsUndying(u)'
  <2>1. UNCHANGED <<pc, got, tsk>> /\ \E how : proc' = [proc EXCEPT ![t][k] = how]
    BY <1>30 DEF Exit, sched
  <2>2. t # u
    BY <1>30 DEF Exit, AlwaysReboots
  <2>3. proc'[u] = proc[u]
    BY <2>1, <2>2 DEF ProcTypes
  <2> QED
    BY <1>a, <2>1, <2>3, UndyingStays
<1>31. CASE task_signal_quit
  BY <1>31 DEF task_signal_quit, AlwaysReboots
<1>32. CASE PowerOff
  <2>1. UNCHANGED <<proc, got, tsk, pc>>
    BY <1>32 DEF PowerOff, sched, kernel, At, Goto
  <2> QED
    BY <2>1, <1>a, UndyingStays
<1>33. CASE task_recover_after_reboot
  <2>1. pc'[Recycle] = "top" /\ \A k \in Slots : proc'[u][k] = "none"
    BY <1>33 DEF task_recover_after_reboot, AtStart, EveryRun, Every
  <2> QED
    BY <2>1 DEF IsUndying, Hands, Doing, Ending
<1>34. CASE Stopped \/ UNCHANGED vars
  <2>1. UNCHANGED <<proc, got, tsk, pc>>
    BY <1>34 DEF Stopped, vars
  <2> QED
    BY <2>1, <1>a, UndyingStays
<1>35. CASE task_do_crash
  <2>1. UNCHANGED <<proc, got, tsk, pc>>
    BY <1>35 DEF task_do_crash, sched, kernel, At, Goto
  <2> QED
    BY <2>1, <1>a, UndyingStays
<1> QED
  BY <1>1, <1>2, <1>3, <1>4, <1>5, <1>6, <1>7, <1>8, <1>9, <1>10, <1>11, <1>12, <1>13, <1>14,
     <1>15, <1>16, <1>17, <1>18, <1>19, <1>20, <1>21, <1>22, <1>23, <1>24, <1>25, <1>26, <1>27,
     <1>28, <1>29, <1>30, <1>31, <1>32, <1>33, <1>34, <1>35
  DEF Next, Main, Recycler, Thread, task_begin, task_recycle, task_do, task_recycle_end, Threads,
      Recycle

\* Led, when the main thread does not begin to fork and the group keeps its leader.
LEMMA LedStays ==
  ASSUME Led,
         pc'["main"] \in {"fork", "record"} =>
           /\ pc["main"] \in {"fork", "record"} /\ cur' = cur
           /\ Env[cur].may_reboot /\ leader[cur] = "alive" => leader'[cur] = "alive"
  PROVE  Led'
  BY DEF Led

\* Nor does the leader of the group it is forked into.
LEMMA LedKept ==
  ASSUME RunType, TaskTypes, ProcTypes, AlwaysReboots, faults' = 0, faults = 0, Undying, Led, [Next]_vars
  PROVE  Led'
<1> USE TinaAssumption DEF RunType, Threads, Recycle
<1>1. ASSUME NEW h \in Threads, KillLimits(h) PROVE Led'
  <2>1. /\ UNCHANGED cur /\ pc[h] = "kill" /\ T(h) \in Tasks
        /\ \E p \in {"clean", "sub"} : pc' = [pc EXCEPT ![h] = p]
        /\ UNCHANGED leader \/ kill(T(h), "fail")
    BY <1>1 DEF KillLimits, others, local, At, Goto, T
  <2>2. CASE h = "main"
    BY <2>1, <2>2, LedStays
  <2>3. CASE h = Recycle
    <3>1. ~Env[tsk].may_reboot
      BY <2>1, <2>3 DEF Undying, IsUndying, Hands, Ending
    <3>2. \A u \in Tasks : Env[u].may_reboot => leader'[u] = leader[u]
      BY <2>1, <2>3, <3>1, KillOthers DEF T
    <3> QED
      BY <2>1, <2>3, <3>2, LedStays
  <2> QED
    BY <2>2, <2>3
<1>2. ASSUME NEW h \in Threads, task_clean_reboot(h) PROVE Led'
  <2>1. /\ UNCHANGED <<cur, leader>>
        /\ pc[h] = "clean"
        /\ pc' = [pc EXCEPT ![h] = "tell"]
    BY <1>2 DEF task_clean_reboot, kernel, others, local, At, Goto
  <2> QED
    BY <2>1, LedStays
<1>3. ASSUME NEW h \in Threads, CountEnd(h) PROVE Led'
  <2>1. /\ UNCHANGED <<cur, leader>>
        /\ pc[h] = "sub"
        /\ pc' = [pc EXCEPT ![h] = "tell"]
    BY <1>3 DEF CountEnd, kernel, others, local, At, Goto
  <2> QED
    BY <2>1, LedStays
<1>4. ASSUME NEW h \in Threads, TELL_PARENT(h) PROVE Led'
  <2>1. /\ UNCHANGED <<cur, leader>>
        /\ pc[h] = "tell"
        /\ \E p \in {"lastsub", "again"} : pc' = [pc EXCEPT ![h] = p]
    BY <1>4 DEF TELL_PARENT, kernel, others, local, At, Goto
  <2> QED
    BY <2>1, LedStays
<1>5. ASSUME NEW h \in Threads, LockTask(h) PROVE Led'
  <2>1. /\ UNCHANGED <<cur, leader>>
        /\ pc[h] = "lock"
        /\ \E p \in {"reboot", "last"} : pc' = [pc EXCEPT ![h] = p]
    BY <1>5 DEF LockTask, rest, kernel, At, Goto
  <2> QED
    BY <2>1, LedStays
<1>6. ASSUME NEW h \in Threads, task_init_reboot_mode(h) PROVE Led'
  <2>1. /\ UNCHANGED <<cur, leader>>
        /\ pc[h] = "reboot"
        /\ \E p \in {"status", "unlock"} : pc' = [pc EXCEPT ![h] = p]
    BY <1>6 DEF task_init_reboot_mode, kernel, Leave, At, Goto
  <2> QED
    BY <2>1, LedStays
<1>7. ASSUME NEW h \in Threads, task_create_reboot_status(h) PROVE Led'
  <2>1. /\ UNCHANGED <<cur, leader>>
        /\ pc[h] \in {"status", "fill"}
        /\ \E p \in {"fill", "last", "unlock"} : pc' = [pc EXCEPT ![h] = p]
    BY <1>7 DEF task_create_reboot_status, kernel, Leave, At, Goto
  <2> QED
    BY <2>1, LedStays
<1>8. ASSUME NEW h \in Threads, LastTimes(h) PROVE Led'
  <2>1. /\ UNCHANGED <<cur, leader>>
        /\ pc[h] = "last"
        /\ \E p \in {"limits", "kill", "lastsub"} : pc' = [pc EXCEPT ![h] = p]
    BY <1>8 DEF LastTimes, others, local, rest, kernel, At, Goto
  <2> QED
    BY <2>1, LedStays
<1>9. ASSUME NEW h \in Threads, LastSub(h) PROVE Led'
  <2>1. /\ UNCHANGED <<cur, leader>>
        /\ pc[h] = "lastsub"
        /\ pc' = [pc EXCEPT ![h] = "unlock"]
    BY <1>9 DEF LastSub, Leave, At, Goto
  <2> QED
    BY <2>1, LedStays
<1>10. ASSUME NEW h \in Threads, DoLimits(h) PROVE Led'
  <2>1. /\ UNCHANGED cur /\ pc[h] = "limits" /\ T(h) \in Tasks
        /\ pc' = [pc EXCEPT ![h] = "fork"] /\ leader' = [leader EXCEPT ![T(h)] = "alive"]
    <3>1. ~Fails
      BY DEF Fails, TaskTypes
    <3> QED
      BY <1>10, <3>1 DEF DoLimits, NewGroup, At, Goto, T
  <2>2. CASE h = "main"
    BY <2>1, <2>2 DEF Led, T, ProcTypes
  <2>3. CASE h = Recycle
    <3>1. pc'["main"] = pc["main"]
      BY <2>1, <2>3
    <3>2. leader[cur] = "alive" => leader'[cur] = "alive"
      BY <2>1 DEF ProcTypes
    <3> QED
      BY <2>1, <3>1, <3>2, LedStays
  <2> QED
    BY <2>2, <2>3
<1>11. ASSUME NEW h \in Threads, ForkTestcase(h) PROVE Led'
  <2>1. UNCHANGED <<cur, leader>> /\ pc[h] = "fork" /\ pc' = [pc EXCEPT ![h] = "record"]
    <3>1. ~Fails
      BY DEF Fails, TaskTypes
    <3> QED
      BY <1>11, <3>1 DEF ForkTestcase, At, Goto
  <2> QED
    BY <2>1, LedStays
<1>12. ASSUME NEW h \in Threads, RecordPid(h) PROVE Led'
  <2>1. /\ UNCHANGED <<cur, leader>>
        /\ pc[h] = "record"
        /\ \E p \in {"fork", "unlock"} : pc' = [pc EXCEPT ![h] = p]
    BY <1>12 DEF RecordPid, kernel, Leave, At, Goto
  <2> QED
    BY <2>1, LedStays
<1>13. ASSUME NEW h \in Threads, UnlockTask(h) PROVE Led'
  <2>1. /\ UNCHANGED <<cur, leader>>
        /\ pc[h] = "unlock"
        /\ \E p \in {"again", "started", "failed"} : pc' = [pc EXCEPT ![h] = p]
    BY <1>13 DEF UnlockTask, rest, kernel, At, Goto
  <2> QED
    BY <2>1, LedStays
<1>14. CASE ListTop
  <2>1. /\ UNCHANGED <<cur, leader>>
        /\ pc["main"] = "list"
        /\ \E p \in {"join", "wait", "alone"} : pc' = [pc EXCEPT !["main"] = p]
    BY <1>14 DEF ListTop, others, local, rest, kernel, At, Goto
  <2> QED
    BY <2>1, LedStays
<1>15. CASE WAIT_CHILD
  <2>1. /\ UNCHANGED <<cur, leader>>
        /\ pc["main"] = "wait"
        /\ pc' = [pc EXCEPT !["main"] = "list"]
    BY <1>15 DEF WAIT_CHILD, kernel, others, local, At, Goto
  <2> QED
    BY <2>1, LedStays
<1>16. CASE BeginTask
  <2>1. /\ UNCHANGED <<leader>>
        /\ pc["main"] = "alone"
        /\ \E p \in {"list", "lock"} : pc' = [pc EXCEPT !["main"] = p]
    BY <1>16 DEF BeginTask, kernel, NextTask, At, Goto
  <2> QED
    BY <2>1, LedStays
<1>17. CASE TaskStarted
  <2>1. /\ UNCHANGED <<cur, leader>>
        /\ pc["main"] = "started"
        /\ pc' = [pc EXCEPT !["main"] = "after"]
    BY <1>17 DEF TaskStarted, kernel, others, local, At, Goto
  <2> QED
    BY <2>1, LedStays
<1>18. CASE TaskFailed
  <2>1. /\ UNCHANGED <<leader>>
        /\ pc["main"] = "failed"
        /\ pc' = [pc EXCEPT !["main"] = "list"]
    BY <1>18 DEF TaskFailed, kernel, NextTask, At, Goto
  <2> QED
    BY <2>1, LedStays
<1>19. CASE WaitAlone
  <2>1. /\ UNCHANGED <<leader>>
        /\ pc["main"] = "after"
        /\ pc' = [pc EXCEPT !["main"] = "list"]
    BY <1>19 DEF WaitAlone, rest, kernel, NextTask, At, Goto
  <2> QED
    BY <2>1, LedStays
<1>20. CASE task_quit_clean
  <2>1. /\ UNCHANGED <<cur, leader, pc>>
        /\ pc["main"] = "join"
    BY <1>20 DEF task_quit_clean, sched, rest, kernel, At, Goto
  <2> QED
    BY <2>1, LedStays
<1>21. CASE RecycleTop
  <2>1. /\ UNCHANGED <<cur, leader>>
        /\ pc[Recycle] = "top"
        /\ \E p \in {"exit", "wait4"} : pc' = [pc EXCEPT ![Recycle] = p]
    BY <1>21 DEF RecycleTop, others, local, rest, kernel, At, Goto
  <2> QED
    BY <2>1, LedStays
<1>22. CASE wait4
  <2>1. cur' = cur /\ pc'["main"] = pc["main"]
    BY <1>22 DEF wait4, Goto
  <2>2. leader' = leader \/ \E t \in Tasks : leader[t] = "dead" /\ leader' = [leader EXCEPT ![t] = "gone"]
    BY <1>22 DEF wait4, kernel
  <2>3. cur \in Tasks /\ leader[cur] = "alive" => leader'[cur] = "alive"
    BY <2>2 DEF ProcTypes
  <2> QED
    BY <2>1, <2>3, LedStays
<1>23. CASE MatchLeader
  <2>1. /\ UNCHANGED <<cur, leader>>
        /\ pc[Recycle] = "match"
        /\ pc' = [pc EXCEPT ![Recycle] = "top"]
    BY <1>23 DEF MatchLeader, kernel, local, At, Goto
  <2> QED
    BY <2>1, LedStays
<1>24. CASE task_recycle_once
  <2>1. /\ cur' = cur /\ pc[Recycle] = "match" /\ got[3] # "leader"
        /\ pc' = [pc EXCEPT ![Recycle] = "check"]
        /\ UNCHANGED leader \/ kill(got[1], "fail")
    BY <1>24 DEF task_recycle_once, At, Goto
  <2>2. \A u \in Tasks : Env[u].may_reboot => got[1] # u
    BY <2>1 DEF Undying, IsUndying
  <2>3. \A u \in Tasks : Env[u].may_reboot => leader'[u] = leader[u]
    BY <2>1, <2>2, KillOthers
  <2> QED
    BY <2>1, <2>3, LedStays
<1>25. CASE NoMatch
  <2>1. /\ UNCHANGED <<cur, leader>>
        /\ pc[Recycle] = "match"
        /\ pc' = [pc EXCEPT ![Recycle] = "top"]
    BY <1>25 DEF NoMatch, kernel, local, At, Goto
  <2> QED
    BY <2>1, LedStays
<1>26. CASE task_check_end
  <2>1. /\ UNCHANGED <<cur, leader>>
        /\ pc[Recycle] = "check"
        /\ \E p \in {"kill", "again", "lock"} : pc' = [pc EXCEPT ![Recycle] = p]
    BY <1>26 DEF task_check_end, others, local, rest, kernel, At, Goto
  <2> QED
    BY <2>1, LedStays
<1>27. CASE Again
  <2>1. /\ UNCHANGED <<cur, leader>>
        /\ pc[Recycle] = "again"
        /\ \E p \in {"exit", "top"} : pc' = [pc EXCEPT ![Recycle] = p]
    BY <1>27 DEF Again, local, rest, kernel, At, Goto
  <2> QED
    BY <2>1, LedStays
<1>28. ASSUME NEW t \in Tasks, OnceLimit(t) PROVE Led'
  <2>1. UNCHANGED <<pc, cur>> /\ ~Env[t].may_reboot /\ kill(t, "alarm")
    BY <1>28 DEF OnceLimit, sched, AlwaysReboots
  <2>2. \A u \in Tasks : Env[u].may_reboot => leader'[u] = leader[u]
    BY <2>1, KillOthers
  <2> QED
    BY <2>1, <2>2, LedStays
<1>29. ASSUME NEW t \in Tasks, WholeLimit(t) PROVE Led'
  <2>1. UNCHANGED <<pc, cur>> /\ ~Env[t].may_reboot /\ (UNCHANGED leader \/ kill(t, "alarm"))
    BY <1>29 DEF WholeLimit, sched, AlwaysReboots
  <2>2. \A u \in Tasks : Env[u].may_reboot => leader'[u] = leader[u]
    BY <2>1, KillOthers
  <2> QED
    BY <2>1, <2>2, LedStays
<1>30. ASSUME NEW t \in Tasks, NEW k \in Slots, Exit(t, k) PROVE Led'
  <2>1. UNCHANGED <<cur, leader, pc>>
    BY <1>30 DEF Exit, sched, At, Goto
  <2> QED
    BY <2>1, LedStays
<1>31. CASE task_signal_quit
  BY <1>31 DEF task_signal_quit, AlwaysReboots
<1>32. CASE PowerOff
  <2>1. UNCHANGED <<cur, leader, pc>>
    BY <1>32 DEF PowerOff, sched, kernel, At, Goto
  <2> QED
    BY <2>1, LedStays
<1>33. CASE task_recover_after_reboot
  <2>1. pc'["main"] = "list"
    BY <1>33 DEF task_recover_after_reboot, AtStart
  <2> QED
    BY <2>1, LedStays
<1>34. CASE Stopped \/ UNCHANGED vars
  <2>1. UNCHANGED <<cur, leader, pc>>
    BY <1>34 DEF Stopped, vars
  <2> QED
    BY <2>1, LedStays
<1>35. CASE task_do_crash
  <2>1. UNCHANGED <<cur, leader, pc>>
    BY <1>35 DEF task_do_crash, sched, kernel, At, Goto
  <2> QED
    BY <2>1, LedStays
<1> QED
  BY <1>1, <1>2, <1>3, <1>4, <1>5, <1>6, <1>7, <1>8, <1>9, <1>10, <1>11, <1>12, <1>13, <1>14,
     <1>15, <1>16, <1>17, <1>18, <1>19, <1>20, <1>21, <1>22, <1>23, <1>24, <1>25, <1>26, <1>27,
     <1>28, <1>29, <1>30, <1>31, <1>32, <1>33, <1>34, <1>35
  DEF Next, Main, Recycler, Thread, task_begin, task_recycle, task_do, task_recycle_end, Threads,
      Recycle

\* Scripted, when the files stay and the main thread does not come to their removal.
LEMMA ScriptStays ==
  ASSUME Scripted, UNCHANGED <<fboot, sfile>>,
         fboot # None => status'[fboot] = status[fboot] \/ status'[fboot] # "END",
         \/ pc'["main"] = pc["main"]
         \/ pc["main"] # "clean" /\ pc'["main"] \notin {"clean", "tell"}
  PROVE  Scripted'
  BY DEF Scripted

\* The recycle thread has no test case in hand that may reboot.
LEMMA NoneInHand ==
  ASSUME RunType, Undying, pc[Recycle] \in Hands
  PROVE  ~Env[tsk].may_reboot
  BY DEF RunType, Undying, IsUndying

\* The boot script goes before its test case ends, and the status file with it.
LEMMA ScriptKept ==
  ASSUME RunType, TaskTypes, Shape, FromTheFirst, HandRuns, Rebooted, FilesReady, faults' = 0, faults = 0, Undying, Scripted, [Next]_vars
  PROVE  Scripted'
<1> USE TinaAssumption DEF RunType, Threads, Recycle
<1>1. ASSUME NEW h \in Threads, KillLimits(h) PROVE Scripted'
  <2>1. /\ UNCHANGED <<status, sfile>> /\ pc[h] = "kill"
        /\ \/ Carried(T(h)) /\ fboot' = None /\ pc' = [pc EXCEPT ![h] = "clean"]
           \/ ~Carried(T(h)) /\ fboot' = fboot /\ pc' = [pc EXCEPT ![h] = "sub"]
    BY <1>1 DEF KillLimits, tasks, At, Goto
  <2>2. CASE h = "main"
    <3>1. Carried(cur)
      BY <2>1, <2>2 DEF FromTheFirst, Carried
    <3>2. fboot' = None /\ pc'["main"] = "clean"
      BY <2>1, <2>2, <3>1 DEF T
    <3> QED
      BY <3>2 DEF Scripted
  <2>3. CASE h = Recycle
    <3>1. ~Env[tsk].may_reboot
      BY <2>1, <2>3, NoneInHand DEF Hands, Doing, Ending
    <3>2. ~Carried(T(h))
      BY <2>3, <3>1 DEF Carried, T
    <3> QED
      BY <2>1, <2>3, <3>2, ScriptStays
  <2> QED
    BY <2>2, <2>3
<1>2. ASSUME NEW h \in Threads, task_clean_reboot(h) PROVE Scripted'
  <2>1. /\ UNCHANGED fboot /\ sfile' = None /\ pc[h] = "clean" /\ pc' = [pc EXCEPT ![h] = "tell"]
    BY <1>2 DEF task_clean_reboot, At, Goto
  <2>2. CASE h = "main"
    <3>1. fboot' = None
      BY <2>1, <2>2 DEF Scripted
    <3> QED
      BY <2>1, <3>1 DEF Scripted
  <2>3. CASE h = Recycle
    <3>1. ~Env[tsk].may_reboot
      BY <2>1, <2>3, NoneInHand DEF Hands, Doing, Ending
    <3> QED
      BY <2>1, <2>3, <3>1 DEF HandRuns
  <2> QED
    BY <2>2, <2>3
<1>3. ASSUME NEW h \in Threads, CountEnd(h) PROVE Scripted'
  <2>1. /\ UNCHANGED <<fboot, sfile, status>> /\ pc[h] = "sub" /\ pc' = [pc EXCEPT ![h] = "tell"]
    BY <1>3 DEF CountEnd, tasks, flash, At, Goto
  <2>2. h = Recycle
    BY <2>1 DEF FromTheFirst
  <2> QED
    BY <2>1, <2>2, ScriptStays
<1>4. ASSUME NEW h \in Threads, TELL_PARENT(h) PROVE Scripted'
  <2>1. /\ UNCHANGED <<fboot, sfile>> /\ pc[h] = "tell"
        /\ \E p \in {"lastsub", "again"} : pc' = [pc EXCEPT ![h] = p]
        /\ status' = [status EXCEPT ![T(h)] = "END"]
    BY <1>4 DEF TELL_PARENT, flash, At, Goto
  <2>2. CASE h = "main"
    <3>1. fboot = None
      BY <2>1, <2>2 DEF Scripted
    <3> QED
      BY <2>1, <2>2, <3>1, ScriptStays
  <2>3. CASE h = Recycle
    <3>1. ~Env[tsk].may_reboot
      BY <2>1, <2>3, NoneInHand DEF Hands, Doing, Ending
    <3>2. fboot # None => fboot \in Tasks /\ fboot # tsk
      BY <3>1 DEF Rebooted, TaskTypes
    <3>3. fboot # None => status'[fboot] = status[fboot]
      BY <2>1, <2>3, <3>2 DEF T, TaskTypes
    <3> QED
      BY <2>1, <2>3, <3>3, ScriptStays
  <2> QED
    BY <2>2, <2>3
<1>5. ASSUME NEW h \in Threads, LockTask(h) PROVE Scripted'
  <2>1. /\ UNCHANGED <<fboot, sfile, status>>
        /\ pc[h] = "lock"
        /\ \E p \in {"reboot", "last"} : pc' = [pc EXCEPT ![h] = p]
    BY <1>5 DEF LockTask, rest, tasks, flash, At, Goto
  <2> QED
    BY <2>1, ScriptStays
<1>6. ASSUME NEW h \in Threads, task_init_reboot_mode(h) PROVE Scripted'
  <2>1. /\ UNCHANGED <<status, sfile>> /\ pc[h] = "reboot" /\ pc' = [pc EXCEPT ![h] = "status"]
        /\ fboot' = fboot \/ fboot' = T(h)
    <3>1. ~Fails
      BY DEF Fails, TaskTypes
    <3> QED
      BY <1>6, <3>1 DEF task_init_reboot_mode, flash, At, Goto
  <2>2. CASE h = "main"
    <3>1. status[cur] = "RUN" /\ cur \in Tasks
      BY <2>1, <2>2 DEF Shape, Doing
    <3>2. cur # None
      BY <3>1 DEF Tasks, None
    <3>3. pc'["main"] = "status" /\ pc["main"] = "reboot"
      BY <2>1, <2>2
    <3> QED
      BY <2>1, <2>2, <3>1, <3>2, <3>3 DEF Scripted, T
  <2>3. CASE h = Recycle
    <3>1. ~Env[tsk].may_reboot
      BY <2>1, <2>3, NoneInHand DEF Hands, Doing, Ending
    <3> QED
      BY <2>1, <2>3, <3>1 DEF HandRuns
  <2> QED
    BY <2>2, <2>3
<1>7. ASSUME NEW h \in Threads, task_create_reboot_status(h) PROVE Scripted'
  <2>1. /\ UNCHANGED <<status, fboot>> /\ pc[h] \in {"status", "fill"}
        /\ \E p \in {"fill", "last", "unlock"} : pc' = [pc EXCEPT ![h] = p]
    BY <1>7 DEF task_create_reboot_status, tasks, Leave, At, Goto
  <2>2. CASE h = "main"
    <3>1. fboot = cur /\ cur # None
      BY <2>1, <2>2 DEF FilesReady, IsReady, T, Tasks, None
    <3>2. pc'["main"] \notin {"clean", "tell"}
      BY <2>1, <2>2
    <3> QED
      BY <2>1, <3>1, <3>2 DEF Scripted
  <2>3. CASE h = Recycle
    <3>1. ~Env[tsk].may_reboot
      BY <2>1, <2>3, NoneInHand DEF Hands, Doing, Ending
    <3> QED
      BY <2>1, <2>3, <3>1 DEF HandRuns
  <2> QED
    BY <2>2, <2>3
<1>8. ASSUME NEW h \in Threads, LastTimes(h) PROVE Scripted'
  <2>1. /\ UNCHANGED <<fboot, sfile, status>>
        /\ pc[h] = "last"
        /\ \E p \in {"limits", "kill", "lastsub"} : pc' = [pc EXCEPT ![h] = p]
    BY <1>8 DEF LastTimes, rest, tasks, flash, At, Goto
  <2> QED
    BY <2>1, ScriptStays
<1>9. ASSUME NEW h \in Threads, LastSub(h) PROVE Scripted'
  <2>1. /\ UNCHANGED <<fboot, sfile, status>>
        /\ pc[h] = "lastsub"
        /\ pc' = [pc EXCEPT ![h] = "unlock"]
    BY <1>9 DEF LastSub, tasks, flash, Leave, At, Goto
  <2> QED
    BY <2>1, ScriptStays
<1>10. ASSUME NEW h \in Threads, DoLimits(h) PROVE Scripted'
  <2>1. /\ UNCHANGED <<fboot, sfile, status>>
        /\ pc[h] = "limits"
        /\ \E p \in {"fork", "unlock"} : pc' = [pc EXCEPT ![h] = p]
    BY <1>10 DEF DoLimits, flash, Leave, At, Goto
  <2> QED
    BY <2>1, ScriptStays
<1>11. ASSUME NEW h \in Threads, ForkTestcase(h) PROVE Scripted'
  <2>1. /\ UNCHANGED <<fboot, sfile, status>>
        /\ pc[h] = "fork"
        /\ \E p \in {"record", "unlock"} : pc' = [pc EXCEPT ![h] = p]
    BY <1>11 DEF ForkTestcase, tasks, flash, Leave, At, Goto
  <2> QED
    BY <2>1, ScriptStays
<1>12. ASSUME NEW h \in Threads, RecordPid(h) PROVE Scripted'
  <2>1. /\ UNCHANGED <<fboot, sfile, status>>
        /\ pc[h] = "record"
        /\ \E p \in {"fork", "unlock"} : pc' = [pc EXCEPT ![h] = p]
    BY <1>12 DEF RecordPid, flash, Leave, At, Goto
  <2> QED
    BY <2>1, ScriptStays
<1>13. ASSUME NEW h \in Threads, UnlockTask(h) PROVE Scripted'
  <2>1. /\ UNCHANGED <<fboot, sfile, status>>
        /\ pc[h] = "unlock"
        /\ \E p \in {"again", "started", "failed"} : pc' = [pc EXCEPT ![h] = p]
    BY <1>13 DEF UnlockTask, rest, tasks, flash, At, Goto
  <2> QED
    BY <2>1, ScriptStays
<1>14. CASE ListTop
  <2>1. /\ UNCHANGED <<fboot, sfile, status>>
        /\ pc["main"] = "list"
        /\ \E p \in {"join", "wait", "alone"} : pc' = [pc EXCEPT !["main"] = p]
    BY <1>14 DEF ListTop, rest, tasks, flash, At, Goto
  <2> QED
    BY <2>1, ScriptStays
<1>15. CASE WAIT_CHILD
  <2>1. /\ UNCHANGED <<fboot, sfile, status>>
        /\ pc["main"] = "wait"
        /\ pc' = [pc EXCEPT !["main"] = "list"]
    BY <1>15 DEF WAIT_CHILD, tasks, flash, At, Goto
  <2> QED
    BY <2>1, ScriptStays
<1>16. CASE BeginTask
  <2>1. /\ UNCHANGED <<fboot, sfile>> /\ pc["main"] = "alone" /\ cur \in Tasks
        /\ \E p \in {"list", "lock"} : pc' = [pc EXCEPT !["main"] = p]
        /\ \/ reboot_mode /\ reboot_keypath # cur /\ status' = [status EXCEPT ![cur] = "END"]
           \/ status' = [status EXCEPT ![cur] = "RUN"]
    BY <1>16 DEF BeginTask, NextTask, flash, At, Goto
  <2>2. pc[Recycle] = "clean" => ~Env[tsk].may_reboot
    BY NoneInHand DEF Hands, Ending
  <2>3. reboot_mode => fboot = reboot_keypath
    BY <2>1, <2>2 DEF Rebooted, HandRuns
  <2>4. fboot # None => status'[fboot] = status[fboot] \/ status'[fboot] # "END"
    BY <2>1, <2>3 DEF TaskTypes
  <2> QED
    BY <2>1, <2>4, ScriptStays
<1>17. CASE TaskStarted
  <2>1. /\ UNCHANGED <<fboot, sfile, status>>
        /\ pc["main"] = "started"
        /\ pc' = [pc EXCEPT !["main"] = "after"]
    BY <1>17 DEF TaskStarted, tasks, flash, At, Goto
  <2> QED
    BY <2>1, ScriptStays
<1>18. CASE TaskFailed
  <2>1. pc["main"] = "failed"
    BY <1>18 DEF TaskFailed, At
  <2> QED
    BY <2>1 DEF Rebooted, GivenUp
<1>19. CASE WaitAlone
  <2>1. /\ UNCHANGED <<fboot, sfile, status>>
        /\ pc["main"] = "after"
        /\ pc' = [pc EXCEPT !["main"] = "list"]
    BY <1>19 DEF WaitAlone, rest, tasks, flash, NextTask, At, Goto
  <2> QED
    BY <2>1, ScriptStays
<1>20. CASE task_quit_clean
  <2>1. /\ UNCHANGED <<fboot, sfile, status, pc>>
        /\ pc["main"] = "join"
    BY <1>20 DEF task_quit_clean, sched, rest, tasks, flash, At, Goto
  <2> QED
    BY <2>1, ScriptStays
<1>21. CASE RecycleTop
  <2>1. /\ UNCHANGED <<fboot, sfile, status>>
        /\ pc[Recycle] = "top"
        /\ \E p \in {"exit", "wait4"} : pc' = [pc EXCEPT ![Recycle] = p]
    BY <1>21 DEF RecycleTop, rest, tasks, flash, At, Goto
  <2> QED
    BY <2>1, ScriptStays
<1>22. CASE wait4
  <2>1. UNCHANGED <<fboot, sfile, status>> /\ pc'["main"] = pc["main"]
    BY <1>22 DEF wait4, tasks, flash, Goto
  <2> QED
    BY <2>1, ScriptStays
<1>23. CASE MatchLeader
  <2>1. /\ UNCHANGED <<fboot, sfile, status>>
        /\ pc[Recycle] = "match"
        /\ pc' = [pc EXCEPT ![Recycle] = "top"]
    BY <1>23 DEF MatchLeader, flash, At, Goto
  <2> QED
    BY <2>1, ScriptStays
<1>24. CASE task_recycle_once
  <2>1. /\ UNCHANGED <<fboot, sfile, status>>
        /\ pc[Recycle] = "match"
        /\ pc' = [pc EXCEPT ![Recycle] = "check"]
    BY <1>24 DEF task_recycle_once, flash, At, Goto
  <2> QED
    BY <2>1, ScriptStays
<1>25. CASE NoMatch
  <2>1. /\ UNCHANGED <<fboot, sfile, status>>
        /\ pc[Recycle] = "match"
        /\ pc' = [pc EXCEPT ![Recycle] = "top"]
    BY <1>25 DEF NoMatch, tasks, flash, At, Goto
  <2> QED
    BY <2>1, ScriptStays
<1>26. CASE task_check_end
  <2>1. /\ UNCHANGED <<fboot, sfile, status>>
        /\ pc[Recycle] = "check"
        /\ \E p \in {"kill", "again", "lock"} : pc' = [pc EXCEPT ![Recycle] = p]
    BY <1>26 DEF task_check_end, rest, tasks, flash, At, Goto
  <2> QED
    BY <2>1, ScriptStays
<1>27. CASE Again
  <2>1. /\ UNCHANGED <<fboot, sfile, status>>
        /\ pc[Recycle] = "again"
        /\ \E p \in {"exit", "top"} : pc' = [pc EXCEPT ![Recycle] = p]
    BY <1>27 DEF Again, rest, tasks, flash, At, Goto
  <2> QED
    BY <2>1, ScriptStays
<1>28. ASSUME NEW t \in Tasks, OnceLimit(t) PROVE Scripted'
  <2>1. UNCHANGED <<fboot, sfile, status, pc>>
    BY <1>28 DEF OnceLimit, sched, tasks, flash, At, Goto
  <2> QED
    BY <2>1, ScriptStays
<1>29. ASSUME NEW t \in Tasks, WholeLimit(t) PROVE Scripted'
  <2>1. UNCHANGED <<fboot, sfile, status, pc>>
    BY <1>29 DEF WholeLimit, sched, flash, At, Goto
  <2> QED
    BY <2>1, ScriptStays
<1>30. ASSUME NEW t \in Tasks, NEW k \in Slots, Exit(t, k) PROVE Scripted'
  <2>1. UNCHANGED <<fboot, sfile, status, pc>>
    BY <1>30 DEF Exit, sched, tasks, flash, At, Goto
  <2> QED
    BY <2>1, ScriptStays
<1>31. CASE task_signal_quit
  <2>1. UNCHANGED <<fboot, sfile, status, pc>>
    BY <1>31 DEF task_signal_quit, sched, tasks, flash, At, Goto
  <2> QED
    BY <2>1, ScriptStays
<1>32. CASE PowerOff
  <2>1. UNCHANGED <<fboot, sfile, status, pc>>
    BY <1>32 DEF PowerOff, sched, tasks, flash, At, Goto
  <2> QED
    BY <2>1, ScriptStays
<1>33. CASE task_recover_after_reboot
  <2>1. UNCHANGED fboot /\ fboot # None /\ pc'["main"] = "list" /\ status' = Every("WAIT")
    BY <1>33 DEF task_recover_after_reboot, AtStart, flash
  <2>2. status'[fboot] = "WAIT"
    BY <2>1 DEF Every, TaskTypes
  <2> QED
    BY <2>1, <2>2 DEF Scripted
<1>34. CASE Stopped \/ UNCHANGED vars
  <2>1. UNCHANGED <<fboot, sfile, status, pc>>
    BY <1>34 DEF Stopped, vars
  <2> QED
    BY <2>1, ScriptStays
<1>35. CASE task_do_crash
  <2>1. UNCHANGED <<fboot, sfile, status, pc>>
    BY <1>35 DEF task_do_crash, sched, tasks, flash, At, Goto
  <2> QED
    BY <2>1, ScriptStays
<1> QED
  BY <1>1, <1>2, <1>3, <1>4, <1>5, <1>6, <1>7, <1>8, <1>9, <1>10, <1>11, <1>12, <1>13, <1>14,
     <1>15, <1>16, <1>17, <1>18, <1>19, <1>20, <1>21, <1>22, <1>23, <1>24, <1>25, <1>26, <1>27,
     <1>28, <1>29, <1>30, <1>31, <1>32, <1>33, <1>34, <1>35
  DEF Next, Main, Recycler, Thread, task_begin, task_recycle, task_do, task_recycle_end, Threads,
      Recycle

\* A call that failed has failed for good.
LEMMA FaultsGrow ==
  ASSUME TaskTypes, faults' = 0, [Next]_vars
  PROVE  faults = 0
<1> USE TinaAssumption DEF TaskTypes
<1>1. ASSUME NEW h \in Threads, KillLimits(h) PROVE faults = 0
  BY <1>1 DEF KillLimits, bounds, kill, Carried
<1>2. ASSUME NEW h \in Threads, task_clean_reboot(h) PROVE faults = 0
  BY <1>2 DEF task_clean_reboot, bounds, SUB
<1>3. ASSUME NEW h \in Threads, CountEnd(h) PROVE faults = 0
  BY <1>3 DEF CountEnd, bounds, SUB
<1>4. ASSUME NEW h \in Threads, TELL_PARENT(h) PROVE faults = 0
  BY <1>4 DEF TELL_PARENT, bounds, GaveUpLast
<1>5. ASSUME NEW h \in Threads, LockTask(h) PROVE faults = 0
  BY <1>5 DEF LockTask, rest, bounds
<1>6. ASSUME NEW h \in Threads, task_init_reboot_mode(h) PROVE faults = 0
  BY <1>6 DEF task_init_reboot_mode, ResumeAt, Leave, Fails
<1>7. ASSUME NEW h \in Threads, task_create_reboot_status(h) PROVE faults = 0
  BY <1>7 DEF task_create_reboot_status, StatusOpened, Leave, Fails
<1>8. ASSUME NEW h \in Threads, LastTimes(h) PROVE faults = 0
  BY <1>8 DEF LastTimes, rest, bounds
<1>9. ASSUME NEW h \in Threads, LastSub(h) PROVE faults = 0
  BY <1>9 DEF LastSub, bounds, SUB, LimitAfterLast, Leave
<1>10. ASSUME NEW h \in Threads, DoLimits(h) PROVE faults = 0
  BY <1>10 DEF DoLimits, NewGroup, Leave, Fails
<1>11. ASSUME NEW h \in Threads, ForkTestcase(h) PROVE faults = 0
  BY <1>11 DEF ForkTestcase, kill, Leave, Fails
<1>12. ASSUME NEW h \in Threads, RecordPid(h) PROVE faults = 0
  BY <1>12 DEF RecordPid, bounds, Leave
<1>13. ASSUME NEW h \in Threads, UnlockTask(h) PROVE faults = 0
  BY <1>13 DEF UnlockTask, rest, bounds
<1>14. CASE ListTop
  BY <1>14 DEF ListTop, rest, bounds, Full
<1>15. CASE WAIT_CHILD
  BY <1>15 DEF WAIT_CHILD, bounds, HasByte
<1>16. CASE BeginTask
  BY <1>16 DEF BeginTask, bounds, ERR, NextTask, MayBegin
<1>17. CASE TaskStarted
  BY <1>17 DEF TaskStarted, bounds, ADD
<1>18. CASE TaskFailed
  BY <1>18 DEF TaskFailed, bounds, ERR, NextTask
<1>19. CASE WaitAlone
  BY <1>19 DEF WaitAlone, rest, bounds, NextTask, Awaited
<1>20. CASE task_quit_clean
  BY <1>20 DEF task_quit_clean, rest, bounds
<1>21. CASE RecycleTop
  BY <1>21 DEF RecycleTop, rest, bounds, AllEnded
<1>22. CASE wait4
  <2>1. UNCHANGED <<faults>> /\ \E p \in {"match", "top"} : pc' = [pc EXCEPT ![Recycle] = p]
    BY <1>22 DEF wait4, bounds, Goto, At
  <2> QED
    BY <1>22, <2>1 DEF wait4
<1>23. CASE MatchLeader
  BY <1>23 DEF MatchLeader, bounds, NoDeath
<1>24. CASE task_recycle_once
  BY <1>24 DEF task_recycle_once, bounds, Recorded, kill
<1>25. CASE NoMatch
  BY <1>25 DEF NoMatch, bounds, NoDeath, Recorded
<1>26. CASE task_check_end
  BY <1>26 DEF task_check_end, rest, bounds, Ended
<1>27. CASE Again
  BY <1>27 DEF Again, rest, bounds, NoDeath
<1>28. ASSUME NEW t \in Tasks, OnceLimit(t) PROVE faults = 0
  BY <1>28 DEF OnceLimit, bounds, kill
<1>29. ASSUME NEW t \in Tasks, WholeLimit(t) PROVE faults = 0
  BY <1>29 DEF WholeLimit, bounds, kill
<1>30. ASSUME NEW t \in Tasks, NEW k \in Slots, Exit(t, k) PROVE faults = 0
  BY <1>30 DEF Exit, bounds
<1>31. CASE task_signal_quit
  BY <1>31 DEF task_signal_quit, bounds
<1>32. CASE PowerOff
  BY <1>32 DEF PowerOff
<1>33. CASE task_recover_after_reboot
  BY <1>33 DEF task_recover_after_reboot, bounds, FollowingRun, AtStart, NoDeath, Every, EveryRun
<1>34. CASE Stopped \/ UNCHANGED vars
  <2>1. UNCHANGED <<faults>>
    BY <1>34 DEF Stopped, vars
  <2> QED
    BY <2>1
<1>35. CASE task_do_crash
  BY <1>35 DEF task_do_crash, Fails
<1> QED
  BY <1>1, <1>2, <1>3, <1>4, <1>5, <1>6, <1>7, <1>8, <1>9, <1>10, <1>11, <1>12, <1>13, <1>14,
     <1>15, <1>16, <1>17, <1>18, <1>19, <1>20, <1>21, <1>22, <1>23, <1>24, <1>25, <1>26, <1>27,
     <1>28, <1>29, <1>30, <1>31, <1>32, <1>33, <1>34, <1>35
  DEF Next, Main, Recycler, Thread, task_begin, task_recycle, task_do, task_recycle_end, Threads,
      Recycle

\* The invariant holds in every reachable state.
LEMMA CleanInvariant == Steady => (Spec => []CleanInv)
<1> SUFFICES ASSUME Steady PROVE Spec => []CleanInv
  OBVIOUS
<1>1. Init => CleanInv
  <2> SUFFICES ASSUME Init PROVE CleanInv
    OBVIOUS
  <2>1. pc["main"] = "list" /\ pc[Recycle] = "top" /\ \A t \in Tasks, k \in Slots : proc[t][k] = "none"
    BY DEF Init, AtStart, Threads, Recycle, Every, EveryRun
  <2>2. Undying
    BY <2>1 DEF Undying, IsUndying, Hands, Doing, Ending
  <2>3. Led /\ Scripted
    BY <2>1 DEF Init, Led, Scripted
  <2> QED
    BY <2>2, <2>3 DEF CleanInv
<1>2. RunInv /\ CountInv /\ CleanInv /\ [Next]_vars => CleanInv'
  <2> SUFFICES ASSUME RunInv, CountInv, CleanInv, [Next]_vars, AlwaysReboots, faults' = 0
               PROVE  Undying' /\ Led' /\ Scripted'
    BY DEF CleanInv, AlwaysReboots
  <2>1. RunType /\ TaskTypes /\ ProcTypes /\ NotForked /\ Shape /\ FromTheFirst /\ HandRuns /\ Rebooted /\ FilesReady
    BY DEF RunInv, CountInv, AllTypes
  <2>2. faults = 0
    BY <2>1, FaultsGrow
  <2>3. Undying /\ Led /\ Scripted
    BY <2>2 DEF CleanInv
  <2> QED
    BY <2>1, <2>2, <2>3, UndyingKept, LedKept, ScriptKept
<1> QED
  BY CountInvariant, RunInvariant, <1>1, <1>2, PTL DEF Spec

\* For the same lists, when every run of a test case that may reboot does: after an exit
\* without a fault no boot and no power cut in between has left a boot script or a
\* status file, task_clean_reboot has removed those of every test case.
THEOREM CleanExit == Steady /\ NotOnly => (Spec => []CleanAfter)
<1> SUFFICES ASSUME Steady, NotOnly PROVE Spec => []CleanAfter
  OBVIOUS
<1>1. ASSUME CountInv, CleanInv PROVE CleanAfter
  <2> SUFFICES ASSUME tool = "exited", faults = 0, AlwaysReboots PROVE fboot = None /\ sfile = None
    BY DEF CleanAfter
  <2>1. Scripted /\ pc["main"] = "join" /\ fboot \in Tasks \cup {None}
    BY <1>1 DEF CleanInv, CountInv, ExitAfter, AllTypes, TaskTypes
  <2>2. \A t \in Tasks : status[t] = "END"
    BY <1>1, ExitedOver
  <2> QED
    BY <2>1, <2>2 DEF Scripted
<1> QED
  BY CountInvariant, CleanInvariant, <1>1, PTL

-----------------------------------------------------------------------------
(* How often a test case is started *)

\* The steps that write the files or leave reboot mode.
Writes(h) ==
  KillLimits(h) \/ task_clean_reboot(h) \/ task_init_reboot_mode(h) \/ task_create_reboot_status(h)

\* What only these steps, a fork, a power cut or a fault change; only a boot makes a task
\* wait again.
Confined ==
  /\ (\A h \in Threads : ~Writes(h)) => UNCHANGED <<fboot, sfile, reboot_mode, reboot_keypath>>
  /\ (\A h \in Threads : ~ForkTestcase(h)) => UNCHANGED starts
  /\ \A u \in Tasks : status'[u] = "WAIT" => status[u] = "WAIT"
  /\ (\A h \in Threads : ~Writes(h)) /\ ~PowerOff => UNCHANGED sback
  /\ ~PowerOff => UNCHANGED cuts
  /\ UNCHANGED faults \/ Fails

\* A step other than a boot changes these only so.
LEMMA StepsConfined ==
  ASSUME TaskTypes, ~task_recover_after_reboot, [Next]_vars
  PROVE  Confined
<1> USE TinaAssumption DEF Confined
<1>1. ASSUME NEW h \in Threads, KillLimits(h) PROVE Confined
  <2>1. UNCHANGED <<starts, status, cuts>> /\ (UNCHANGED faults \/ Fails)
    BY <1>1 DEF KillLimits, tasks, bounds, history
  <2> QED
    BY <1>1, <2>1 DEF Writes
<1>2. ASSUME NEW h \in Threads, task_clean_reboot(h) PROVE Confined
  <2>1. UNCHANGED <<starts, status, cuts>> /\ (UNCHANGED faults \/ Fails)
    BY <1>2 DEF task_clean_reboot, tasks, bounds, history
  <2> QED
    BY <1>2, <2>1 DEF Writes
<1>3. ASSUME NEW h \in Threads, CountEnd(h) PROVE Confined
  <2>1. UNCHANGED <<starts, fboot, sfile, sback, reboot_mode, reboot_keypath, status, cuts, faults>>
    BY <1>3 DEF CountEnd, tasks, reboots, flash, bounds, history
  <2> QED
    BY <2>1
<1>4. ASSUME NEW h \in Threads, TELL_PARENT(h) PROVE Confined
  <2>1. /\ UNCHANGED <<starts, fboot, sfile, sback, reboot_mode, reboot_keypath, cuts, faults>>
        /\ status' = [status EXCEPT ![T(h)] = "END"]
    BY <1>4 DEF TELL_PARENT, reboots, flash, bounds, history
  <2> QED
    BY <2>1 DEF TaskTypes
<1>5. ASSUME NEW h \in Threads, LockTask(h) PROVE Confined
  <2>1. UNCHANGED <<starts, fboot, sfile, sback, reboot_mode, reboot_keypath, status, cuts, faults>>
    BY <1>5 DEF LockTask, rest, tasks, reboots, flash, bounds, history
  <2> QED
    BY <2>1
<1>6. ASSUME NEW h \in Threads, task_init_reboot_mode(h) PROVE Confined
  <2>1. UNCHANGED <<starts, status, cuts>> /\ (UNCHANGED faults \/ Fails)
    BY <1>6 DEF task_init_reboot_mode, history
  <2> QED
    BY <1>6, <2>1 DEF Writes
<1>7. ASSUME NEW h \in Threads, task_create_reboot_status(h) PROVE Confined
  <2>1. UNCHANGED <<starts, status, cuts>> /\ (UNCHANGED faults \/ Fails)
    BY <1>7 DEF task_create_reboot_status, tasks, history
  <2> QED
    BY <1>7, <2>1 DEF Writes
<1>8. ASSUME NEW h \in Threads, LastTimes(h) PROVE Confined
  <2>1. UNCHANGED <<starts, fboot, sfile, sback, reboot_mode, reboot_keypath, status, cuts, faults>>
    BY <1>8 DEF LastTimes, rest, tasks, reboots, flash, bounds, history
  <2> QED
    BY <2>1
<1>9. ASSUME NEW h \in Threads, LastSub(h) PROVE Confined
  <2>1. UNCHANGED <<starts, fboot, sfile, sback, reboot_mode, reboot_keypath, status, cuts, faults>>
    BY <1>9 DEF LastSub, tasks, reboots, flash, bounds, history, Leave
  <2> QED
    BY <2>1
<1>10. ASSUME NEW h \in Threads, DoLimits(h) PROVE Confined
  <2>1. UNCHANGED <<starts, fboot, sfile, sback, reboot_mode, reboot_keypath, status, cuts>> /\ (UNCHANGED faults \/ Fails)
    BY <1>10 DEF DoLimits, reboots, flash, history
  <2> QED
    BY <2>1
<1>11. ASSUME NEW h \in Threads, ForkTestcase(h) PROVE Confined
  <2>1. UNCHANGED <<fboot, sfile, sback, reboot_mode, reboot_keypath, status, cuts>> /\ (UNCHANGED faults \/ Fails)
    BY <1>11 DEF ForkTestcase, tasks, reboots, flash
  <2> QED
    BY <1>11, <2>1
<1>12. ASSUME NEW h \in Threads, RecordPid(h) PROVE Confined
  <2>1. UNCHANGED <<starts, fboot, sfile, sback, reboot_mode, reboot_keypath, status, cuts, faults>>
    BY <1>12 DEF RecordPid, reboots, flash, bounds, history, Leave
  <2> QED
    BY <2>1
<1>13. ASSUME NEW h \in Threads, UnlockTask(h) PROVE Confined
  <2>1. UNCHANGED <<starts, fboot, sfile, sback, reboot_mode, reboot_keypath, status, cuts, faults>>
    BY <1>13 DEF UnlockTask, rest, tasks, reboots, flash, bounds, history
  <2> QED
    BY <2>1
<1>14. CASE ListTop
  <2>1. UNCHANGED <<starts, fboot, sfile, sback, reboot_mode, reboot_keypath, status, cuts, faults>>
    BY <1>14 DEF ListTop, rest, tasks, reboots, flash, bounds, history
  <2> QED
    BY <2>1
<1>15. CASE WAIT_CHILD
  <2>1. UNCHANGED <<starts, fboot, sfile, sback, reboot_mode, reboot_keypath, status, cuts, faults>>
    BY <1>15 DEF WAIT_CHILD, tasks, reboots, flash, bounds, history
  <2> QED
    BY <2>1
<1>16. CASE BeginTask
  <2>1. /\ UNCHANGED <<starts, fboot, sfile, sback, reboot_mode, reboot_keypath, cuts, faults>>
        /\ \E s \in {"RUN", "END"} : status' = [status EXCEPT ![cur] = s]
    BY <1>16 DEF BeginTask, reboots, flash, bounds, history
  <2> QED
    BY <2>1 DEF TaskTypes
<1>17. CASE TaskStarted
  <2>1. UNCHANGED <<starts, fboot, sfile, sback, reboot_mode, reboot_keypath, status, cuts, faults>>
    BY <1>17 DEF TaskStarted, tasks, reboots, flash, bounds, history
  <2> QED
    BY <2>1
<1>18. CASE TaskFailed
  <2>1. /\ UNCHANGED <<starts, fboot, sfile, sback, reboot_mode, reboot_keypath, cuts, faults>>
        /\ status' = [status EXCEPT ![cur] = "END"]
    BY <1>18 DEF TaskFailed, reboots, flash, bounds, history
  <2> QED
    BY <2>1 DEF TaskTypes
<1>19. CASE WaitAlone
  <2>1. UNCHANGED <<starts, fboot, sfile, sback, reboot_mode, reboot_keypath, status, cuts, faults>>
    BY <1>19 DEF WaitAlone, rest, tasks, reboots, flash, bounds, history, NextTask
  <2> QED
    BY <2>1
<1>20. CASE task_quit_clean
  <2>1. UNCHANGED <<starts, fboot, sfile, sback, reboot_mode, reboot_keypath, status, cuts, faults>>
    BY <1>20 DEF task_quit_clean, rest, tasks, reboots, flash, bounds, history
  <2> QED
    BY <2>1
<1>21. CASE RecycleTop
  <2>1. UNCHANGED <<starts, fboot, sfile, sback, reboot_mode, reboot_keypath, status, cuts, faults>>
    BY <1>21 DEF RecycleTop, rest, tasks, reboots, flash, bounds, history
  <2> QED
    BY <2>1
<1>22. CASE wait4
  <2>1. UNCHANGED <<starts, fboot, sfile, sback, reboot_mode, reboot_keypath, status, cuts, faults>>
    BY <1>22 DEF wait4, tasks, reboots, flash, bounds, history
  <2> QED
    BY <2>1
<1>23. CASE MatchLeader
  <2>1. UNCHANGED <<starts, fboot, sfile, sback, reboot_mode, reboot_keypath, status, cuts, faults>>
    BY <1>23 DEF MatchLeader, reboots, flash, bounds, history
  <2> QED
    BY <2>1
<1>24. CASE task_recycle_once
  <2>1. UNCHANGED <<starts, fboot, sfile, sback, reboot_mode, reboot_keypath, status, cuts, faults>>
    BY <1>24 DEF task_recycle_once, reboots, flash, bounds, history
  <2> QED
    BY <2>1
<1>25. CASE NoMatch
  <2>1. UNCHANGED <<starts, fboot, sfile, sback, reboot_mode, reboot_keypath, status, cuts, faults>>
    BY <1>25 DEF NoMatch, tasks, reboots, flash, bounds, history
  <2> QED
    BY <2>1
<1>26. CASE task_check_end
  <2>1. UNCHANGED <<starts, fboot, sfile, sback, reboot_mode, reboot_keypath, status, cuts, faults>>
    BY <1>26 DEF task_check_end, rest, tasks, reboots, flash, bounds, history
  <2> QED
    BY <2>1
<1>27. CASE Again
  <2>1. UNCHANGED <<starts, fboot, sfile, sback, reboot_mode, reboot_keypath, status, cuts, faults>>
    BY <1>27 DEF Again, rest, tasks, reboots, flash, bounds, history
  <2> QED
    BY <2>1
<1>28. ASSUME NEW t \in Tasks, OnceLimit(t) PROVE Confined
  <2>1. UNCHANGED <<starts, fboot, sfile, sback, reboot_mode, reboot_keypath, status, cuts, faults>>
    BY <1>28 DEF OnceLimit, tasks, reboots, flash, bounds, history
  <2> QED
    BY <2>1
<1>29. ASSUME NEW t \in Tasks, WholeLimit(t) PROVE Confined
  <2>1. UNCHANGED <<starts, fboot, sfile, sback, reboot_mode, reboot_keypath, status, cuts, faults>>
    BY <1>29 DEF WholeLimit, reboots, flash, bounds, history
  <2> QED
    BY <2>1
<1>30. ASSUME NEW t \in Tasks, NEW k \in Slots, Exit(t, k) PROVE Confined
  <2>1. UNCHANGED <<starts, fboot, sfile, sback, reboot_mode, reboot_keypath, status, cuts, faults>>
    BY <1>30 DEF Exit, tasks, reboots, flash, bounds, history
  <2> QED
    BY <2>1
<1>31. CASE task_signal_quit
  <2>1. UNCHANGED <<starts, fboot, sfile, sback, reboot_mode, reboot_keypath, status, cuts, faults>>
    BY <1>31 DEF task_signal_quit, tasks, reboots, flash, bounds, history
  <2> QED
    BY <2>1
<1>32. CASE PowerOff
  <2>1. UNCHANGED <<starts, fboot, sfile, reboot_mode, reboot_keypath, status, faults>>
    BY <1>32 DEF PowerOff, tasks, reboots, flash, history
  <2> QED
    BY <1>32, <2>1
<1>33. CASE task_recover_after_reboot
  BY <1>33
<1>34. CASE Stopped \/ UNCHANGED vars
  <2>1. UNCHANGED <<starts, fboot, sfile, sback, reboot_mode, reboot_keypath, status, cuts, faults>>
    BY <1>34 DEF Stopped, vars
  <2> QED
    BY <2>1
<1>35. CASE task_do_crash
  <2>1. UNCHANGED <<starts, fboot, sfile, sback, reboot_mode, reboot_keypath, status, cuts>> /\ (UNCHANGED faults \/ Fails)
    BY <1>35 DEF task_do_crash, tasks, reboots, flash, history
  <2> QED
    BY <1>35, <2>1
<1> QED
  BY <1>1, <1>2, <1>3, <1>4, <1>5, <1>6, <1>7, <1>8, <1>9, <1>10, <1>11, <1>12, <1>13, <1>14,
     <1>15, <1>16, <1>17, <1>18, <1>19, <1>20, <1>21, <1>22, <1>23, <1>24, <1>25, <1>26, <1>27,
     <1>28, <1>29, <1>30, <1>31, <1>32, <1>33, <1>34, <1>35
  DEF Next, Main, Recycler, Thread, task_begin, task_recycle, task_do, task_recycle_end, Threads,
      Recycle

\* A flag that tells a test case to quit is set for a reason, and not taken back.
Flagged ==
  /\ \A u \in Tasks : /\ quit[u] => quit'[u]
                      /\ quit'[u] => quit[u] \/ Env[u].exit_once_failed \/ Env[u].whole_limit
  /\ ttquit => ttquit'
  /\ ttquit' => ttquit \/ Signals

\* A step other than a boot sets the flags so.
LEMMA StepsFlagged ==
  ASSUME FlagTypes, ~task_recover_after_reboot, [Next]_vars
  PROVE  Flagged
<1> USE TinaAssumption DEF Flagged
<1>1. ASSUME NEW h \in Threads, KillLimits(h) PROVE Flagged
  <2>1. UNCHANGED <<quit, ttquit>>
    BY <1>1 DEF KillLimits, tasks
  <2> QED
    BY <2>1
<1>2. ASSUME NEW h \in Threads, task_clean_reboot(h) PROVE Flagged
  <2>1. UNCHANGED <<quit, ttquit>>
    BY <1>2 DEF task_clean_reboot, tasks
  <2> QED
    BY <2>1
<1>3. ASSUME NEW h \in Threads, CountEnd(h) PROVE Flagged
  <2>1. UNCHANGED <<quit, ttquit>>
    BY <1>3 DEF CountEnd, tasks
  <2> QED
    BY <2>1
<1>4. ASSUME NEW h \in Threads, TELL_PARENT(h) PROVE Flagged
  <2>1. UNCHANGED <<quit, ttquit>>
    BY <1>4 DEF TELL_PARENT
  <2> QED
    BY <2>1
<1>5. ASSUME NEW h \in Threads, LockTask(h) PROVE Flagged
  <2>1. UNCHANGED <<quit, ttquit>>
    BY <1>5 DEF LockTask, rest, tasks
  <2> QED
    BY <2>1
<1>6. ASSUME NEW h \in Threads, task_init_reboot_mode(h) PROVE Flagged
  <2>1. UNCHANGED <<quit, ttquit>>
    BY <1>6 DEF task_init_reboot_mode, Leave
  <2> QED
    BY <2>1
<1>7. ASSUME NEW h \in Threads, task_create_reboot_status(h) PROVE Flagged
  <2>1. UNCHANGED <<quit, ttquit>>
    BY <1>7 DEF task_create_reboot_status, tasks, Leave
  <2> QED
    BY <2>1
<1>8. ASSUME NEW h \in Threads, LastTimes(h) PROVE Flagged
  <2>1. UNCHANGED <<quit, ttquit>>
    BY <1>8 DEF LastTimes, rest, tasks
  <2> QED
    BY <2>1
<1>9. ASSUME NEW h \in Threads, LastSub(h) PROVE Flagged
  <2>1. UNCHANGED <<quit, ttquit>>
    BY <1>9 DEF LastSub, tasks, Leave
  <2> QED
    BY <2>1
<1>10. ASSUME NEW h \in Threads, DoLimits(h) PROVE Flagged
  <2>1. UNCHANGED <<quit, ttquit>>
    BY <1>10 DEF DoLimits, Leave
  <2> QED
    BY <2>1
<1>11. ASSUME NEW h \in Threads, ForkTestcase(h) PROVE Flagged
  <2>1. UNCHANGED <<quit, ttquit>>
    BY <1>11 DEF ForkTestcase, tasks, Leave
  <2> QED
    BY <2>1
<1>12. ASSUME NEW h \in Threads, RecordPid(h) PROVE Flagged
  <2>1. UNCHANGED <<quit, ttquit>>
    BY <1>12 DEF RecordPid, Leave
  <2> QED
    BY <2>1
<1>13. ASSUME NEW h \in Threads, UnlockTask(h) PROVE Flagged
  <2>1. UNCHANGED <<quit, ttquit>>
    BY <1>13 DEF UnlockTask, rest, tasks
  <2> QED
    BY <2>1
<1>14. CASE ListTop
  <2>1. UNCHANGED <<quit, ttquit>>
    BY <1>14 DEF ListTop, rest, tasks
  <2> QED
    BY <2>1
<1>15. CASE WAIT_CHILD
  <2>1. UNCHANGED <<quit, ttquit>>
    BY <1>15 DEF WAIT_CHILD, tasks
  <2> QED
    BY <2>1
<1>16. CASE BeginTask
  <2>1. UNCHANGED <<quit, ttquit>>
    BY <1>16 DEF BeginTask, NextTask
  <2> QED
    BY <2>1
<1>17. CASE TaskStarted
  <2>1. UNCHANGED <<quit, ttquit>>
    BY <1>17 DEF TaskStarted, tasks
  <2> QED
    BY <2>1
<1>18. CASE TaskFailed
  <2>1. UNCHANGED <<quit, ttquit>>
    BY <1>18 DEF TaskFailed, NextTask
  <2> QED
    BY <2>1
<1>19. CASE WaitAlone
  <2>1. UNCHANGED <<quit, ttquit>>
    BY <1>19 DEF WaitAlone, rest, tasks, NextTask
  <2> QED
    BY <2>1
<1>20. CASE task_quit_clean
  <2>1. UNCHANGED <<quit, ttquit>>
    BY <1>20 DEF task_quit_clean, rest, tasks
  <2> QED
    BY <2>1
<1>21. CASE RecycleTop
  <2>1. UNCHANGED <<quit, ttquit>>
    BY <1>21 DEF RecycleTop, rest, tasks
  <2> QED
    BY <2>1
<1>22. CASE wait4
  <2>1. UNCHANGED <<quit, ttquit>>
    BY <1>22 DEF wait4, tasks
  <2> QED
    BY <2>1
<1>23. CASE MatchLeader
  <2>1. UNCHANGED <<quit, ttquit>>
    BY <1>23 DEF MatchLeader
  <2> QED
    BY <2>1
<1>24. CASE task_recycle_once
  <2>1. UNCHANGED ttquit
    BY <1>24 DEF task_recycle_once
  <2>2. quit' = [quit EXCEPT ![got[1]] = @ \/ (Bad(got[1], got[3]) /\ Env[got[1]].exit_once_failed)]
    BY <1>24 DEF task_recycle_once
  <2>3. \A u \in Tasks : /\ u # got[1] => quit'[u] = quit[u]
                         /\ u = got[1] => quit'[u] = (quit[u] \/ (Bad(u, got[3]) /\ Env[u].exit_once_failed))
    BY <2>2 DEF FlagTypes
  <2> QED
    BY <2>1, <2>3
<1>25. CASE NoMatch
  <2>1. UNCHANGED <<quit, ttquit>>
    BY <1>25 DEF NoMatch, tasks
  <2> QED
    BY <2>1
<1>26. CASE task_check_end
  <2>1. UNCHANGED <<quit, ttquit>>
    BY <1>26 DEF task_check_end, rest, tasks
  <2> QED
    BY <2>1
<1>27. CASE Again
  <2>1. UNCHANGED <<quit, ttquit>>
    BY <1>27 DEF Again, rest, tasks
  <2> QED
    BY <2>1
<1>28. ASSUME NEW t \in Tasks, OnceLimit(t) PROVE Flagged
  <2>1. UNCHANGED <<quit, ttquit>>
    BY <1>28 DEF OnceLimit, tasks
  <2> QED
    BY <2>1
<1>29. ASSUME NEW t \in Tasks, WholeLimit(t) PROVE Flagged
  <2>1. UNCHANGED ttquit /\ Env[t].whole_limit /\ (UNCHANGED quit \/ quit' = [quit EXCEPT ![t] = TRUE])
    BY <1>29 DEF WholeLimit
  <2> QED
    BY <2>1 DEF FlagTypes
<1>30. ASSUME NEW t \in Tasks, NEW k \in Slots, Exit(t, k) PROVE Flagged
  <2>1. UNCHANGED <<quit, ttquit>>
    BY <1>30 DEF Exit, tasks
  <2> QED
    BY <2>1
<1>31. CASE task_signal_quit
  <2>1. UNCHANGED quit /\ Signals /\ ttquit' = TRUE
    BY <1>31 DEF task_signal_quit, tasks
  <2> QED
    BY <2>1
<1>32. CASE PowerOff
  <2>1. UNCHANGED <<quit, ttquit>>
    BY <1>32 DEF PowerOff, tasks
  <2> QED
    BY <2>1
<1>33. CASE task_recover_after_reboot
  BY <1>33
<1>34. CASE Stopped \/ UNCHANGED vars
  <2>1. UNCHANGED <<quit, ttquit>>
    BY <1>34 DEF Stopped, vars
  <2> QED
    BY <2>1
<1>35. CASE task_do_crash
  <2>1. UNCHANGED <<quit, ttquit>>
    BY <1>35 DEF task_do_crash, tasks
  <2> QED
    BY <2>1
<1> QED
  BY <1>1, <1>2, <1>3, <1>4, <1>5, <1>6, <1>7, <1>8, <1>9, <1>10, <1>11, <1>12, <1>13, <1>14,
     <1>15, <1>16, <1>17, <1>18, <1>19, <1>20, <1>21, <1>22, <1>23, <1>24, <1>25, <1>26, <1>27,
     <1>28, <1>29, <1>30, <1>31, <1>32, <1>33, <1>34, <1>35
  DEF Next, Main, Recycler, Thread, task_begin, task_recycle, task_do, task_recycle_end, Threads,
      Recycle

\* The number of runs tinatest knows of: after a boot, until task_do takes it up, it is
\* the one read from the status file.
Pending(t) ==
  /\ reboot_mode /\ t = reboot_keypath
  /\ status[t] = "WAIT" \/ (cur = t /\ pc["main"] \in {"lock", "reboot"})

RunsKnown(t) == IF Pending(t) THEN reboot_run_times ELSE run_times[t]

\* A thread has forked a run it has not yet recorded.
Unrecorded(t) == \E h \in Threads : T(h) = t /\ pc[h] = "record"

\* How far the starts fall short of what tinatest knows.
Behind(t) == RunsKnown(t) + (IF Unrecorded(t) THEN 1 ELSE 0) - starts[t]

\* The test cases of which tinatest keeps account: not what has ended, nor what a
\* boot finds before the test case of the boot script.
Tracked(t) == tool # "failed" /\ status[t] # "END" /\ ~(reboot_mode /\ t < reboot_keypath)

\* Behind, when neither its counts nor the places of the threads change for the task.
LEMMA BehindStays ==
  ASSUME NEW u \in Tasks, Tracked(u)', tool # "failed",
         UNCHANGED <<starts, run_times, reboot_mode, reboot_keypath, reboot_run_times>>,
         status'[u] = status[u],
         cur' = u /\ pc'["main"] \in {"lock", "reboot"} <=> cur = u /\ pc["main"] \in {"lock", "reboot"},
         cur' = u /\ pc'["main"] = "record" <=> cur = u /\ pc["main"] = "record",
         tsk' = u /\ pc'[Recycle] = "record" <=> tsk = u /\ pc[Recycle] = "record"
  PROVE  Tracked(u) /\ Behind(u)' = Behind(u)
<1>1. Tracked(u)
  BY DEF Tracked
<1>2. Pending(u)' <=> Pending(u)
  BY DEF Pending
<1>3. Unrecorded(u)' <=> Unrecorded(u)
  BY DEF Unrecorded, T, Threads, Recycle
<1> QED
  BY <1>1, <1>2, <1>3 DEF Behind, RunsKnown

\* In reboot mode no call has failed, and the recycle thread has nothing that may reboot.
Orderly == reboot_mode => faults = 0 /\ Undying

\* Of a test case of which tinatest keeps account a step other than a boot changes the
\* starts and what is known of them together.
LEMMA BehindKept ==
  ASSUME RunType, FlagTypes, TaskTypes, Meet, Shape, FromTheFirst, HandRuns, Rebooted, Orderly,
         reboot_mode => faults' = 0, starts \in [Tasks -> Nat], ~task_recover_after_reboot,
         NEW u \in Tasks, Tracked(u)', [Next]_vars
  PROVE  Tracked(u) /\ Behind(u)' = Behind(u)
<1> USE TinaAssumption DEF Recycle
<1>b. tool # "failed"
  BY Halted DEF Tracked, vars
<1>c. DOMAIN pc = {"main", "recycle"}
  BY DEF RunType, Threads
<1>1. ASSUME NEW h \in Threads, KillLimits(h) PROVE Tracked(u) /\ Behind(u)' = Behind(u)
  <2>1. /\ UNCHANGED <<starts, run_times, reboot_mode, reboot_keypath, reboot_run_times, status, cur, tsk>>
        /\ pc[h] = "kill"
        /\ \E p \in {"clean", "sub"} : pc' = [pc EXCEPT ![h] = p]
    BY <1>1 DEF KillLimits, tasks, reboots, history, others, local, At, Goto
  <2> QED
    BY <2>1, <1>b, <1>c, BehindStays
<1>2. ASSUME NEW h \in Threads, task_clean_reboot(h) PROVE Tracked(u) /\ Behind(u)' = Behind(u)
  <2>1. /\ UNCHANGED <<starts, run_times, status, cur, tsk>> /\ pc[h] = "clean"
        /\ reboot_mode' = FALSE /\ pc' = [pc EXCEPT ![h] = "tell"]
    BY <1>2 DEF task_clean_reboot, tasks, history, others, local, At, Goto
  <2>2. h = "main" /\ reboot_mode /\ Env[cur].may_reboot
    BY <2>1, NoneInHand DEF HandRuns, FromTheFirst, Hands, Ending, Threads, Orderly, Recycle
  <2>3. cur \in Tasks /\ status[cur] = "RUN"
    BY <2>1, <2>2 DEF RunType, Shape
  <2>4. cur = reboot_keypath
    BY <2>2, <2>3 DEF Rebooted
  <2>5. ~(u < cur)
    <3> SUFFICES ASSUME u < cur PROVE FALSE
      OBVIOUS
    <3>1. status[u] # "WAIT" /\ status[u] # "END"
      BY <2>1 DEF Shape, Tracked
    <3>2. u = cur
      BY <2>2, <2>4, <3>1 DEF Rebooted, TaskTypes
    <3> QED
      BY <3>2 DEF Tasks
  <2>6. Tracked(u)
    BY <1>b, <2>1, <2>4, <2>5 DEF Tracked
  <2>7. ~Pending(u) /\ ~Pending(u)'
    BY <2>1, <2>2, <2>3, <2>4 DEF Pending
  <2>8. Unrecorded(u)' <=> Unrecorded(u)
    BY <1>c, <2>1 DEF Unrecorded, T, Threads
  <2> QED
    BY <2>1, <2>6, <2>7, <2>8 DEF Behind, RunsKnown
<1>3. ASSUME NEW h \in Threads, CountEnd(h) PROVE Tracked(u) /\ Behind(u)' = Behind(u)
  <2>1. /\ UNCHANGED <<starts, run_times, reboot_mode, reboot_keypath, reboot_run_times, status, cur, tsk>>
        /\ pc[h] = "sub"
        /\ pc' = [pc EXCEPT ![h] = "tell"]
    BY <1>3 DEF CountEnd, tasks, reboots, history, others, local, At, Goto
  <2> QED
    BY <2>1, <1>b, <1>c, BehindStays
<1>4. ASSUME NEW h \in Threads, TELL_PARENT(h) PROVE Tracked(u) /\ Behind(u)' = Behind(u)
  <2>1. /\ UNCHANGED <<starts, run_times, reboot_mode, reboot_keypath, reboot_run_times, cur, tsk>>
        /\ pc[h] = "tell" /\ \E p \in {"lastsub", "again"} : pc' = [pc EXCEPT ![h] = p]
        /\ status' = [status EXCEPT ![T(h)] = "END"]
    BY <1>4 DEF TELL_PARENT, reboots, history, others, local, At, Goto
  <2>2. status'[u] = status[u]
    BY <2>1 DEF TaskTypes, Tracked
  <2> QED
    BY <1>b, <1>c, <2>1, <2>2, BehindStays
<1>5. ASSUME NEW h \in Threads, LockTask(h) PROVE Tracked(u) /\ Behind(u)' = Behind(u)
  <2>1. /\ UNCHANGED <<starts, run_times, reboot_mode, reboot_keypath, reboot_run_times, status, cur, tsk>>
        /\ pc[h] = "lock" /\ pc' = [pc EXCEPT ![h] = IF Env[T(h)].may_reboot THEN "reboot" ELSE "last"]
    BY <1>5 DEF LockTask, rest, tasks, reboots, history, At, Goto
  <2>2. CASE h = "main" /\ reboot_mode
    <3>1. cur \in Tasks /\ status[cur] = "RUN"
      BY <2>1, <2>2 DEF RunType, Shape, Doing
    <3>2. Env[cur].may_reboot
      BY <2>2, <3>1 DEF Rebooted
    <3>3. pc' = [pc EXCEPT !["main"] = "reboot"]
      BY <2>1, <2>2, <3>2 DEF T
    <3> QED
      BY <1>b, <1>c, <2>1, <2>2, <3>3, BehindStays
  <2>3. CASE h = "main" /\ ~reboot_mode
    <3>1. Tracked(u)
      BY <1>b, <2>1 DEF Tracked
    <3>2. ~Pending(u) /\ ~Pending(u)'
      BY <2>1, <2>3 DEF Pending
    <3>3. Unrecorded(u)' <=> Unrecorded(u)
      BY <1>c, <2>1 DEF Unrecorded, T, Threads
    <3> QED
      BY <2>1, <3>1, <3>2, <3>3 DEF Behind, RunsKnown
  <2>4. CASE h = Recycle
    BY <1>b, <1>c, <2>1, <2>4, BehindStays
  <2> QED
    BY <2>2, <2>3, <2>4 DEF Threads
<1>6. ASSUME NEW h \in Threads, task_init_reboot_mode(h) PROVE Tracked(u) /\ Behind(u)' = Behind(u)
  <2>1. /\ UNCHANGED <<starts, reboot_mode, status, cur, tsk>> /\ pc[h] = "reboot"
        /\ \E p \in {"status", "unlock"} : pc' = [pc EXCEPT ![h] = p]
        /\ reboot_mode => /\ run_times' = [run_times EXCEPT ![T(h)] = reboot_run_times]
                          /\ UNCHANGED <<reboot_keypath, reboot_run_times>>
        /\ ~reboot_mode => UNCHANGED run_times
    BY <1>6 DEF task_init_reboot_mode, reboots, history, ResumeAt, Leave, At, Goto
  <2>2. Unrecorded(u)' <=> Unrecorded(u)
    BY <1>c, <2>1 DEF Unrecorded, T, Threads
  <2>3. CASE ~reboot_mode
    <3>1. ~Pending(u) /\ ~Pending(u)' /\ Tracked(u)
      BY <1>b, <2>1, <2>3 DEF Pending, Tracked
    <3> QED
      BY <2>1, <2>2, <2>3, <3>1 DEF Behind, RunsKnown
  <2>4. CASE reboot_mode
    <3>1. h = "main"
      BY <2>1, <2>4, NoneInHand DEF HandRuns, Hands, Doing, Threads, Orderly, Recycle
    <3>2. cur \in Tasks /\ status[cur] = "RUN"
      BY <2>1, <3>1 DEF RunType, Shape, Doing
    <3>3. cur = reboot_keypath
      BY <2>4, <3>2 DEF Rebooted
    <3>4. Tracked(u)
      BY <1>b, <2>1, <2>4 DEF Tracked
    <3>5. CASE u = cur
      <4>1. Pending(u) /\ ~Pending(u)'
        BY <1>c, <2>1, <2>4, <3>1, <3>2, <3>3, <3>5 DEF Pending
      <4>2. run_times'[u] = reboot_run_times
        BY <2>1, <2>4, <3>1, <3>2, <3>5 DEF RunType, T
      <4> QED
        BY <2>1, <2>2, <3>4, <4>1, <4>2 DEF Behind, RunsKnown
    <3>6. CASE u # cur
      <4>1. ~Pending(u) /\ ~Pending(u)'
        BY <2>1, <2>4, <3>3, <3>6 DEF Pending
      <4>2. run_times'[u] = run_times[u]
        BY <2>1, <2>4, <3>1, <3>6 DEF RunType, T
      <4> QED
        BY <2>1, <2>2, <3>4, <4>1, <4>2 DEF Behind, RunsKnown
    <3> QED
      BY <3>5, <3>6
  <2> QED
    BY <2>3, <2>4
<1>7. ASSUME NEW h \in Threads, task_create_reboot_status(h) PROVE Tracked(u) /\ Behind(u)' = Behind(u)
  <2>1. /\ UNCHANGED <<starts, run_times, reboot_keypath, reboot_run_times, status, cur, tsk>>
        /\ pc[h] \in {"status", "fill"}
        /\ \E p \in {"fill", "last", "unlock"} : pc' = [pc EXCEPT ![h] = p]
        /\ UNCHANGED reboot_mode \/ (reboot_mode' = FALSE /\ faults' = faults + 1)
    BY <1>7 DEF task_create_reboot_status, tasks, history, Leave, Fails, At, Goto
  <2>2. UNCHANGED reboot_mode
    <3>1. CASE reboot_mode
      <4>1. faults' # faults + 1
        BY <3>1 DEF Orderly
      <4> QED
        BY <2>1, <4>1
    <3>2. CASE ~reboot_mode
      BY <2>1, <3>2 DEF FlagTypes
    <3> QED
      BY <3>1, <3>2
  <2> QED
    BY <1>b, <1>c, <2>1, <2>2, BehindStays
<1>8. ASSUME NEW h \in Threads, LastTimes(h) PROVE Tracked(u) /\ Behind(u)' = Behind(u)
  <2>1. /\ UNCHANGED <<starts, run_times, reboot_mode, reboot_keypath, reboot_run_times, status, cur, tsk>>
        /\ pc[h] = "last"
        /\ \E p \in {"limits", "kill", "lastsub"} : pc' = [pc EXCEPT ![h] = p]
    BY <1>8 DEF LastTimes, others, local, rest, tasks, reboots, history, At, Goto
  <2> QED
    BY <2>1, <1>b, <1>c, BehindStays
<1>9. ASSUME NEW h \in Threads, LastSub(h) PROVE Tracked(u) /\ Behind(u)' = Behind(u)
  <2>1. /\ UNCHANGED <<starts, run_times, reboot_mode, reboot_keypath, reboot_run_times, status, cur, tsk>>
        /\ pc[h] = "lastsub"
        /\ pc' = [pc EXCEPT ![h] = "unlock"]
    BY <1>9 DEF LastSub, tasks, reboots, history, Leave, At, Goto
  <2> QED
    BY <2>1, <1>b, <1>c, BehindStays
<1>10. ASSUME NEW h \in Threads, DoLimits(h) PROVE Tracked(u) /\ Behind(u)' = Behind(u)
  <2>1. /\ UNCHANGED <<starts, run_times, reboot_mode, reboot_keypath, reboot_run_times, status, cur, tsk>>
        /\ pc[h] = "limits"
        /\ \E p \in {"fork", "unlock"} : pc' = [pc EXCEPT ![h] = p]
    BY <1>10 DEF DoLimits, reboots, history, Leave, At, Goto
  <2> QED
    BY <2>1, <1>b, <1>c, BehindStays
<1>11. ASSUME NEW h \in Threads, ForkTestcase(h) PROVE Tracked(u) /\ Behind(u)' = Behind(u)
  <2>1. /\ UNCHANGED <<run_times, reboot_mode, reboot_keypath, reboot_run_times, status, cur, tsk>>
        /\ pc[h] = "fork" /\ T(h) \in Tasks
        /\ \/ pc' = [pc EXCEPT ![h] = "record"] /\ starts' = [starts EXCEPT ![T(h)] = @ + 1]
           \/ pc' = [pc EXCEPT ![h] = "unlock"] /\ UNCHANGED starts
    BY <1>11 DEF ForkTestcase, tasks, reboots, Leave, T, RunType, At, Goto
  <2>2. CASE UNCHANGED starts /\ pc' = [pc EXCEPT ![h] = "unlock"]
    BY <1>b, <1>c, <2>1, <2>2, BehindStays
  <2>3. CASE pc' = [pc EXCEPT ![h] = "record"] /\ starts' = [starts EXCEPT ![T(h)] = @ + 1]
    <3>1. Tracked(u) /\ (Pending(u)' <=> Pending(u))
      BY <1>b, <1>c, <2>1, <2>3 DEF Tracked, Pending
    <3>2. CASE u = T(h)
      <4>1. Unrecorded(u)'
        BY <1>c, <2>1, <2>3, <3>2 DEF Unrecorded, T, Threads
      <4>2. ~Unrecorded(u)
        BY <2>1, <3>2, TinaAssumption DEF Unrecorded, T, Threads, Meet, HandRuns, Hands, Doing
      <4>3. starts'[u] = starts[u] + 1 /\ starts[u] \in Int /\ RunsKnown(u) \in Int
        BY <2>3, <3>2 DEF RunsKnown, RunType
      <4>4. RunsKnown(u)' = RunsKnown(u)
        BY <2>1, <3>1 DEF RunsKnown
      <4> QED
        BY <3>1, <4>1, <4>2, <4>3, <4>4 DEF Behind
    <3>3. CASE u # T(h)
      <4>1. Unrecorded(u)' <=> Unrecorded(u)
        BY <1>c, <2>1, <2>3, <3>3 DEF Unrecorded, T, Threads
      <4>2. starts'[u] = starts[u]
        BY <2>3, <3>3
      <4> QED
        BY <2>1, <3>1, <4>1, <4>2 DEF Behind, RunsKnown
    <3> QED
      BY <3>2, <3>3
  <2> QED
    BY <2>1, <2>2, <2>3
<1>12. ASSUME NEW h \in Threads, RecordPid(h) PROVE Tracked(u) /\ Behind(u)' = Behind(u)
  <2>1. /\ UNCHANGED <<starts, reboot_mode, reboot_keypath, reboot_run_times, status, cur, tsk>>
        /\ pc[h] = "record" /\ \E p \in {"fork", "unlock"} : pc' = [pc EXCEPT ![h] = p]
        /\ run_times' = [run_times EXCEPT ![T(h)] = @ + 1]
    BY <1>12 DEF RecordPid, reboots, history, Leave, At, Goto
  <2>2. T(h) \in Tasks /\ status[T(h)] = "RUN"
    BY <2>1 DEF T, RunType, Shape, HandRuns, Doing, Threads, Recycle
  <2>3. Tracked(u) /\ (Pending(u)' <=> Pending(u))
    BY <1>b, <1>c, <2>1 DEF Tracked, Pending
  <2>4. CASE u = T(h)
    <3>1. ~Unrecorded(u)' /\ Unrecorded(u) /\ ~Pending(u)
      <4>1. CASE h = "main"
        <5>1. ~(tsk = u /\ pc[Recycle] = "record")
          BY <2>1, <2>4, <4>1 DEF Meet, Hands, Doing, T
        <5> QED
          BY <1>c, <2>1, <2>2, <2>4, <4>1, <5>1 DEF Unrecorded, Pending, T, Threads
      <4>2. CASE h = Recycle
        <5>1. ~(cur = u /\ pc["main"] \in {"lock", "reboot", "record"})
          BY <2>1, <2>4, <4>2 DEF Meet, HandRuns, Hands, Doing, T
        <5> QED
          BY <1>c, <2>1, <2>2, <2>4, <4>2, <5>1 DEF Unrecorded, Pending, T, Threads
      <4> QED
        BY <4>1, <4>2 DEF Threads
    <3>2. run_times'[u] = run_times[u] + 1 /\ run_times[u] \in Int
      BY <2>1, <2>4 DEF RunType
    <3>3. starts[u] \in Int
      OBVIOUS
    <3> QED
      BY <2>1, <2>3, <3>1, <3>2, <3>3 DEF Behind, RunsKnown
  <2>5. CASE u # T(h)
    <3>1. Unrecorded(u)' <=> Unrecorded(u)
      BY <1>c, <2>1, <2>5 DEF Unrecorded, T, Threads
    <3>2. run_times'[u] = run_times[u]
      BY <2>1, <2>5 DEF RunType
    <3> QED
      BY <2>1, <2>3, <3>1, <3>2 DEF Behind, RunsKnown
  <2> QED
    BY <2>4, <2>5
<1>13. ASSUME NEW h \in Threads, UnlockTask(h) PROVE Tracked(u) /\ Behind(u)' = Behind(u)
  <2>1. /\ UNCHANGED <<starts, run_times, reboot_mode, reboot_keypath, reboot_run_times, status, cur, tsk>>
        /\ pc[h] = "unlock"
        /\ \E p \in {"again", "started", "failed"} : pc' = [pc EXCEPT ![h] = p]
    BY <1>13 DEF UnlockTask, rest, tasks, reboots, history, At, Goto
  <2> QED
    BY <2>1, <1>b, <1>c, BehindStays
<1>14. CASE ListTop
  <2>1. /\ UNCHANGED <<starts, run_times, reboot_mode, reboot_keypath, reboot_run_times, status, cur, tsk>>
        /\ pc["main"] = "list"
        /\ \E p \in {"join", "wait", "alone"} : pc' = [pc EXCEPT !["main"] = p]
    BY <1>14 DEF ListTop, others, local, rest, tasks, reboots, history, At, Goto
  <2> QED
    BY <2>1, <1>b, <1>c, BehindStays
<1>15. CASE WAIT_CHILD
  <2>1. /\ UNCHANGED <<starts, run_times, reboot_mode, reboot_keypath, reboot_run_times, status, cur, tsk>>
        /\ pc["main"] = "wait"
        /\ pc' = [pc EXCEPT !["main"] = "list"]
    BY <1>15 DEF WAIT_CHILD, tasks, reboots, history, others, local, At, Goto
  <2> QED
    BY <2>1, <1>b, <1>c, BehindStays
<1>16. CASE BeginTask
  <2>1. /\ UNCHANGED <<starts, run_times, reboot_mode, reboot_keypath, reboot_run_times, tsk>>
        /\ pc["main"] = "alone"
        /\ \/ status' = [status EXCEPT ![cur] = "END"] /\ pc' = [pc EXCEPT !["main"] = "list"]
           \/ status' = [status EXCEPT ![cur] = "RUN"] /\ pc' = [pc EXCEPT !["main"] = "lock"] /\ cur' = cur
    BY <1>16 DEF BeginTask, reboots, history, NextTask, At, Goto
  <2>2. CASE status' = [status EXCEPT ![cur] = "END"] /\ pc' = [pc EXCEPT !["main"] = "list"]
    <3>1. status'[u] = status[u]
      BY <2>2 DEF TaskTypes, Tracked
    <3> QED
      BY <1>b, <1>c, <2>1, <2>2, <3>1, BehindStays
  <2>3. CASE status' = [status EXCEPT ![cur] = "RUN"] /\ pc' = [pc EXCEPT !["main"] = "lock"] /\ cur' = cur
    <3>1. cur \in Tasks /\ status[cur] = "WAIT"
      BY <2>1 DEF RunType, Shape
    <3>2. Pending(u)' <=> Pending(u)
      BY <1>c, <2>1, <2>3, <3>1 DEF Pending, TaskTypes
    <3>3. Tracked(u)
      BY <1>b, <2>1, <2>3, <3>1 DEF Tracked, TaskTypes
    <3>4. Unrecorded(u)' <=> Unrecorded(u)
      BY <1>c, <2>1, <2>3 DEF Unrecorded, T, Threads
    <3> QED
      BY <2>1, <3>2, <3>3, <3>4 DEF Behind, RunsKnown
  <2> QED
    BY <2>1, <2>2, <2>3
<1>17. CASE TaskStarted
  <2>1. /\ UNCHANGED <<starts, run_times, reboot_mode, reboot_keypath, reboot_run_times, status, cur, tsk>>
        /\ pc["main"] = "started"
        /\ pc' = [pc EXCEPT !["main"] = "after"]
    BY <1>17 DEF TaskStarted, tasks, reboots, history, others, local, At, Goto
  <2> QED
    BY <2>1, <1>b, <1>c, BehindStays
<1>18. CASE TaskFailed
  <2>1. /\ UNCHANGED <<starts, run_times, reboot_mode, reboot_keypath, reboot_run_times, tsk>>
        /\ pc["main"] = "failed" /\ pc' = [pc EXCEPT !["main"] = "list"]
        /\ status' = [status EXCEPT ![cur] = "END"]
    BY <1>18 DEF TaskFailed, reboots, history, NextTask, At, Goto
  <2>2. status'[u] = status[u]
    BY <2>1 DEF TaskTypes, Tracked
  <2> QED
    BY <1>b, <1>c, <2>1, <2>2, BehindStays
<1>19. CASE WaitAlone
  <2>1. /\ UNCHANGED <<starts, run_times, reboot_mode, reboot_keypath, reboot_run_times, status, tsk>>
        /\ pc["main"] = "after"
        /\ pc' = [pc EXCEPT !["main"] = "list"]
    BY <1>19 DEF WaitAlone, rest, tasks, reboots, history, NextTask, At, Goto
  <2> QED
    BY <2>1, <1>b, <1>c, BehindStays
<1>20. CASE task_quit_clean
  <2>1. /\ UNCHANGED <<starts, run_times, reboot_mode, reboot_keypath, reboot_run_times, status, cur, tsk, pc>>
        /\ pc["main"] = "join"
    BY <1>20 DEF task_quit_clean, sched, rest, tasks, reboots, history, At, Goto
  <2> QED
    BY <2>1, <1>b, <1>c, BehindStays
<1>21. CASE RecycleTop
  <2>1. /\ UNCHANGED <<starts, run_times, reboot_mode, reboot_keypath, reboot_run_times, status, cur, tsk>>
        /\ pc[Recycle] = "top"
        /\ \E p \in {"exit", "wait4"} : pc' = [pc EXCEPT ![Recycle] = p]
    BY <1>21 DEF RecycleTop, others, local, rest, tasks, reboots, history, At, Goto
  <2> QED
    BY <2>1, <1>b, <1>c, BehindStays
<1>22. CASE wait4
  <2>1. /\ UNCHANGED <<starts, run_times, reboot_mode, reboot_keypath, reboot_run_times, status, cur, tsk>>
        /\ pc[Recycle] = "wait4"
        /\ \E p \in {"match", "top"} : pc' = [pc EXCEPT ![Recycle] = p]
    BY <1>22 DEF wait4, tasks, reboots, history, At, Goto
  <2> QED
    BY <2>1, <1>b, <1>c, BehindStays
<1>23. CASE MatchLeader
  <2>1. /\ UNCHANGED <<starts, run_times, reboot_mode, reboot_keypath, reboot_run_times, status, cur, tsk>>
        /\ pc[Recycle] = "match"
        /\ pc' = [pc EXCEPT ![Recycle] = "top"]
    BY <1>23 DEF MatchLeader, reboots, history, local, At, Goto
  <2> QED
    BY <2>1, <1>b, <1>c, BehindStays
<1>24. CASE task_recycle_once
  <2>1. /\ UNCHANGED <<starts, run_times, reboot_mode, reboot_keypath, reboot_run_times, status, cur>>
        /\ pc[Recycle] = "match"
        /\ pc' = [pc EXCEPT ![Recycle] = "check"]
    BY <1>24 DEF task_recycle_once, reboots, history, At, Goto
  <2> QED
    BY <2>1, <1>b, <1>c, BehindStays
<1>25. CASE NoMatch
  <2>1. /\ UNCHANGED <<starts, run_times, reboot_mode, reboot_keypath, reboot_run_times, status, cur, tsk>>
        /\ pc[Recycle] = "match"
        /\ pc' = [pc EXCEPT ![Recycle] = "top"]
    BY <1>25 DEF NoMatch, tasks, reboots, history, local, At, Goto
  <2> QED
    BY <2>1, <1>b, <1>c, BehindStays
<1>26. CASE task_check_end
  <2>1. /\ UNCHANGED <<starts, run_times, reboot_mode, reboot_keypath, reboot_run_times, status, cur, tsk>>
        /\ pc[Recycle] = "check"
        /\ \E p \in {"kill", "again", "lock"} : pc' = [pc EXCEPT ![Recycle] = p]
    BY <1>26 DEF task_check_end, others, local, rest, tasks, reboots, history, At, Goto
  <2> QED
    BY <2>1, <1>b, <1>c, BehindStays
<1>27. CASE Again
  <2>1. /\ UNCHANGED <<starts, run_times, reboot_mode, reboot_keypath, reboot_run_times, status, cur, tsk>>
        /\ pc[Recycle] = "again"
        /\ \E p \in {"exit", "top"} : pc' = [pc EXCEPT ![Recycle] = p]
    BY <1>27 DEF Again, local, rest, tasks, reboots, history, At, Goto
  <2> QED
    BY <2>1, <1>b, <1>c, BehindStays
<1>28. ASSUME NEW t \in Tasks, OnceLimit(t) PROVE Tracked(u) /\ Behind(u)' = Behind(u)
  <2>1. UNCHANGED <<starts, run_times, reboot_mode, reboot_keypath, reboot_run_times, status, cur, tsk, pc>>
    BY <1>28 DEF OnceLimit, sched, tasks, reboots, history, At, Goto
  <2> QED
    BY <2>1, <1>b, <1>c, BehindStays
<1>29. ASSUME NEW t \in Tasks, WholeLimit(t) PROVE Tracked(u) /\ Behind(u)' = Behind(u)
  <2>1. UNCHANGED <<starts, run_times, reboot_mode, reboot_keypath, reboot_run_times, status, cur, tsk, pc>>
    BY <1>29 DEF WholeLimit, sched, reboots, history, At, Goto
  <2> QED
    BY <2>1, <1>b, <1>c, BehindStays
<1>30. ASSUME NEW t \in Tasks, NEW k \in Slots, Exit(t, k) PROVE Tracked(u) /\ Behind(u)' = Behind(u)
  <2>1. UNCHANGED <<starts, run_times, reboot_mode, reboot_keypath, reboot_run_times, status, cur, tsk, pc>>
    BY <1>30 DEF Exit, sched, tasks, reboots, history, At, Goto
  <2> QED
    BY <2>1, <1>b, <1>c, BehindStays
<1>31. CASE task_signal_quit
  <2>1. UNCHANGED <<starts, run_times, reboot_mode, reboot_keypath, reboot_run_times, status, cur, tsk, pc>>
    BY <1>31 DEF task_signal_quit, sched, tasks, reboots, history, At, Goto
  <2> QED
    BY <2>1, <1>b, <1>c, BehindStays
<1>32. CASE PowerOff
  <2>1. UNCHANGED <<starts, run_times, reboot_mode, reboot_keypath, reboot_run_times, status, cur, tsk, pc>>
    BY <1>32 DEF PowerOff, sched, tasks, reboots, history, At, Goto
  <2> QED
    BY <2>1, <1>b, <1>c, BehindStays
<1>33. CASE task_recover_after_reboot
  BY <1>33
<1>34. CASE Stopped \/ UNCHANGED vars
  <2>1. UNCHANGED <<starts, run_times, reboot_mode, reboot_keypath, reboot_run_times, status, cur, tsk, pc>>
    BY <1>34 DEF Stopped, vars
  <2> QED
    BY <2>1, <1>b, <1>c, BehindStays
<1>35. CASE task_do_crash
  <2>1. UNCHANGED <<starts, run_times, reboot_mode, reboot_keypath, reboot_run_times, status, cur, tsk, pc>>
    BY <1>35 DEF task_do_crash, sched, tasks, reboots, history, At, Goto
  <2> QED
    BY <2>1, <1>b, <1>c, BehindStays
<1> QED
  BY <1>1, <1>2, <1>3, <1>4, <1>5, <1>6, <1>7, <1>8, <1>9, <1>10, <1>11, <1>12, <1>13, <1>14,
     <1>15, <1>16, <1>17, <1>18, <1>19, <1>20, <1>21, <1>22, <1>23, <1>24, <1>25, <1>26, <1>27,
     <1>28, <1>29, <1>30, <1>31, <1>32, <1>33, <1>34, <1>35
  DEF Next, Main, Recycler, Thread, task_begin, task_recycle, task_do, task_recycle_end, Threads,
      Recycle

\* No test case is started more often than its limit; the starts are covered by what
\* tinatest knows of them.
Bounded == \A t \in Tasks : Numbered(t) => starts[t] <= Limit(t) + Repeats(t)
Covered == \A t \in Tasks : Numbered(t) /\ Tracked(t) => Behind(t) + Repeats(t) >= 0

\* What waits, and was not found by a boot, was never started.
Untouched == \A t \in Tasks : Tracked(t) /\ status[t] = "WAIT" /\ ~Pending(t) => starts[t] = 0

\* A power cut brings back a status file only where there is one.
Twin == sback # None => sfile # None

\* The status file is that of a run the main thread is about to fork.
Filed == tool = "run" /\ cur = fboot /\ pc["main"] \in {"last", "limits", "fork"}

\* Nothing after the test case of the boot script was started, and that one at most
\* once more than the status file says and once more for every power cut; and than the
\* one a power cut may bring back says, once more again when its run was forked.
PlacedRuns ==
  /\ sfile \in Nat => starts[fboot] <= sfile + 1 + cuts
  /\ sback \in Nat =>
       starts[fboot] <= sback + 1 + cuts + (IF tool = "off" \/ Filed THEN 0 ELSE 1)

Placed == fboot # None =>
  /\ tool # "failed" /\ status[fboot] = "WAIT" => reboot_mode
  /\ \A u \in Tasks : u > fboot => starts[u] = 0
  /\ Numbered(fboot) => PlacedRuns

Tidy == AlwaysReboots /\ faults = 0

StartInv ==
  /\ starts \in [Tasks -> Nat] /\ Twin
  /\ NoReboot \/ Tidy => Bounded /\ Covered
  /\ Tidy => Placed /\ Untouched

\* Of a test case that runs, in no hands but those of the thread that is to fork its next
\* run, tinatest keeps account, and run_times is what it knows.
LEMMA RunsTracked ==
  ASSUME RunType, TaskTypes, Meet, Shape, HandRuns, Rebooted, tool = "run", NEW h \in Threads,
         pc[h] \in {"status", "fill", "last", "limits", "fork"} \/ (h = Recycle /\ pc[h] = "check")
  PROVE  /\ T(h) \in Tasks /\ ~Pending(T(h))
         /\ status[T(h)] = "RUN" => Tracked(T(h))
         /\ pc[h] # "check" => status[T(h)] = "RUN" /\ ~Unrecorded(T(h))
<1>1. T(h) \in Tasks /\ (pc[h] # "check" => status[T(h)] = "RUN")
  BY DEF RunType, Shape, HandRuns, Doing, T, Threads, Recycle
<1>2. status[T(h)] = "RUN" => Tracked(T(h))
  <2> SUFFICES ASSUME status[T(h)] = "RUN" PROVE ~(reboot_mode /\ T(h) < reboot_keypath)
    BY DEF Tracked
  <2>1. reboot_mode => T(h) = reboot_keypath
    BY <1>1 DEF Rebooted
  <2> QED
    BY <1>1, <2>1 DEF Tasks
<1>3. CASE h = "main"
  <2>1. T(h) = cur /\ pc["main"] \in {"status", "fill", "last", "limits", "fork"}
    BY <1>3 DEF T, Recycle
  <2>2. ~(tsk = cur /\ pc[Recycle] = "record")
    BY <2>1 DEF Meet, Hands, Doing
  <2> QED
    BY <1>1, <1>2, <1>3, <2>1, <2>2 DEF Pending, Unrecorded, Threads, T, Recycle
<1>4. CASE h = Recycle
  <2>1. T(h) = tsk /\ pc[Recycle] \in Hands
    BY <1>4 DEF T, Recycle, Hands, Doing
  <2>2. tsk = cur => pc["main"] \in {"fork", "record", "unlock", "started", "failed", "after"}
    BY <2>1 DEF Meet
  <2>3. pc[Recycle] # "check" => ~(tsk = cur /\ pc["main"] = "record")
    BY <2>1 DEF Meet
  <2>4. status[tsk] # "WAIT"
    <3>1. tsk <= cur /\ tsk \in Tasks
      BY <2>1 DEF Meet
    <3>2. tsk = cur => status[cur] # "WAIT"
      BY <2>2 DEF Shape, Begun, Doing
    <3>3. tsk < cur => status[tsk] # "WAIT"
      BY <3>1 DEF Shape
    <3> QED
      BY <3>1, <3>2, <3>3 DEF RunType, Tasks
  <2> QED
    BY <1>1, <1>2, <1>4, <2>1, <2>2, <2>3, <2>4 DEF Pending, Unrecorded, Threads, T, Recycle
<1> QED
  BY <1>3, <1>4 DEF Threads, Recycle

\* Cuts are counted.
LEMMA CutsGrow ==
  ASSUME TaskTypes, [Next]_vars
  PROVE  cuts' \in Nat /\ cuts' >= cuts
<1>1. CASE PowerOff
  BY <1>1 DEF PowerOff, TaskTypes
<1>2. CASE task_recover_after_reboot
  BY <1>2 DEF task_recover_after_reboot, bounds, TaskTypes
<1>3. CASE ~PowerOff /\ ~task_recover_after_reboot
  BY <1>3, StepsConfined DEF Confined, TaskTypes
<1> QED
  BY <1>1, <1>2, <1>3

\* So are the runs they repeat.
LEMMA RepeatsGrow ==
  ASSUME TaskTypes, [Next]_vars, NEW t \in Tasks
  PROVE  Repeats(t) \in Nat /\ Repeats(t)' \in Nat /\ Repeats(t)' >= Repeats(t)
  BY CutsGrow DEF Repeats, TaskTypes

\* What a fork finds.
LEMMA ForkFinds ==
  ASSUME RunInv, CountInv, starts \in [Tasks -> Nat], NEW h \in Threads, ForkTestcase(h)
  PROVE  /\ T(h) \in Tasks /\ T(h) \in Live /\ status[T(h)] = "RUN" /\ pc[h] = "fork" /\ tool = "run"
         /\ run_times[T(h)] < Limit(T(h))
         /\ UNCHANGED <<tool, status, reboot_mode, fboot, sfile, sback, cuts, run_times>>
         /\ UNCHANGED starts \/ starts' = [starts EXCEPT ![T(h)] = @ + 1]
         /\ Tracked(T(h)) /\ Behind(T(h)) = run_times[T(h)] - starts[T(h)]
<1>1. /\ pc[h] = "fork" /\ tool = "run"
      /\ UNCHANGED <<tool, status, reboot_mode, fboot, sfile, sback, cuts, run_times>>
      /\ UNCHANGED starts \/ starts' = [starts EXCEPT ![T(h)] = @ + 1]
  BY DEF ForkTestcase, At, tasks, reboots, flash
<1>2. /\ RunType /\ Meet /\ Shape /\ HandRuns /\ FromTheFirst /\ RecyclerBelow /\ Rebooted /\ TaskTypes
  BY MeetHolds DEF RunInv, CountInv, AllTypes
<1>3. /\ T(h) \in Tasks /\ ~Pending(T(h)) /\ status[T(h)] = "RUN" /\ Tracked(T(h)) /\ ~Unrecorded(T(h))
  BY <1>1, <1>2, RunsTracked
<1>4. T(h) \in Live
  BY <1>1, <1>2, HandLive DEF Doing
<1>5. run_times[T(h)] < Limit(T(h))
  BY <1>1, <1>2 DEF FromTheFirst, RecyclerBelow, Restart, T, Threads, Recycle
<1>6. run_times[T(h)] \in Int /\ starts[T(h)] \in Int
  BY <1>2, <1>3 DEF RunType
<1> QED
  BY <1>1, <1>3, <1>4, <1>5, <1>6 DEF Behind, RunsKnown

\* While a boot script is there, what runs is its test case.
LEMMA RunsScripted ==
  ASSUME RunInv, CountInv, Undying, Scripted, Placed, tool = "run", fboot # None,
         NEW t \in Live, status[t] = "RUN"
  PROVE  t = fboot
<1>1. /\ RunType /\ HandRuns /\ TaskTypes /\ Rebooted /\ AloneLive
  BY DEF RunInv, CountInv, AllTypes
<1>2. fboot \in Tasks /\ Env[fboot].may_reboot /\ status[fboot] \in {"WAIT", "RUN"} /\ t \in Tasks
  BY <1>1 DEF TaskTypes, Rebooted, Scripted, Live
<1>3. CASE status[fboot] = "RUN"
  <2>1. ~(pc[Recycle] = "tell" /\ tsk = fboot)
    BY <1>2 DEF Undying, IsUndying, Hands, Ending
  <2>2. fboot \in Live
    BY <1>2, <1>3, <2>1 DEF Live, IsLive
  <2>3. Live = {fboot}
    BY <1>1, <1>2, <2>2 DEF AloneLive, RunAlone
  <2> QED
    BY <2>3
<1>4. CASE status[fboot] = "WAIT"
  <2>1. reboot_mode
    BY <1>4 DEF Placed
  <2>2. t = reboot_keypath /\ (fboot = reboot_keypath \/ "clean" \in {pc["main"], pc[Recycle]})
    BY <1>1, <1>2, <2>1 DEF Rebooted
  <2>3. pc["main"] # "clean"
    BY DEF Scripted
  <2>4. pc[Recycle] # "clean"
    BY <1>1, NoneInHand DEF HandRuns, Hands, Ending
  <2> QED
    BY <2>2, <2>3, <2>4
<1> QED
  BY <1>2, <1>3, <1>4

\* What a boot makes of a test case of which tinatest keeps account.
LEMMA RecoverBehind ==
  ASSUME RunType, TaskTypes, starts \in [Tasks -> Nat], task_recover_after_reboot,
         NEW u \in Tasks, Tracked(u)'
  PROVE  /\ fboot \in Tasks /\ sfile' \in Nat /\ sfile' \in {sfile, sback} /\ u >= fboot
         /\ Pending(u)' <=> u = fboot
         /\ u = fboot => Behind(u)' = sfile' + 1 - starts[u]
         /\ u # fboot => Behind(u)' = 0 - starts[u]
<1>1. /\ fboot # None /\ starts' = starts /\ reboot_keypath' = fboot
      /\ status'[u] = "WAIT" /\ run_times'[u] = 0 /\ pc' = AtStart
  BY DEF task_recover_after_reboot, history, Every
<1>2. sfile' \in {sfile, sback} /\ sfile' \notin {None, Empty}
  BY DEF task_recover_after_reboot, Tracked
<1>3. reboot_mode' /\ reboot_run_times' = sfile' + 1
  BY <1>2 DEF task_recover_after_reboot, FollowingRun
<1>4. fboot \in Tasks /\ sfile' \in Nat
  BY <1>1, <1>2 DEF RunType, TaskTypes
<1>5. u >= fboot
  BY <1>1, <1>3, <1>4 DEF Tracked, Tasks
<1>6. ~Unrecorded(u)'
  BY <1>1 DEF Unrecorded, AtStart, Threads
<1>7. Pending(u)' <=> u = fboot
  BY <1>1, <1>3, <1>4 DEF Pending, AtStart, Threads
<1> QED
  BY <1>1, <1>2, <1>3, <1>4, <1>5, <1>6, <1>7 DEF Behind, RunsKnown

\* The starts stay a count.
LEMMA StartTypesKept ==
  ASSUME RunType, TaskTypes, starts \in [Tasks -> Nat], [Next]_vars
  PROVE  starts' \in [Tasks -> Nat]
<1>1. CASE task_recover_after_reboot
  BY <1>1 DEF task_recover_after_reboot, history
<1>2. ASSUME NEW h \in Threads, ForkTestcase(h) PROVE starts' \in [Tasks -> Nat]
  <2>1. T(h) \in Tasks /\ (UNCHANGED starts \/ starts' = [starts EXCEPT ![T(h)] = @ + 1])
    BY <1>2 DEF ForkTestcase, At, T, RunType, Threads
  <2> QED
    BY <2>1
<1>3. CASE ~task_recover_after_reboot /\ \A h \in Threads : ~ForkTestcase(h)
  BY <1>3, StepsConfined DEF Confined
<1> QED
  BY <1>1, <1>2, <1>3

\* A fork is the run that is still due.
LEMMA BoundedKept ==
  ASSUME RunInv, CountInv, starts \in [Tasks -> Nat], Bounded, Covered, [Next]_vars
  PROVE  Bounded'
<1> SUFFICES ASSUME NEW u \in Tasks, Numbered(u) PROVE starts'[u] <= Limit(u) + Repeats(u)'
  BY DEF Bounded, Numbered, Limit
<1>1. TaskTypes /\ RunType
  BY DEF CountInv, AllTypes, RunInv
<1>2. /\ Limit(u) \in Int /\ starts[u] \in Int /\ starts[u] <= Limit(u) + Repeats(u)
      /\ Repeats(u) \in Nat /\ Repeats(u)' \in Nat /\ Repeats(u)' >= Repeats(u)
  BY <1>1, RepeatsGrow, TinaAssumption DEF Bounded, Limit
<1>3. CASE starts'[u] = starts[u]
  BY <1>2, <1>3
<1>4. ASSUME NEW h \in Threads, ForkTestcase(h), u = T(h) PROVE starts'[u] <= Limit(u) + Repeats(u)'
  <2>1. /\ run_times[u] < Limit(u) /\ Tracked(u) /\ Behind(u) = run_times[u] - starts[u]
        /\ UNCHANGED starts \/ starts' = [starts EXCEPT ![u] = @ + 1]
    BY <1>4, ForkFinds
  <2>2. run_times[u] - starts[u] + Repeats(u) >= 0 /\ run_times[u] \in Int
    BY <1>1, <2>1 DEF Covered, RunType
  <2>3. starts'[u] <= starts[u] + 1
    BY <1>2, <2>1
  <2>4. starts'[u] \in Int
    BY <1>2, <2>1
  <2> QED
    BY <1>2, <2>1, <2>2, <2>3, <2>4
<1>5. ASSUME NEW h \in Threads, ForkTestcase(h), u # T(h) PROVE starts'[u] = starts[u]
  BY <1>5, ForkFinds
<1>6. CASE task_recover_after_reboot
  <2>1. starts'[u] = starts[u]
    BY <1>6 DEF task_recover_after_reboot, history
  <2> QED
    BY <1>3, <2>1
<1>7. CASE ~task_recover_after_reboot /\ \A h \in Threads : ~ForkTestcase(h)
  <2>1. starts'[u] = starts[u]
    BY <1>1, <1>7, StepsConfined DEF Confined
  <2> QED
    BY <1>3, <2>1
<1> QED
  BY <1>3, <1>4, <1>5, <1>6, <1>7

\* Reboot mode: only where a boot found a test case, and then no call has failed.
LEMMA OrderlyHolds ==
  ASSUME CountInv, CleanInv, NoReboot \/ Tidy, NoReboot \/ faults' = 0
  PROVE  Orderly /\ (reboot_mode => faults' = 0)
<1>1. CASE NoReboot
  BY <1>1 DEF CountInv, Quiet, Orderly
<1>2. CASE ~NoReboot
  BY <1>2 DEF Tidy, CleanInv, Orderly
<1> QED
  BY <1>1, <1>2

\* The starts stay covered.
LEMMA CoveredKept ==
  ASSUME RunInv, CountInv, CleanInv, starts \in [Tasks -> Nat], NoReboot \/ Tidy,
         NoReboot \/ faults' = 0,
         Covered, Tidy => Placed, [Next]_vars
  PROVE  Covered'
<1> SUFFICES ASSUME NEW u \in Tasks, Numbered(u), Tracked(u)' PROVE Behind(u)' + Repeats(u)' >= 0
  BY DEF Covered, Numbered
<1>1. /\ RunType /\ FlagTypes /\ TaskTypes /\ Meet /\ Shape /\ FromTheFirst /\ HandRuns /\ Rebooted /\ Quiet
  BY MeetHolds DEF RunInv, CountInv, AllTypes
<1>2. CASE ~task_recover_after_reboot
  <2>1. Tracked(u) /\ Behind(u)' = Behind(u)
    BY <1>1, <1>2, OrderlyHolds, BehindKept
  <2>2. Behind(u) + Repeats(u) >= 0 /\ Behind(u) \in Int
    BY <1>1, <2>1 DEF Covered, Behind, RunsKnown, RunType
  <2> QED
    BY <1>1, <2>1, <2>2, RepeatsGrow
<1>3. CASE task_recover_after_reboot
  <2>1. ~NoReboot /\ tool = "off" /\ fboot # None /\ UNCHANGED cuts
    BY <1>1, <1>3 DEF Quiet, task_recover_after_reboot, bounds
  <2>2. Placed
    BY <2>1
  <2>3. /\ fboot \in Tasks /\ sfile' \in Nat /\ sfile' \in {sfile, sback} /\ u >= fboot
        /\ u = fboot => Behind(u)' = sfile' + 1 - starts[u]
        /\ u # fboot => Behind(u)' = 0 - starts[u]
    BY <1>1, <1>3, RecoverBehind
  <2>4. starts[u] \in Nat /\ cuts \in Nat
    BY <1>1 DEF TaskTypes
  <2>5. CASE u = fboot
    <3>1. starts[u] <= sfile' + 1 + cuts
      BY <2>1, <2>2, <2>3, <2>4, <2>5 DEF Placed, PlacedRuns
    <3>2. Repeats(u)' = cuts
      BY <1>1, <2>1, <2>5 DEF Repeats, Rebooted
    <3> QED
      BY <2>3, <2>4, <2>5, <3>1, <3>2
  <2>6. CASE u # fboot
    <3>1. starts[u] = 0
      BY <2>1, <2>2, <2>3, <2>6 DEF Placed, Tasks
    <3> QED
      BY <1>1, <2>3, <2>6, <3>1, RepeatsGrow
  <2> QED
    BY <2>5, <2>6
<1> QED
  BY <1>2, <1>3

\* What waits and was not found by a boot was not before the step.
LEMMA PendingStays ==
  ASSUME RunInv, CountInv, CleanInv, Tidy, faults' = 0, ~task_recover_after_reboot, [Next]_vars,
         NEW u \in Tasks, Pending(u), status'[u] = "WAIT"
  PROVE  Pending(u)'
<1>1. /\ RunType /\ TaskTypes /\ Meet /\ Shape /\ HandRuns /\ Rebooted
  BY MeetHolds DEF RunInv, CountInv, AllTypes
<1>2. reboot_mode /\ u = reboot_keypath /\ status[u] = "WAIT"
  BY <1>1, StepsConfined DEF Confined, Pending
<1>3. ASSUME NEW h \in Threads, Writes(h) PROVE FALSE
  <2>1. pc[h] \in {"kill", "clean", "reboot", "status", "fill"}
    BY <1>3 DEF Writes, KillLimits, task_clean_reboot, task_init_reboot_mode, task_create_reboot_status, At
  <2>2. T(h) \in Tasks /\ status[T(h)] = "RUN"
    BY <1>1, <2>1 DEF RunType, Shape, HandRuns, Doing, Ending, T, Threads, Recycle
  <2> QED
    BY <1>1, <1>2, <2>2 DEF Rebooted
<1> QED
  BY <1>1, <1>2, <1>3, StepsConfined DEF Confined, Pending

\* What waits stays untouched: every step.
LEMMA UntouchedKept ==
  ASSUME RunInv, CountInv, CleanInv, starts \in [Tasks -> Nat], Tidy, faults' = 0, Placed, Untouched,
         [Next]_vars
  PROVE  Untouched'
<1> SUFFICES ASSUME NEW u \in Tasks, Tracked(u)', status'[u] = "WAIT", ~Pending(u)' PROVE starts'[u] = 0
  BY DEF Untouched
<1>1. /\ RunType /\ FlagTypes /\ TaskTypes /\ Meet /\ Shape /\ FromTheFirst /\ HandRuns /\ Rebooted
  BY MeetHolds DEF RunInv, CountInv, AllTypes
<1>2. CASE task_recover_after_reboot
  <2>1. fboot # None /\ UNCHANGED starts
    BY <1>2 DEF task_recover_after_reboot, history
  <2>2. fboot \in Tasks /\ u >= fboot /\ u # fboot
    BY <1>1, <1>2, RecoverBehind
  <2> QED
    BY <2>1, <2>2 DEF Placed, Tasks
<1>3. CASE ~task_recover_after_reboot
  <2>1. Tracked(u) /\ ~Pending(u) /\ status[u] = "WAIT"
    BY <1>1, <1>3, OrderlyHolds, BehindKept, PendingStays, StepsConfined DEF Confined
  <2>2. starts[u] = 0
    BY <2>1 DEF Untouched
  <2>3. ASSUME NEW h \in Threads, ForkTestcase(h) PROVE starts'[u] = starts[u]
    BY <2>1, <2>3, ForkFinds
  <2>4. CASE \A h \in Threads : ~ForkTestcase(h)
    BY <1>1, <1>3, <2>2, <2>4, StepsConfined DEF Confined
  <2> QED
    BY <2>2, <2>3, <2>4
<1> QED
  BY <1>2, <1>3

\* Both status files are there or none is: every step.
LEMMA TwinKept ==
  ASSUME RunType, TaskTypes, Twin, [Next]_vars
  PROVE  Twin'
<1>1. CASE task_recover_after_reboot
  BY <1>1 DEF task_recover_after_reboot, Twin
<1>2. ASSUME NEW h \in Threads, Writes(h) PROVE Twin'
  <2>1. CASE KillLimits(h)
    BY <2>1 DEF KillLimits, Twin
  <2>2. CASE task_clean_reboot(h)
    BY <2>2 DEF task_clean_reboot, Twin
  <2>3. CASE task_init_reboot_mode(h)
    BY <2>3 DEF task_init_reboot_mode, flash, Twin
  <2>4. CASE task_create_reboot_status(h)
    <3>1. run_times[T(h)] \in Nat
      BY <2>4 DEF task_create_reboot_status, At, T, RunType, Threads
    <3>2. \/ sfile' = (IF sfile = None THEN Empty ELSE run_times[T(h)])
             /\ sback' = (IF sfile = None THEN Empty ELSE sfile)
          \/ sfile' = run_times[T(h)] /\ sback' = run_times[T(h)]
          \/ UNCHANGED <<sfile, sback>>
      BY <2>4 DEF task_create_reboot_status, StatusOpened
    <3> QED
      BY <3>1, <3>2 DEF Twin, None, Empty
  <2> QED
    BY <1>2, <2>1, <2>2, <2>3, <2>4 DEF Writes
<1>3. CASE PowerOff
  BY <1>3 DEF PowerOff, Twin
<1>4. CASE ~task_recover_after_reboot /\ ~PowerOff /\ \A h \in Threads : ~Writes(h)
  BY <1>4, StepsConfined DEF Confined, Twin
<1> QED
  BY <1>1, <1>2, <1>3, <1>4

\* Where the main thread comes from when it is about to fork.
AboutTo == {"last", "limits", "fork"}

MovesFiled == pc'["main"] \in AboutTo =>
  \/ cur' = cur /\ pc["main"] \in AboutTo
  \/ LockTask("main") \/ RecordPid("main") \/ task_create_reboot_status("main")

\* Every step other than a boot.
LEMMA StepsFiled ==
  ASSUME RunType, ~task_recover_after_reboot, [Next]_vars
  PROVE  MovesFiled
<1> USE TinaAssumption DEF AboutTo
<1>c. DOMAIN pc = {"main", "recycle"} /\ Threads = {"main", "recycle"} /\ "main" # "recycle"
  BY DEF RunType, Threads
<1>1. ASSUME NEW h \in Threads, KillLimits(h) PROVE MovesFiled
  <2>1. cur' = cur /\ pc[h] \in {"kill"} /\ \E p \in {"clean", "sub"} : pc' = [pc EXCEPT ![h] = p]
    BY <1>1 DEF KillLimits, At, Goto, others, local
  <2> QED
    BY <2>1, <1>c DEF MovesFiled
<1>2. ASSUME NEW h \in Threads, task_clean_reboot(h) PROVE MovesFiled
  <2>1. cur' = cur /\ pc[h] \in {"clean"} /\ \E p \in {"tell"} : pc' = [pc EXCEPT ![h] = p]
    BY <1>2 DEF task_clean_reboot, At, Goto, others, local
  <2> QED
    BY <2>1, <1>c DEF MovesFiled
<1>3. ASSUME NEW h \in Threads, CountEnd(h) PROVE MovesFiled
  <2>1. cur' = cur /\ pc[h] \in {"sub"} /\ \E p \in {"tell"} : pc' = [pc EXCEPT ![h] = p]
    BY <1>3 DEF CountEnd, At, Goto, others, local
  <2> QED
    BY <2>1, <1>c DEF MovesFiled
<1>4. ASSUME NEW h \in Threads, TELL_PARENT(h) PROVE MovesFiled
  <2>1. cur' = cur /\ pc[h] \in {"tell"} /\ \E p \in {"lastsub", "again"} : pc' = [pc EXCEPT ![h] = p]
    BY <1>4 DEF TELL_PARENT, At, Goto, others, local
  <2> QED
    BY <2>1, <1>c DEF MovesFiled
<1>5. ASSUME NEW h \in Threads, LockTask(h) PROVE MovesFiled
  <2>1. cur' = cur /\ \E p : pc' = [pc EXCEPT ![h] = p]
    BY <1>5 DEF LockTask, Goto, Leave
  <2>2. CASE h = "main"
    BY <1>5, <2>2 DEF MovesFiled
  <2>3. CASE h = "recycle"
    BY <2>1, <2>3, <1>c DEF MovesFiled
  <2> QED
    BY <2>2, <2>3, <1>c
<1>6. ASSUME NEW h \in Threads, task_init_reboot_mode(h) PROVE MovesFiled
  <2>1. cur' = cur /\ pc[h] \in {"reboot"} /\ \E p \in {"status", "unlock"} : pc' = [pc EXCEPT ![h] = p]
    BY <1>6 DEF task_init_reboot_mode, At, Goto, Leave
  <2> QED
    BY <2>1, <1>c DEF MovesFiled
<1>7. ASSUME NEW h \in Threads, task_create_reboot_status(h) PROVE MovesFiled
  <2>1. cur' = cur /\ \E p : pc' = [pc EXCEPT ![h] = p]
    BY <1>7 DEF task_create_reboot_status, Goto, Leave
  <2>2. CASE h = "main"
    BY <1>7, <2>2 DEF MovesFiled
  <2>3. CASE h = "recycle"
    BY <2>1, <2>3, <1>c DEF MovesFiled
  <2> QED
    BY <2>2, <2>3, <1>c
<1>8. ASSUME NEW h \in Threads, LastTimes(h) PROVE MovesFiled
  <2>1. cur' = cur /\ pc[h] \in {"last"} /\ \E p \in {"limits", "kill", "lastsub"} : pc' = [pc EXCEPT ![h] = p]
    BY <1>8 DEF LastTimes, At, Goto, others, local
  <2> QED
    BY <2>1, <1>c DEF MovesFiled
<1>9. ASSUME NEW h \in Threads, LastSub(h) PROVE MovesFiled
  <2>1. cur' = cur /\ pc[h] \in {"lastsub"} /\ \E p \in {"unlock"} : pc' = [pc EXCEPT ![h] = p]
    BY <1>9 DEF LastSub, At, Goto, Leave
  <2> QED
    BY <2>1, <1>c DEF MovesFiled
<1>10. ASSUME NEW h \in Threads, DoLimits(h) PROVE MovesFiled
  <2>1. cur' = cur /\ pc[h] \in {"limits"} /\ \E p \in {"fork", "unlock"} : pc' = [pc EXCEPT ![h] = p]
    BY <1>10 DEF DoLimits, At, Goto, Leave
  <2> QED
    BY <2>1, <1>c DEF MovesFiled
<1>11. ASSUME NEW h \in Threads, ForkTestcase(h) PROVE MovesFiled
  <2>1. cur' = cur /\ pc[h] \in {"fork"} /\ \E p \in {"record", "unlock"} : pc' = [pc EXCEPT ![h] = p]
    BY <1>11 DEF ForkTestcase, At, Goto, Leave
  <2> QED
    BY <2>1, <1>c DEF MovesFiled
<1>12. ASSUME NEW h \in Threads, RecordPid(h) PROVE MovesFiled
  <2>1. cur' = cur /\ \E p : pc' = [pc EXCEPT ![h] = p]
    BY <1>12 DEF RecordPid, Goto, Leave
  <2>2. CASE h = "main"
    BY <1>12, <2>2 DEF MovesFiled
  <2>3. CASE h = "recycle"
    BY <2>1, <2>3, <1>c DEF MovesFiled
  <2> QED
    BY <2>2, <2>3, <1>c
<1>13. ASSUME NEW h \in Threads, UnlockTask(h) PROVE MovesFiled
  <2>1. cur' = cur /\ pc[h] \in {"unlock"} /\ \E p \in {"again", "started", "failed"} : pc' = [pc EXCEPT ![h] = p]
    BY <1>13 DEF UnlockTask, At, Goto
  <2> QED
    BY <2>1, <1>c DEF MovesFiled
<1>14. CASE ListTop
  <2>1. \E p \in {"join", "wait", "alone"} : pc' = [pc EXCEPT !["main"] = p]
    BY <1>14 DEF ListTop, Goto
  <2> QED
    BY <2>1, <1>c DEF MovesFiled
<1>15. CASE WAIT_CHILD
  <2>1. \E p \in {"list"} : pc' = [pc EXCEPT !["main"] = p]
    BY <1>15 DEF WAIT_CHILD, Goto
  <2> QED
    BY <2>1, <1>c DEF MovesFiled
<1>16. CASE BeginTask
  <2>1. \E p \in {"list", "lock"} : pc' = [pc EXCEPT !["main"] = p]
    BY <1>16 DEF BeginTask, Goto, NextTask
  <2> QED
    BY <2>1, <1>c DEF MovesFiled
<1>17. CASE TaskStarted
  <2>1. \E p \in {"after"} : pc' = [pc EXCEPT !["main"] = p]
    BY <1>17 DEF TaskStarted, Goto
  <2> QED
    BY <2>1, <1>c DEF MovesFiled
<1>18. CASE TaskFailed
  <2>1. \E p \in {"list"} : pc' = [pc EXCEPT !["main"] = p]
    BY <1>18 DEF TaskFailed, Goto, NextTask
  <2> QED
    BY <2>1, <1>c DEF MovesFiled
<1>19. CASE WaitAlone
  <2>1. \E p \in {"list"} : pc' = [pc EXCEPT !["main"] = p]
    BY <1>19 DEF WaitAlone, Goto, NextTask
  <2> QED
    BY <2>1, <1>c DEF MovesFiled
<1>20. CASE task_quit_clean
  <2>1. UNCHANGED <<pc, cur>>
    BY <1>20 DEF task_quit_clean, sched
  <2> QED
    BY <2>1 DEF MovesFiled
<1>21. CASE RecycleTop
  <2>1. cur' = cur /\ \E p : pc' = [pc EXCEPT !["recycle"] = p]
    BY <1>21 DEF RecycleTop, Goto, Recycle, others, local
  <2> QED
    BY <2>1, <1>c DEF MovesFiled
<1>22. CASE wait4
  <2>1. cur' = cur /\ \E p : pc' = [pc EXCEPT !["recycle"] = p]
    BY <1>22 DEF wait4, Goto, Recycle
  <2> QED
    BY <2>1, <1>c DEF MovesFiled
<1>23. CASE MatchLeader
  <2>1. cur' = cur /\ \E p : pc' = [pc EXCEPT !["recycle"] = p]
    BY <1>23 DEF MatchLeader, Goto, Recycle, local
  <2> QED
    BY <2>1, <1>c DEF MovesFiled
<1>24. CASE task_recycle_once
  <2>1. cur' = cur /\ \E p : pc' = [pc EXCEPT !["recycle"] = p]
    BY <1>24 DEF task_recycle_once, Goto, Recycle
  <2> QED
    BY <2>1, <1>c DEF MovesFiled
<1>25. CASE NoMatch
  <2>1. cur' = cur /\ \E p : pc' = [pc EXCEPT !["recycle"] = p]
    BY <1>25 DEF NoMatch, Goto, Recycle, local
  <2> QED
    BY <2>1, <1>c DEF MovesFiled
<1>26. CASE task_check_end
  <2>1. cur' = cur /\ \E p : pc' = [pc EXCEPT !["recycle"] = p]
    BY <1>26 DEF task_check_end, Goto, Recycle, others, local
  <2> QED
    BY <2>1, <1>c DEF MovesFiled
<1>27. CASE Again
  <2>1. cur' = cur /\ \E p : pc' = [pc EXCEPT !["recycle"] = p]
    BY <1>27 DEF Again, Goto, Recycle, local
  <2> QED
    BY <2>1, <1>c DEF MovesFiled
<1>28. ASSUME NEW t \in Tasks, OnceLimit(t) PROVE MovesFiled
  <2>1. UNCHANGED <<pc, cur>>
    BY <1>28 DEF OnceLimit, sched
  <2> QED
    BY <2>1 DEF MovesFiled
<1>29. ASSUME NEW t \in Tasks, WholeLimit(t) PROVE MovesFiled
  <2>1. UNCHANGED <<pc, cur>>
    BY <1>29 DEF WholeLimit, sched
  <2> QED
    BY <2>1 DEF MovesFiled
<1>30. ASSUME NEW t \in Tasks, NEW k \in Slots, Exit(t, k) PROVE MovesFiled
  <2>1. UNCHANGED <<pc, cur>>
    BY <1>30 DEF Exit, sched
  <2> QED
    BY <2>1 DEF MovesFiled
<1>31. CASE task_signal_quit
  <2>1. UNCHANGED <<pc, cur>>
    BY <1>31 DEF task_signal_quit, sched
  <2> QED
    BY <2>1 DEF MovesFiled
<1>32. CASE PowerOff
  <2>1. UNCHANGED <<pc, cur>>
    BY <1>32 DEF PowerOff, sched
  <2> QED
    BY <2>1 DEF MovesFiled
<1>33. CASE task_recover_after_reboot
  BY <1>33
<1>34. CASE Stopped \/ UNCHANGED vars
  <2>1. UNCHANGED <<pc, cur>>
    BY <1>34 DEF Stopped, vars
  <2> QED
    BY <2>1 DEF MovesFiled
<1>35. CASE task_do_crash
  <2>1. UNCHANGED <<pc, cur>>
    BY <1>35 DEF task_do_crash, sched
  <2> QED
    BY <2>1 DEF MovesFiled
<1> QED
  BY <1>1, <1>2, <1>3, <1>4, <1>5, <1>6, <1>7, <1>8, <1>9, <1>10, <1>11, <1>12, <1>13, <1>14,
     <1>15, <1>16, <1>17, <1>18, <1>19, <1>20, <1>21, <1>22, <1>23, <1>24, <1>25, <1>26, <1>27,
     <1>28, <1>29, <1>30, <1>31, <1>32, <1>33, <1>34, <1>35
  DEF Next, Main, Recycler, Thread, task_begin, task_recycle, task_do, task_recycle_end, Threads,
      Recycle

\* The boot script and the status files bound the starts: the steps that write them.
LEMMA PlacedWrite ==
  ASSUME RunInv, CountInv, Undying, Scripted, Placed, starts \in [Tasks -> Nat], Covered, Untouched, Twin,
         faults = 0, faults' = 0,
         NEW h \in Threads, Writes(h)
  PROVE  Placed'
<1>1. /\ RunType /\ TaskTypes /\ FlagTypes /\ Meet /\ Shape /\ FromTheFirst /\ HandRuns /\ Rebooted /\ FilesReady
      /\ cuts \in Nat /\ DOMAIN pc = Threads
  BY MeetHolds DEF RunInv, RunType, CountInv, AllTypes, TaskTypes
<1>2. UNCHANGED <<tool, status, starts, cuts, cur>> /\ tool = "run"
  BY DEF Writes, KillLimits, task_clean_reboot, task_init_reboot_mode, task_create_reboot_status, At,
         others, local, tasks, bounds, history
<1>3. CASE KillLimits(h)
  <2>1. /\ fboot' \in {None, fboot} /\ UNCHANGED <<sfile, sback, reboot_mode>>
        /\ \E p \in {"clean", "sub"} : pc' = [pc EXCEPT ![h] = p]
    BY <1>3 DEF KillLimits, reboots, Goto
  <2>2. fboot' = fboot /\ Filed' => Filed
    BY <1>1, <1>2, <2>1 DEF Filed, Threads
  <2>3. starts[fboot] <= sback + 1 + cuts + 0 /\ sback \in Nat /\ fboot \in Tasks =>
          starts[fboot] <= sback + 1 + cuts + 1
    BY <1>1
  <2>4. fboot \in Tasks /\ fboot' = fboot /\ PlacedRuns => PlacedRuns'
    BY <1>2, <2>1, <2>2, <2>3 DEF PlacedRuns
  <2> QED
    BY <1>1, <1>2, <2>1, <2>4 DEF Placed, Numbered, TaskTypes
<1>4. CASE task_clean_reboot(h)
  <2>1. pc[h] = "clean" /\ fboot' = fboot
    BY <1>4 DEF task_clean_reboot, At
  <2>2. h = "main"
    BY <1>1, <2>1, NoneInHand DEF HandRuns, Hands, Ending, Threads, Recycle
  <2>3. fboot' = None
    BY <2>1, <2>2 DEF Scripted
  <2> QED
    BY <2>3 DEF Placed
<1>5. CASE task_init_reboot_mode(h)
  <2>1. pc[h] = "reboot"
    BY <1>5 DEF task_init_reboot_mode, At
  <2>2. h = "main" /\ T(h) = cur
    BY <1>1, <2>1, NoneInHand DEF HandRuns, Hands, Doing, Threads, Recycle, T
  <2>3. ~Filed /\ ~Filed' /\ UNCHANGED <<sfile, sback>>
    <3>1. pc' = [pc EXCEPT !["main"] = "status"] /\ UNCHANGED <<sfile, sback>>
      BY <1>5, <2>2 DEF task_init_reboot_mode, Fails, Goto, flash
    <3> QED
      BY <1>1, <2>1, <2>2, <3>1 DEF Filed, Threads
  <2>4. fboot' = fboot /\ PlacedRuns => PlacedRuns'
    BY <1>2, <2>3 DEF PlacedRuns
  <2>5. CASE reboot_mode
    <3>1. UNCHANGED <<fboot, reboot_mode>>
      BY <1>5, <2>5 DEF task_init_reboot_mode, reboots, flash
    <3> QED
      BY <1>2, <2>4, <3>1 DEF Placed, Numbered
  <2>6. CASE ~reboot_mode
    <3>1. fboot' = cur
      BY <1>5, <2>2, <2>6 DEF task_init_reboot_mode, Fails
    <3>2. cur \in Tasks /\ status[cur] = "RUN" /\ cur \in Live
      BY <1>1, <2>1, <2>2, HandLive DEF RunType, Shape, Doing
    <3>3. ASSUME NEW u \in Tasks, u > cur PROVE starts[u] = 0
      <4>1. status[u] = "WAIT"
        BY <1>1, <3>3 DEF Shape
      <4>2. Tracked(u) /\ ~Pending(u)
        BY <1>2, <2>6, <4>1 DEF Tracked, Pending
      <4> QED
        BY <4>1, <4>2 DEF Untouched
    <3>4. sfile \in Nat \/ sback \in Nat => fboot = cur
      <4> SUFFICES ASSUME sfile \in Nat \/ sback \in Nat PROVE fboot = cur
        OBVIOUS
      <4>1. fboot # None
        BY <2>1, <2>2 DEF Scripted, None, Twin
      <4> QED
        BY <1>2, <3>2, <4>1, RunsScripted
    <3>5. Numbered(cur) => PlacedRuns'
      <4>1. CASE fboot = cur
        BY <2>4, <3>1, <3>2, <4>1 DEF Placed, Tasks, None
      <4>2. CASE fboot # cur
        BY <2>3, <3>4, <4>2 DEF PlacedRuns
      <4> QED
        BY <4>1, <4>2
    <3> QED
      BY <1>2, <3>1, <3>2, <3>3, <3>5 DEF Placed, Numbered
  <2> QED
    BY <2>5, <2>6
<1>6. CASE task_create_reboot_status(h)
  <2>1. pc[h] \in {"status", "fill"} /\ fboot' = fboot
    BY <1>6 DEF task_create_reboot_status, At
  <2>2. /\ UNCHANGED reboot_mode
        /\ \/ sfile' = Empty /\ sback' = Empty
           \/ sfile' = run_times[T(h)] /\ sback' \in {sfile, run_times[T(h)]}
    BY <1>6 DEF task_create_reboot_status, StatusOpened, Fails
  <2>3. fboot = T(h)
    BY <1>1, <2>1 DEF FilesReady, IsReady
  <2>4. T(h) \in Tasks /\ ~Pending(T(h)) /\ Tracked(T(h)) /\ ~Unrecorded(T(h)) /\ Env[T(h)].may_reboot
    <3>1. T(h) \in Tasks /\ ~Pending(T(h)) /\ Tracked(T(h)) /\ ~Unrecorded(T(h))
      BY <1>1, <1>2, <2>1, RunsTracked
    <3> QED
      BY <1>1, <2>3, <3>1 DEF Rebooted, Tasks, None
  <2>5. run_times[T(h)] \in Nat /\ starts[T(h)] \in Nat
    BY <1>1, <2>4 DEF RunType
  <2>6. Behind(T(h)) = run_times[T(h)] - starts[T(h)]
    BY <2>4, <2>5 DEF Behind, RunsKnown
  <2>7. Numbered(T(h)) => starts[T(h)] <= run_times[T(h)] + 1 + cuts
    BY <1>1, <2>4, <2>5, <2>6 DEF Covered, Repeats
  <2>8. Numbered(T(h)) /\ sfile \in Nat => starts[T(h)] <= sfile + 1 + cuts
    BY <2>3, <2>4 DEF Placed, PlacedRuns, Tasks, None
  <2>9. ASSUME NEW s \in Nat, starts[fboot] <= s + 1 + cuts
        PROVE  starts[fboot] <= s + 1 + cuts + 0 /\ starts[fboot] <= s + 1 + cuts + 1
    BY <1>1, <2>3, <2>5, <2>9
  <2>10. Numbered(fboot) => PlacedRuns'
    <3> SUFFICES ASSUME Numbered(fboot) PROVE PlacedRuns'
      OBVIOUS
    <3>1. sfile' \in Nat => starts[fboot] <= sfile' + 1 + cuts
      BY <2>2, <2>3, <2>7 DEF Empty
    <3>2. sback' \in Nat => starts[fboot] <= sback' + 1 + cuts
      BY <2>2, <2>3, <2>7, <2>8 DEF Empty
    <3> QED
      BY <1>2, <2>1, <2>9, <3>1, <3>2 DEF PlacedRuns
  <2> QED
    BY <1>2, <2>1, <2>2, <2>10 DEF Placed, Numbered
<1> QED
  BY <1>3, <1>4, <1>5, <1>6 DEF Writes

\* The same: every step.
LEMMA PlacedKept ==
  ASSUME RunInv, CountInv, Undying, Scripted, Placed, starts \in [Tasks -> Nat], Covered, Untouched, Twin,
         faults = 0, faults' = 0,
         [Next]_vars
  PROVE  Placed'
<1>1. /\ RunType /\ TaskTypes /\ Rebooted /\ FilesReady /\ HandRuns /\ cuts \in Nat /\ DOMAIN pc = Threads
  BY DEF RunInv, RunType, CountInv, AllTypes, TaskTypes
<1>2. CASE task_recover_after_reboot
  <2>1. UNCHANGED <<fboot, cuts, starts>> /\ sfile' \in {sfile, sback} /\ sback' = sfile' /\ tool = "off"
    BY <1>2 DEF task_recover_after_reboot, bounds, history
  <2>2. tool' # "failed" => reboot_mode'
    BY <1>2 DEF task_recover_after_reboot
  <2>3. fboot \in Tasks
    BY <1>1, <1>2 DEF task_recover_after_reboot, TaskTypes
  <2>4. Numbered(fboot) => PlacedRuns'
    <3> SUFFICES ASSUME Numbered(fboot), sfile' \in Nat PROVE PlacedRuns'
      BY <2>1 DEF PlacedRuns
    <3>1. starts[fboot] <= sfile' + 1 + cuts
      BY <1>1, <2>1, <2>3 DEF Placed, PlacedRuns, Tasks, None
    <3>2. starts[fboot] <= sfile' + 1 + cuts + 0 /\ starts[fboot] <= sfile' + 1 + cuts + 1
      BY <1>1, <2>3, <3>1
    <3> QED
      BY <2>1, <3>1, <3>2 DEF PlacedRuns
  <2> QED
    BY <2>1, <2>2, <2>4 DEF Placed, Numbered
<1>3. ASSUME NEW h \in Threads, ForkTestcase(h) PROVE Placed'
  <2>1. /\ T(h) \in Tasks /\ T(h) \in Live /\ status[T(h)] = "RUN" /\ pc[h] = "fork" /\ tool = "run"
        /\ UNCHANGED <<tool, status, reboot_mode, fboot, sfile, sback, cuts, run_times>>
        /\ UNCHANGED starts \/ starts' = [starts EXCEPT ![T(h)] = @ + 1]
        /\ Tracked(T(h)) /\ Behind(T(h)) = run_times[T(h)] - starts[T(h)]
    BY <1>3, ForkFinds
  <2>2. CASE fboot = None
    BY <2>1, <2>2 DEF Placed
  <2>3. CASE fboot # None
    <3>1. T(h) = fboot /\ Env[fboot].may_reboot
      BY <1>1, <2>1, <2>3, RunsScripted DEF Rebooted
    <3>2. h = "main" /\ cur = fboot
      BY <1>1, <2>1, <3>1, NoneInHand DEF HandRuns, Hands, Doing, Threads, Recycle, T
    <3>3. /\ starts' = [starts EXCEPT ![fboot] = @ + 1] /\ pc' = [pc EXCEPT !["main"] = "record"]
      BY <1>1, <1>3, <2>1, <3>1, <3>2 DEF ForkTestcase, Fails, Goto
    <3>4. Filed /\ ~Filed'
      BY <1>1, <2>1, <3>2, <3>3 DEF Filed, Threads
    <3>5. /\ starts'[fboot] = starts[fboot] + 1 /\ starts[fboot] \in Nat
          /\ \A u \in Tasks : u > fboot => starts'[u] = starts[u]
      BY <2>1, <3>1, <3>3 DEF Tasks
    <3>6. Numbered(fboot) => PlacedRuns'
      <4> SUFFICES ASSUME Numbered(fboot) PROVE PlacedRuns'
        OBVIOUS
      <4>1. sfile = run_times[fboot]
        BY <1>1, <2>1, <3>1 DEF FilesReady, IsReady, Numbered
      <4>2. run_times[fboot] \in Nat /\ run_times[fboot] - starts[fboot] + cuts >= 0
        BY <1>1, <2>1, <3>1 DEF RunType, Covered, Repeats
      <4>3. starts'[fboot] <= sfile + 1 + cuts
        BY <1>1, <3>5, <4>1, <4>2
      <4>4. sback \in Nat => starts[fboot] <= sback + 1 + cuts
        BY <1>1, <2>3, <3>4 DEF Placed, PlacedRuns
      <4>5. sback \in Nat => starts'[fboot] <= sback + 1 + cuts + 1
        BY <1>1, <3>5, <4>4
      <4> QED
        BY <2>1, <3>4, <4>3, <4>5 DEF PlacedRuns
    <3> QED
      BY <2>1, <3>5, <3>6 DEF Placed, Numbered
  <2> QED
    BY <2>2, <2>3
<1>4. ASSUME NEW h \in Threads, Writes(h) PROVE Placed'
  BY <1>4, PlacedWrite
<1>5. CASE /\ ~task_recover_after_reboot
           /\ \A h \in Threads : ~ForkTestcase(h) /\ ~Writes(h)
  <2>1. /\ UNCHANGED <<fboot, sfile, reboot_mode, starts>>
        /\ \A u \in Tasks : status'[u] = "WAIT" => status[u] = "WAIT"
        /\ ~PowerOff => UNCHANGED <<sback, cuts>>
    BY <1>1, <1>5, StepsConfined DEF Confined
  <2>2. tool' # "failed" => tool # "failed"
    BY <1>5, Halted DEF vars
  <2>3. fboot # None => fboot \in Tasks
    BY <1>1 DEF TaskTypes
  <2>4. ASSUME fboot # None, Numbered(fboot) PROVE PlacedRuns'
    <3>1. PlacedRuns /\ starts[fboot] \in Nat
      BY <2>3, <2>4 DEF Placed
    <3>2. CASE PowerOff
      <4>1. /\ tool = "run" /\ tool' = "off"
            /\ \/ sback' = sfile /\ cuts' = cuts
               \/ sback' = sback /\ cuts' = cuts + 1
        BY <3>2 DEF PowerOff
      <4>2. ASSUME cuts' = cuts, sback' = sfile PROVE PlacedRuns'
        <5>1. sfile \in Nat => starts[fboot] <= sfile + 1 + cuts + 0
          BY <1>1, <3>1 DEF PlacedRuns
        <5> QED
          BY <2>1, <3>1, <4>1, <4>2, <5>1 DEF PlacedRuns
      <4>3. ASSUME cuts' = cuts + 1, sback' = sback PROVE PlacedRuns'
        <5>1. sfile \in Nat => starts[fboot] <= sfile + 1 + (cuts + 1)
          BY <1>1, <3>1 DEF PlacedRuns
        <5>2. sback \in Nat => starts[fboot] <= sback + 1 + (cuts + 1) + 0
          <6>1. sback \in Nat => starts[fboot] <= sback + 1 + cuts + 0 \/ starts[fboot] <= sback + 1 + cuts + 1
            BY <3>1 DEF PlacedRuns
          <6> QED
            BY <1>1, <3>1, <6>1
        <5> QED
          BY <2>1, <4>1, <4>3, <5>1, <5>2 DEF PlacedRuns
      <4> QED
        BY <4>1, <4>2, <4>3
    <3>3. CASE ~PowerOff
      <4>1. UNCHANGED <<sback, cuts>> /\ (tool' = "off" => tool = "off")
        BY <2>1, <3>3, OffStays
      <4>2. Filed' => Filed
        <5> SUFFICES ASSUME Filed' PROVE Filed
          OBVIOUS
        <5>1. tool = "run" /\ Env[fboot].may_reboot /\ ~Env[fboot].run_parallel
          <6>1. tool = "run"
            BY <1>5, Halted DEF Filed, vars
          <6> QED
            BY <1>1, <2>4, <6>1 DEF Rebooted, Numbered
        <5>2. ~LockTask("main")
          BY <1>1, <2>1, <5>1 DEF LockTask, Goto, T, Filed, Threads
        <5>3. ~RecordPid("main")
          BY <1>1, <2>1, <5>1 DEF RecordPid, Goto, Leave, T, Filed, Threads
        <5>4. ~task_create_reboot_status("main")
          BY <1>5 DEF Writes, Threads
        <5> QED
          BY <1>1, <1>5, <2>1, <5>1, <5>2, <5>3, <5>4, StepsFiled DEF MovesFiled, AboutTo, Filed
      <4>3. sback \in Nat /\ starts[fboot] <= sback + 1 + cuts + 0 => starts[fboot] <= sback + 1 + cuts + 1
        BY <1>1, <3>1
      <4> QED
        BY <2>1, <3>1, <4>1, <4>2, <4>3 DEF PlacedRuns
    <3> QED
      BY <3>2, <3>3
  <2> QED
    BY <2>1, <2>2, <2>3, <2>4 DEF Placed, Numbered
<1> QED
  BY <1>2, <1>3, <1>4, <1>5

\* The invariant holds in every reachable state.
LEMMA StartInvariant == Steady => (Spec => []StartInv)
<1> SUFFICES ASSUME Steady PROVE Spec => []StartInv
  OBVIOUS
<1>1. Init => StartInv
  <2> SUFFICES ASSUME Init PROVE StartInv
    OBVIOUS
  <2>1. /\ starts = [t \in Tasks |-> 0] /\ run_times = [t \in Tasks |-> 0] /\ ~reboot_mode
        /\ pc["main"] = "list" /\ pc[Recycle] = "top" /\ fboot = None /\ sback = None /\ cuts = 0
    BY DEF Init, Every, AtStart, Threads, Recycle
  <2>2. \A t \in Tasks : /\ ~Pending(t) /\ ~Unrecorded(t) /\ starts[t] = 0 /\ run_times[t] = 0
                         /\ Repeats(t) = 0
    BY <2>1 DEF Pending, Unrecorded, Threads, Recycle, Repeats
  <2>3. Bounded /\ Covered /\ Placed /\ Untouched /\ Twin
    BY <2>1, <2>2, TinaAssumption DEF Bounded, Limit, Covered, Behind, RunsKnown, Placed, Untouched, Twin
  <2> QED
    BY <2>1, <2>3 DEF StartInv
<1>2. RunInv /\ CountInv /\ CleanInv /\ StartInv /\ [Next]_vars => StartInv'
  <2> SUFFICES ASSUME RunInv, CountInv, CleanInv, StartInv, [Next]_vars PROVE StartInv'
    OBVIOUS
  <2>1. RunType /\ TaskTypes /\ starts \in [Tasks -> Nat] /\ Twin
    BY DEF RunInv, CountInv, AllTypes, StartInv
  <2>2. starts' \in [Tasks -> Nat] /\ Twin'
    BY <2>1, StartTypesKept, TwinKept
  <2>3. ASSUME AlwaysReboots, faults' = 0
        PROVE  Tidy /\ Undying /\ Scripted /\ Placed /\ Untouched /\ Covered /\ faults = 0
    <3>1. faults = 0
      BY <2>1, <2>3, FaultsGrow
    <3> QED
      BY <2>3, <3>1 DEF Tidy, CleanInv, StartInv
  <2>4. ASSUME NoReboot \/ (AlwaysReboots /\ faults' = 0) PROVE Bounded' /\ Covered'
    <3>1. NoReboot \/ Tidy
      BY <2>3, <2>4
    <3>2. Bounded /\ Covered /\ (Tidy => Placed)
      BY <3>1 DEF StartInv
    <3> QED
      BY <2>1, <2>4, <3>1, <3>2, BoundedKept, CoveredKept
  <2>5. ASSUME AlwaysReboots, faults' = 0 PROVE Placed' /\ Untouched'
    BY <2>1, <2>3, <2>5, PlacedKept, UntouchedKept
  <2>6. (NoReboot \/ Tidy)' => NoReboot \/ (AlwaysReboots /\ faults' = 0)
    BY DEF NoReboot, Tidy, AlwaysReboots
  <2>7. Tidy' => AlwaysReboots /\ faults' = 0
    BY DEF Tidy, AlwaysReboots
  <2> QED
    BY <2>2, <2>4, <2>5, <2>6, <2>7 DEF StartInv
<1> QED
  BY CountInvariant, RunInvariant, CleanInvariant, <1>1, <1>2, PTL DEF Spec

\* No more calls fail than are allowed to.
LEMMA FaultsBounded == Steady => (Spec => [](faults <= MaxFaults))
<1> SUFFICES ASSUME Steady PROVE Spec => [](faults <= MaxFaults)
  OBVIOUS
<1>1. Init => faults <= MaxFaults
  BY TinaAssumption DEF Init
<1>2. CountInv /\ faults <= MaxFaults /\ [Next]_vars => (faults <= MaxFaults)'
  <2> SUFFICES ASSUME CountInv, faults <= MaxFaults, [Next]_vars PROVE faults' <= MaxFaults
    OBVIOUS
  <2>1. TaskTypes /\ faults \in Nat
    BY DEF CountInv, AllTypes, TaskTypes
  <2>2. CASE task_recover_after_reboot
    BY <2>2 DEF task_recover_after_reboot, bounds
  <2>3. CASE ~task_recover_after_reboot
    <3>1. UNCHANGED faults \/ Fails
      BY <2>1, <2>3, StepsConfined DEF Confined
    <3> QED
      BY <2>1, <3>1, TinaAssumption DEF Fails
  <2> QED
    BY <2>2, <2>3
<1> QED
  BY CountInvariant, <1>1, <1>2, PTL DEF Spec

\* For the same lists, when none can be carried over a reboot, whatever calls fail, or
\* when every run of a test case that may reboot does and none fails: no test case whose
\* runs the status file numbers is started more often than its run_times, and one that
\* may reboot once more for every power cut, the rename of the status file not being
\* synced; whichever thread starts it and wherever reboots and power cuts come between
\* the writing of the status file and the fork.
THEOREM RunsAreBounded ==
  Steady /\ (NoReboot \/ (AlwaysReboots /\ MaxFaults = 0)) => (Spec => []RunsBounded)
<1> SUFFICES ASSUME Steady, NoReboot \/ (AlwaysReboots /\ MaxFaults = 0) PROVE Spec => []RunsBounded
  OBVIOUS
<1>1. ASSUME CountInv, StartInv, faults <= MaxFaults PROVE RunsBounded
  <2>1. faults \in Nat
    BY <1>1 DEF CountInv, AllTypes, TaskTypes
  <2>2. NoReboot \/ Tidy
    BY <1>1, <2>1 DEF Tidy
  <2> QED
    BY <1>1, <2>2 DEF StartInv, Bounded, RunsBounded
<1> QED
  BY CountInvariant, StartInvariant, FaultsBounded, <1>1, PTL

-----------------------------------------------------------------------------
(* Without power cuts: every run is started. *)

\* Nothing but a quit signal cuts short a test case before one that may reboot: the
\* flags do not survive the boot.
NoneCutShort == \A s, t \in Tasks :
  s < t /\ Env[t].may_reboot => ~Env[s].exit_once_failed /\ ~Env[s].whole_limit

\* Why a test case was told to quit.
QuitWhy ==
  /\ ttquit => Signals
  /\ \A t \in Tasks : quit[t] => Env[t].exit_once_failed \/ Env[t].whole_limit

\* The test case has ended, or a thread is about to end it.
Finished(t) ==
  \/ status[t] = "END"
  \/ pc[Recycle] \in Ending /\ tsk = t
  \/ pc["main"] \in {"kill", "clean", "tell", "lastsub"} /\ cur = t

\* What tinatest knows of the starts is all of them.
Even == \A t \in Tasks : Numbered(t) /\ Tracked(t) => Behind(t) = 0

\* Nothing ends before its last run.
RanOut == \A t \in Tasks : Numbered(t) /\ Finished(t) => quit[t] \/ ttquit \/ starts[t] = Limit(t)

\* The machine went down in the run the status file names.
DownInRun == tool = "off" /\ fboot # None /\ Numbered(fboot) =>
  sfile \in Nat /\ sback = sfile /\ starts[fboot] = sfile + 1

\* What comes before the test case of the boot script has had all its runs.
Passed == fboot # None => \A u \in Tasks : u < fboot /\ Numbered(u) => starts[u] = Limit(u)

Resumes == AlwaysReboots /\ NoneCutShort

ExactInv ==
  /\ QuitWhy
  /\ cuts = 0 /\ faults = 0 /\ (NoReboot \/ Resumes) => Even /\ RanOut
  /\ cuts = 0 /\ faults = 0 /\ ~NoReboot /\ Resumes => DownInRun /\ Passed

\* The steps that bring a test case to its end.
Newly(u) ==
  \/ BeginTask /\ reboot_mode /\ reboot_keypath # cur /\ u = cur
  \/ TaskFailed
  \/ task_check_end /\ Ended(tsk) /\ u = tsk
  \/ \E h \in Threads : LastTimes(h) /\ ~(run_times[u] < Limit(u)) /\ u = T(h)

\* Of the steps other than a boot only these do.
LEMMA NewlyFinished ==
  ASSUME RunType, TaskTypes, FromTheFirst, ~task_recover_after_reboot, NEW u \in Tasks,
         Finished(u)', [Next]_vars
  PROVE  Finished(u) \/ Newly(u)
<1> USE TinaAssumption DEF Recycle
<1>c. DOMAIN pc = {"main", "recycle"} /\ Threads = {"main", "recycle"} /\ Finished(u)'
  BY DEF RunType, Threads
<1>1. ASSUME NEW h \in Threads, KillLimits(h) PROVE Finished(u) \/ Newly(u)
  <2>1. /\ UNCHANGED <<status, cur, tsk>>
        /\ pc[h] = "kill"
        /\ \E p \in {"clean", "sub"} : pc' = [pc EXCEPT ![h] = p]
    BY <1>1 DEF KillLimits, tasks, others, local, At, Goto
  <2> QED
    BY <2>1, <1>c DEF Finished, Ending, T
<1>2. ASSUME NEW h \in Threads, task_clean_reboot(h) PROVE Finished(u) \/ Newly(u)
  <2>1. /\ UNCHANGED <<status, cur, tsk>>
        /\ pc[h] = "clean"
        /\ pc' = [pc EXCEPT ![h] = "tell"]
    BY <1>2 DEF task_clean_reboot, tasks, others, local, At, Goto
  <2> QED
    BY <2>1, <1>c DEF Finished, Ending, T
<1>3. ASSUME NEW h \in Threads, CountEnd(h) PROVE Finished(u) \/ Newly(u)
  <2>1. /\ UNCHANGED <<status, cur, tsk>> /\ pc[h] = "sub" /\ pc' = [pc EXCEPT ![h] = "tell"]
    BY <1>3 DEF CountEnd, tasks, others, local, At, Goto
  <2>2. h = Recycle
    BY <1>c, <2>1 DEF FromTheFirst
  <2> QED
    BY <1>c, <2>1, <2>2 DEF Finished, Ending
<1>4. ASSUME NEW h \in Threads, TELL_PARENT(h) PROVE Finished(u) \/ Newly(u)
  <2>1. /\ UNCHANGED <<cur, tsk>> /\ pc[h] = "tell" /\ status' = [status EXCEPT ![T(h)] = "END"]
        /\ pc' = [pc EXCEPT ![h] = IF h = "main" THEN "lastsub" ELSE "again"]
    BY <1>4 DEF TELL_PARENT, others, local, At, Goto
  <2>2. u # T(h) => status'[u] = status[u]
    BY <2>1 DEF TaskTypes
  <2>3. u = T(h) => Finished(u)
    BY <2>1 DEF Finished, T, Ending, Threads
  <2>4. CASE h = "main"
    BY <1>c, <2>1, <2>2, <2>3, <2>4 DEF Finished, T, Ending
  <2>5. CASE h = Recycle
    BY <1>c, <2>1, <2>2, <2>3, <2>5 DEF Finished, T, Ending
  <2> QED
    BY <2>4, <2>5 DEF Threads
<1>5. ASSUME NEW h \in Threads, LockTask(h) PROVE Finished(u) \/ Newly(u)
  <2>1. /\ UNCHANGED <<status, cur, tsk>>
        /\ pc[h] = "lock"
        /\ \E p \in {"reboot", "last"} : pc' = [pc EXCEPT ![h] = p]
    BY <1>5 DEF LockTask, rest, tasks, At, Goto
  <2> QED
    BY <2>1, <1>c DEF Finished, Ending, T
<1>6. ASSUME NEW h \in Threads, task_init_reboot_mode(h) PROVE Finished(u) \/ Newly(u)
  <2>1. /\ UNCHANGED <<status, cur, tsk>>
        /\ pc[h] = "reboot"
        /\ \E p \in {"status", "unlock"} : pc' = [pc EXCEPT ![h] = p]
    BY <1>6 DEF task_init_reboot_mode, Leave, At, Goto
  <2> QED
    BY <2>1, <1>c DEF Finished, Ending, T
<1>7. ASSUME NEW h \in Threads, task_create_reboot_status(h) PROVE Finished(u) \/ Newly(u)
  <2>1. /\ UNCHANGED <<status, cur, tsk>>
        /\ pc[h] \in {"status", "fill"}
        /\ \E p \in {"fill", "last", "unlock"} : pc' = [pc EXCEPT ![h] = p]
    BY <1>7 DEF task_create_reboot_status, tasks, Leave, At, Goto
  <2> QED
    BY <2>1, <1>c DEF Finished, Ending, T
<1>8. ASSUME NEW h \in Threads, LastTimes(h) PROVE Finished(u) \/ Newly(u)
  <2>1. /\ UNCHANGED <<status, cur, tsk>> /\ pc[h] = "last"
        /\ run_times[T(h)] < Limit(T(h)) => pc' = [pc EXCEPT ![h] = "limits"]
        /\ \E p \in {"limits", "kill", "lastsub"} : pc' = [pc EXCEPT ![h] = p]
    BY <1>8 DEF LastTimes, others, local, rest, tasks, At, Goto
  <2>2. CASE run_times[T(h)] < Limit(T(h))
    BY <1>c, <2>1, <2>2 DEF Finished, Ending
  <2>3. CASE ~(run_times[T(h)] < Limit(T(h)))
    <3>1. u # T(h) => Finished(u)
      BY <1>c, <2>1 DEF Finished, Ending, T, Threads
    <3> QED
      BY <1>8, <2>3, <3>1 DEF Newly
  <2> QED
    BY <2>2, <2>3
<1>9. ASSUME NEW h \in Threads, LastSub(h) PROVE Finished(u) \/ Newly(u)
  <2>1. /\ UNCHANGED <<status, cur, tsk>>
        /\ pc[h] = "lastsub"
        /\ pc' = [pc EXCEPT ![h] = "unlock"]
    BY <1>9 DEF LastSub, tasks, Leave, At, Goto
  <2> QED
    BY <2>1, <1>c DEF Finished, Ending, T
<1>10. ASSUME NEW h \in Threads, DoLimits(h) PROVE Finished(u) \/ Newly(u)
  <2>1. /\ UNCHANGED <<status, cur, tsk>>
        /\ pc[h] = "limits"
        /\ \E p \in {"fork", "unlock"} : pc' = [pc EXCEPT ![h] = p]
    BY <1>10 DEF DoLimits, Leave, At, Goto
  <2> QED
    BY <2>1, <1>c DEF Finished, Ending, T
<1>11. ASSUME NEW h \in Threads, ForkTestcase(h) PROVE Finished(u) \/ Newly(u)
  <2>1. /\ UNCHANGED <<status, cur, tsk>>
        /\ pc[h] = "fork"
        /\ \E p \in {"record", "unlock"} : pc' = [pc EXCEPT ![h] = p]
    BY <1>11 DEF ForkTestcase, tasks, Leave, At, Goto
  <2> QED
    BY <2>1, <1>c DEF Finished, Ending, T
<1>12. ASSUME NEW h \in Threads, RecordPid(h) PROVE Finished(u) \/ Newly(u)
  <2>1. /\ UNCHANGED <<status, cur, tsk>>
        /\ pc[h] = "record"
        /\ \E p \in {"fork", "unlock"} : pc' = [pc EXCEPT ![h] = p]
    BY <1>12 DEF RecordPid, Leave, At, Goto
  <2> QED
    BY <2>1, <1>c DEF Finished, Ending, T
<1>13. ASSUME NEW h \in Threads, UnlockTask(h) PROVE Finished(u) \/ Newly(u)
  <2>1. /\ UNCHANGED <<status, cur, tsk>>
        /\ pc[h] = "unlock"
        /\ \E p \in {"again", "started", "failed"} : pc' = [pc EXCEPT ![h] = p]
    BY <1>13 DEF UnlockTask, rest, tasks, At, Goto
  <2> QED
    BY <2>1, <1>c DEF Finished, Ending, T
<1>14. CASE ListTop
  <2>1. /\ UNCHANGED <<status, cur, tsk>>
        /\ pc["main"] = "list"
        /\ \E p \in {"join", "wait", "alone"} : pc' = [pc EXCEPT !["main"] = p]
    BY <1>14 DEF ListTop, others, local, rest, tasks, At, Goto
  <2> QED
    BY <2>1, <1>c DEF Finished, Ending
<1>15. CASE WAIT_CHILD
  <2>1. /\ UNCHANGED <<status, cur, tsk>>
        /\ pc["main"] = "wait"
        /\ pc' = [pc EXCEPT !["main"] = "list"]
    BY <1>15 DEF WAIT_CHILD, tasks, others, local, At, Goto
  <2> QED
    BY <2>1, <1>c DEF Finished, Ending
<1>16. CASE BeginTask
  <2>1. CASE reboot_mode /\ reboot_keypath # cur
    <3>1. /\ tsk' = tsk /\ status' = [status EXCEPT ![cur] = "END"] /\ pc' = [pc EXCEPT !["main"] = "list"]
      BY <1>16, <2>1 DEF BeginTask, NextTask, Goto
    <3>2. u # cur => status'[u] = status[u]
      BY <3>1 DEF TaskTypes
    <3>3. u # cur => Finished(u)
      BY <1>c, <3>1, <3>2 DEF Finished
    <3> QED
      BY <1>16, <2>1, <3>3 DEF Newly
  <2>2. CASE ~(reboot_mode /\ reboot_keypath # cur)
    <3>1. /\ UNCHANGED <<cur, tsk>> /\ status' = [status EXCEPT ![cur] = "RUN"] /\ pc' = [pc EXCEPT !["main"] = "lock"]
      BY <1>16, <2>2 DEF BeginTask, Goto
    <3>2. status'[u] = "END" => status[u] = "END"
      BY <3>1 DEF TaskTypes
    <3> QED
      BY <1>c, <3>1, <3>2 DEF Finished
  <2> QED
    BY <2>1, <2>2
<1>17. CASE TaskStarted
  <2>1. /\ UNCHANGED <<status, cur, tsk>>
        /\ pc["main"] = "started"
        /\ pc' = [pc EXCEPT !["main"] = "after"]
    BY <1>17 DEF TaskStarted, tasks, others, local, At, Goto
  <2> QED
    BY <2>1, <1>c DEF Finished, Ending
<1>18. CASE TaskFailed
  BY <1>18 DEF Newly
<1>19. CASE WaitAlone
  <2>1. /\ UNCHANGED <<status, tsk>>
        /\ pc["main"] = "after"
        /\ pc' = [pc EXCEPT !["main"] = "list"]
    BY <1>19 DEF WaitAlone, rest, tasks, NextTask, At, Goto
  <2> QED
    BY <2>1, <1>c DEF Finished, Ending
<1>20. CASE task_quit_clean
  <2>1. /\ UNCHANGED <<status, cur, tsk, pc>>
        /\ pc["main"] = "join"
    BY <1>20 DEF task_quit_clean, sched, rest, tasks, At, Goto
  <2> QED
    BY <2>1, <1>c DEF Finished, Ending
<1>21. CASE RecycleTop
  <2>1. /\ UNCHANGED <<status, cur, tsk>>
        /\ pc[Recycle] = "top"
        /\ \E p \in {"exit", "wait4"} : pc' = [pc EXCEPT ![Recycle] = p]
    BY <1>21 DEF RecycleTop, others, local, rest, tasks, At, Goto
  <2> QED
    BY <2>1, <1>c DEF Finished, Ending
<1>22. CASE wait4
  <2>1. /\ UNCHANGED <<status, cur, tsk>>
        /\ pc[Recycle] = "wait4"
        /\ \E p \in {"match", "top"} : pc' = [pc EXCEPT ![Recycle] = p]
    BY <1>22 DEF wait4, tasks, At, Goto
  <2> QED
    BY <2>1, <1>c DEF Finished, Ending
<1>23. CASE MatchLeader
  <2>1. /\ UNCHANGED <<status, cur, tsk>>
        /\ pc[Recycle] = "match"
        /\ pc' = [pc EXCEPT ![Recycle] = "top"]
    BY <1>23 DEF MatchLeader, local, At, Goto
  <2> QED
    BY <2>1, <1>c DEF Finished, Ending
<1>24. CASE task_recycle_once
  <2>1. /\ UNCHANGED <<status, cur>>
        /\ pc[Recycle] = "match"
        /\ pc' = [pc EXCEPT ![Recycle] = "check"]
    BY <1>24 DEF task_recycle_once, At, Goto
  <2> QED
    BY <2>1, <1>c DEF Finished, Ending
<1>25. CASE NoMatch
  <2>1. /\ UNCHANGED <<status, cur, tsk>>
        /\ pc[Recycle] = "match"
        /\ pc' = [pc EXCEPT ![Recycle] = "top"]
    BY <1>25 DEF NoMatch, tasks, local, At, Goto
  <2> QED
    BY <2>1, <1>c DEF Finished, Ending
<1>26. CASE task_check_end
  <2>1. /\ UNCHANGED <<status, cur, tsk>> /\ pc[Recycle] = "check"
        /\ ~Ended(tsk) => pc' = [pc EXCEPT ![Recycle] = IF Env[tsk].run_parallel THEN "again" ELSE "lock"]
        /\ \E p \in {"kill", "again", "lock"} : pc' = [pc EXCEPT ![Recycle] = p]
    BY <1>26 DEF task_check_end, others, local, rest, tasks, At, Goto
  <2>2. CASE Ended(tsk)
    <3>1. u # tsk => Finished(u)
      BY <1>c, <2>1 DEF Finished, Ending
    <3> QED
      BY <1>26, <2>2, <3>1 DEF Newly
  <2>3. CASE ~Ended(tsk)
    BY <1>c, <2>1, <2>3 DEF Finished, Ending
  <2> QED
    BY <2>2, <2>3
<1>27. CASE Again
  <2>1. /\ UNCHANGED <<status, cur, tsk>>
        /\ pc[Recycle] = "again"
        /\ \E p \in {"exit", "top"} : pc' = [pc EXCEPT ![Recycle] = p]
    BY <1>27 DEF Again, local, rest, tasks, At, Goto
  <2> QED
    BY <2>1, <1>c DEF Finished, Ending
<1>28. ASSUME NEW t \in Tasks, OnceLimit(t) PROVE Finished(u) \/ Newly(u)
  <2>1. UNCHANGED <<status, cur, tsk, pc>>
    BY <1>28 DEF OnceLimit, sched, tasks, At, Goto
  <2> QED
    BY <2>1, <1>c DEF Finished, Ending
<1>29. ASSUME NEW t \in Tasks, WholeLimit(t) PROVE Finished(u) \/ Newly(u)
  <2>1. UNCHANGED <<status, cur, tsk, pc>>
    BY <1>29 DEF WholeLimit, sched, At, Goto
  <2> QED
    BY <2>1, <1>c DEF Finished, Ending
<1>30. ASSUME NEW t \in Tasks, NEW k \in Slots, Exit(t, k) PROVE Finished(u) \/ Newly(u)
  <2>1. UNCHANGED <<status, cur, tsk, pc>>
    BY <1>30 DEF Exit, sched, tasks, At, Goto
  <2> QED
    BY <2>1, <1>c DEF Finished, Ending
<1>31. CASE task_signal_quit
  <2>1. UNCHANGED <<status, cur, tsk, pc>>
    BY <1>31 DEF task_signal_quit, sched, tasks, At, Goto
  <2> QED
    BY <2>1, <1>c DEF Finished, Ending
<1>32. CASE PowerOff
  <2>1. UNCHANGED <<status, cur, tsk, pc>>
    BY <1>32 DEF PowerOff, sched, tasks, At, Goto
  <2> QED
    BY <2>1, <1>c DEF Finished, Ending
<1>33. CASE task_recover_after_reboot
  BY <1>33
<1>34. CASE Stopped \/ UNCHANGED vars
  <2>1. UNCHANGED <<status, cur, tsk, pc>>
    BY <1>34 DEF Stopped, vars
  <2> QED
    BY <2>1, <1>c DEF Finished
<1>35. CASE task_do_crash
  <2>1. UNCHANGED <<status, cur, tsk, pc>>
    BY <1>35 DEF task_do_crash, sched, tasks, At, Goto
  <2> QED
    BY <2>1, <1>c DEF Finished, Ending
<1> QED
  BY <1>1, <1>2, <1>3, <1>4, <1>5, <1>6, <1>7, <1>8, <1>9, <1>10, <1>11, <1>12, <1>13, <1>14,
     <1>15, <1>16, <1>17, <1>18, <1>19, <1>20, <1>21, <1>22, <1>23, <1>24, <1>25, <1>26, <1>27,
     <1>28, <1>29, <1>30, <1>31, <1>32, <1>33, <1>34, <1>35
  DEF Next, Main, Recycler, Thread, task_begin, task_recycle, task_do, task_recycle_end, Threads,
      Recycle

\* Why a test case was told to quit: every step.
LEMMA QuitWhyKept ==
  ASSUME FlagTypes, QuitWhy, [Next]_vars
  PROVE  QuitWhy'
<1>1. CASE task_recover_after_reboot
  BY <1>1 DEF task_recover_after_reboot, Every, QuitWhy
<1>2. CASE ~task_recover_after_reboot
  BY <1>2, StepsFlagged DEF Flagged, QuitWhy
<1> QED
  BY <1>1, <1>2

\* The starts stay known: every step.
LEMMA EvenKept ==
  ASSUME RunInv, CountInv, CleanInv, StartInv, faults = 0, faults' = 0, NoReboot \/ AlwaysReboots,
         Even, NoReboot \/ DownInRun, [Next]_vars
  PROVE  Even'
<1> SUFFICES ASSUME NEW u \in Tasks, Numbered(u), Tracked(u)' PROVE Behind(u)' = 0
  BY DEF Even, Numbered
<1>1. /\ RunType /\ FlagTypes /\ TaskTypes /\ Meet /\ Shape /\ FromTheFirst /\ HandRuns /\ Rebooted /\ Quiet
      /\ starts \in [Tasks -> Nat] /\ (NoReboot \/ Tidy)
  BY MeetHolds DEF RunInv, CountInv, AllTypes, StartInv, Tidy
<1>2. CASE ~task_recover_after_reboot
  <2>1. Tracked(u) /\ Behind(u)' = Behind(u)
    BY <1>1, <1>2, OrderlyHolds, BehindKept
  <2> QED
    BY <2>1 DEF Even
<1>3. CASE task_recover_after_reboot
  <2>1. ~NoReboot /\ tool = "off" /\ fboot # None
    BY <1>1, <1>3 DEF Quiet, task_recover_after_reboot
  <2>2. Placed /\ (Numbered(fboot) => sback = sfile /\ starts[fboot] = sfile + 1)
    BY <1>1, <2>1 DEF StartInv, DownInRun
  <2>3. /\ fboot \in Tasks /\ sfile' \in Nat /\ sfile' \in {sfile, sback} /\ u >= fboot
        /\ u = fboot => Behind(u)' = sfile' + 1 - starts[u]
        /\ u # fboot => Behind(u)' = 0 - starts[u]
    BY <1>1, <1>3, RecoverBehind
  <2>4. u = fboot => starts[u] = sfile' + 1
    BY <2>2, <2>3
  <2>5. u # fboot => starts[u] = 0
    BY <2>1, <2>2, <2>3 DEF Placed, Tasks
  <2> QED
    BY <2>3, <2>4, <2>5
<1> QED
  BY <1>2, <1>3

\* In reboot mode the main thread passes over what comes before the test case of the
\* boot script, and over nothing else.
LEMMA PassesBefore ==
  ASSUME RunInv, CountInv, CleanInv, Tidy, reboot_mode, pc["main"] = "alone", reboot_keypath # cur
  PROVE  fboot = reboot_keypath /\ fboot # None /\ cur \in Tasks /\ cur < fboot
<1>1. /\ RunType /\ TaskTypes /\ Shape /\ HandRuns /\ Rebooted /\ AloneLive /\ Undying
  BY DEF RunInv, CountInv, AllTypes, CleanInv, Tidy
<1>2. cur \in Tasks /\ reboot_keypath \in Tasks /\ Env[reboot_keypath].may_reboot
  BY <1>1 DEF RunType, TaskTypes, Rebooted
<1>3. pc[Recycle] # "clean"
  BY <1>1, NoneInHand DEF HandRuns, Hands, Ending
<1>4. fboot = reboot_keypath
  BY <1>1, <1>3 DEF Rebooted
<1>5. ~(reboot_keypath < cur)
  <2> SUFFICES ASSUME reboot_keypath < cur PROVE FALSE
    OBVIOUS
  <2>1. status[reboot_keypath] = "RUN"
    BY <1>1, <1>2 DEF Shape, Rebooted, TaskTypes, Tidy
  <2>2. reboot_keypath \in Live
    BY <1>1, <1>2, <2>1 DEF Live, IsLive, Rebooted
  <2>3. cur = reboot_keypath \/ cur = N + 1
    BY <1>1, <1>2, <2>2 DEF AloneLive, RunAlone
  <2> QED
    BY <1>2, <2>3, TinaAssumption DEF Tasks
<1> QED
  BY <1>1, <1>2, <1>4, <1>5 DEF Tasks, Rebooted

\* A test case of which all is known and that has no run left has had all its runs.
LEMMA AllStarted ==
  ASSUME RunInv, CountInv, StartInv, cuts = 0, NoReboot \/ Tidy, Even, tool = "run", NEW h \in Threads,
         pc[h] = "last" \/ (h = Recycle /\ pc[h] = "check"),
         Numbered(T(h)), status[T(h)] = "RUN", ~(run_times[T(h)] < Limit(T(h)))
  PROVE  starts[T(h)] = Limit(T(h))
<1>1. /\ RunType /\ TaskTypes /\ Meet /\ Shape /\ HandRuns /\ Rebooted /\ Bounded /\ starts \in [Tasks -> Nat]
  BY MeetHolds DEF RunInv, CountInv, AllTypes, StartInv
<1>2. T(h) \in Tasks /\ ~Pending(T(h)) /\ Tracked(T(h))
  BY <1>1, RunsTracked
<1>3. run_times[T(h)] \in Int /\ starts[T(h)] \in Int /\ Limit(T(h)) \in Int
  BY <1>1, <1>2, TinaAssumption DEF RunType, Limit
<1>4. Behind(T(h)) = 0 /\ starts[T(h)] <= Limit(T(h))
  BY <1>1, <1>2, <1>3 DEF Even, Bounded, Repeats
<1>5. \/ Behind(T(h)) = run_times[T(h)] - starts[T(h)]
      \/ Behind(T(h)) = run_times[T(h)] + 1 - starts[T(h)]
  BY <1>2, <1>3 DEF Behind, RunsKnown
<1> QED
  BY <1>3, <1>4, <1>5

\* Nothing ends before its last run: every step.
LEMMA RanOutKept ==
  ASSUME RunInv, CountInv, CleanInv, StartInv, cuts = 0, faults = 0, NoReboot \/ Tidy, Even, RanOut,
         NoReboot \/ Passed,
         [Next]_vars
  PROVE  RanOut'
<1> SUFFICES ASSUME NEW u \in Tasks, Numbered(u), Finished(u)'
             PROVE  quit'[u] \/ ttquit' \/ starts'[u] = Limit(u)
  BY DEF RanOut, Limit, Numbered
<1>1. /\ RunType /\ FlagTypes /\ TaskTypes /\ Meet /\ Shape /\ FromTheFirst /\ HandRuns /\ Rebooted /\ Quiet
  BY MeetHolds DEF RunInv, CountInv, AllTypes
<1>2. ~task_recover_after_reboot
  BY DEF task_recover_after_reboot, Finished, Every, AtStart, Threads, Recycle, Ending
<1>3. (quit[u] => quit'[u]) /\ (ttquit => ttquit')
  BY <1>1, <1>2, StepsFlagged DEF Flagged
<1>4. CASE Finished(u)
  <2>1. starts'[u] = starts[u]
    <3>1. ASSUME NEW h \in Threads, ForkTestcase(h) PROVE starts'[u] = starts[u]
      <4>1. /\ T(h) \in Tasks /\ status[T(h)] = "RUN" /\ pc[h] = "fork"
            /\ UNCHANGED starts \/ starts' = [starts EXCEPT ![T(h)] = @ + 1]
        BY <3>1, ForkFinds DEF StartInv
      <4>2. u # T(h)
        <5> SUFFICES ASSUME u = T(h) PROVE FALSE
          OBVIOUS
        <5>1. CASE h = "main"
          BY <1>1, <1>4, <4>1, <5>1 DEF Finished, T, Meet, Hands, Ending
        <5>2. CASE h = Recycle
          BY <1>1, <1>4, <4>1, <5>2 DEF Finished, T, Meet, Hands, Doing, Ending, Recycle
        <5> QED
          BY <5>1, <5>2 DEF Threads, Recycle
      <4> QED
        BY <4>1, <4>2 DEF StartInv
    <3>2. CASE \A h \in Threads : ~ForkTestcase(h)
      BY <1>1, <1>2, <3>2, StepsConfined DEF Confined
    <3> QED
      BY <3>1, <3>2
  <2> QED
    BY <1>3, <1>4, <2>1 DEF RanOut
<1>5. CASE Newly(u)
  <2>1. CASE BeginTask /\ reboot_mode /\ reboot_keypath # cur /\ u = cur
    <3>1. pc["main"] = "alone" /\ starts' = starts
      BY <2>1 DEF BeginTask, At, history
    <3>2. ~NoReboot
      BY <1>1, <2>1 DEF Quiet
    <3>3. Tidy /\ Passed
      BY <3>2
    <3>4. fboot # None /\ cur < fboot
      BY <2>1, <3>1, <3>3, PassesBefore
    <3> QED
      BY <2>1, <3>1, <3>3, <3>4 DEF Passed
  <2>2. CASE TaskFailed
    BY <1>1, <2>2 DEF TaskFailed, At, Rebooted, GivenUp
  <2>3. CASE task_check_end /\ Ended(tsk) /\ u = tsk
    <3>1. pc[Recycle] = "check" /\ tool = "run" /\ UNCHANGED <<starts, quit, ttquit>>
      BY <2>3 DEF task_check_end, At, rest, tasks, history
    <3>2. CASE ttquit \/ quit[tsk]
      BY <2>3, <3>1, <3>2
    <3>3. CASE ~(ttquit \/ quit[tsk])
      <4>1. run_times[tsk] >= Limit(tsk)
        BY <2>3, <3>3 DEF Ended
      <4>2. run_times[tsk] \in Int /\ Limit(tsk) \in Int
        BY <1>1, TinaAssumption DEF RunType, Limit
      <4>3. ~(run_times[tsk] < Limit(tsk))
        BY <4>1, <4>2
      <4>4. status[tsk] = "RUN"
        BY <1>1, <3>1, <4>3 DEF HandRuns
      <4>5. T(Recycle) = tsk /\ Recycle \in Threads
        BY DEF T, Recycle, Threads
      <4>6. starts[tsk] = Limit(tsk)
        BY <2>3, <3>1, <4>3, <4>4, <4>5, AllStarted
      <4> QED
        BY <2>3, <3>1, <4>6
    <3> QED
      BY <3>2, <3>3
  <2>4. ASSUME NEW h \in Threads, LastTimes(h), ~(run_times[u] < Limit(u)), u = T(h)
        PROVE  starts'[u] = Limit(u)
    <3>1. pc[h] = "last" /\ tool = "run" /\ UNCHANGED starts
      BY <2>4 DEF LastTimes, At, rest, history
    <3>2. status[T(h)] = "RUN"
      BY <1>1, <3>1 DEF Shape, HandRuns, Doing, T, Threads, Recycle
    <3> QED
      BY <2>4, <3>1, <3>2, AllStarted
  <2> QED
    BY <1>5, <2>1, <2>2, <2>3, <2>4 DEF Newly
<1> QED
  BY <1>1, <1>2, <1>4, <1>5, NewlyFinished

\* The machine goes down in the run the status file names.
LEMMA DownKept ==
  ASSUME RunInv, CountInv, CleanInv, StartInv, Tidy, cuts' = 0, Even, DownInRun, [Next]_vars
  PROVE  DownInRun'
<1> SUFFICES ASSUME tool' = "off", fboot' # None, Numbered(fboot')
             PROVE  sfile' \in Nat /\ sback' = sfile' /\ starts'[fboot'] = sfile' + 1
  BY DEF DownInRun, Numbered
<1>1. /\ RunType /\ TaskTypes /\ FilesReady /\ Rebooted /\ OneSet
      /\ Undying /\ Scripted /\ Placed /\ starts \in [Tasks -> Nat]
  BY DEF RunInv, CountInv, AllTypes, CleanInv, Tidy, StartInv
<1>2. ~task_recover_after_reboot
  BY DEF task_recover_after_reboot
<1>3. CASE tool # "run"
  BY <1>2, <1>3, Halted DEF vars, DownInRun, Numbered
<1>4. CASE tool = "run"
  <2>1. PowerOff
    BY <1>4, OffStays
  <2>2. cuts' # cuts + 1
    BY <1>1 DEF TaskTypes
  <2>3. PICK t \in Tasks, k \in Slots : proc[t][k] = "alive"
    BY <2>1, <2>2 DEF PowerOff
  <2>4. UNCHANGED <<fboot, sfile, starts>> /\ sback' = sfile
    BY <2>1, <2>2 DEF PowerOff, history
  <2>5. IsKnown(t, k) /\ t \in Live /\ status[t] = "RUN"
    BY <2>3, KnownLive DEF CountInv, AliveKnown, IsKnown
  <2>6. t = fboot /\ Env[t].may_reboot /\ ~Env[t].run_parallel
    BY <1>1, <1>4, <2>4, <2>5, RunsScripted DEF Rebooted, Numbered
  <2>7. sfile = k
    BY <2>3, <2>6 DEF CountInv, FilesCurrent
  <2>8. k \in Nat /\ run_times[t] \in Nat /\ starts[t] \in Nat
    <3>1. k \in Int /\ k >= 0
      BY SlotsNat DEF Slots
    <3> QED
      BY <1>1, <3>1 DEF RunType
  <2>9. Tracked(t)
    <3>1. reboot_mode => t = reboot_keypath
      BY <1>1, <2>5 DEF Rebooted
    <3> QED
      BY <1>4, <2>5, <3>1 DEF Tracked, Tasks
  <2>10. Unrecorded(t) => run_times[t] = k
    BY <1>1, <2>6, <2>7 DEF Unrecorded, FilesReady, IsReady
  <2>11. ~Unrecorded(t) => run_times[t] = k + 1
    <3> SUFFICES ASSUME ~Unrecorded(t) PROVE run_times[t] = k + 1
      OBVIOUS
    <3>1. pid[t][k] = "set"
      BY <2>5 DEF IsKnown, Unrecorded, T, Threads, Recycle
    <3> QED
      BY <1>1, <2>6, <3>1 DEF OneSet, IsLastRun
  <2>12. ~Pending(t)
    <3>1. ~(cur = t /\ pc["main"] \in {"lock", "reboot"})
      BY <2>3 DEF CountInv, NotForked, Late
    <3> QED
      BY <2>5, <3>1 DEF Pending
  <2>13. Behind(t) = 0
    BY <2>6, <2>9 DEF Even, Numbered
  <2>14. starts[t] = k + 1
    BY <2>8, <2>10, <2>11, <2>12, <2>13 DEF Behind, RunsKnown
  <2> QED
    BY <2>4, <2>6, <2>7, <2>8, <2>14
<1> QED
  BY <1>3, <1>4

\* What comes before the test case of the boot script has had all its runs: every step.
LEMMA PassedKept ==
  ASSUME RunInv, CountInv, CleanInv, StartInv, Resumes, faults = 0, faults' = 0, QuitWhy, RanOut,
         Passed,
         [Next]_vars
  PROVE  Passed'
<1>1. /\ RunType /\ TaskTypes /\ Meet /\ Shape /\ HandRuns /\ AloneLive
      /\ Undying /\ Scripted /\ Placed /\ starts \in [Tasks -> Nat]
  BY MeetHolds DEF RunInv, CountInv, AllTypes, CleanInv, Tidy, StartInv, Resumes
<1>2. CASE task_recover_after_reboot
  BY <1>2 DEF task_recover_after_reboot, history, Passed, Limit
<1>3. ASSUME NEW h \in Threads, ForkTestcase(h) PROVE Passed'
  <2>1. /\ T(h) \in Tasks /\ T(h) \in Live /\ status[T(h)] = "RUN" /\ tool = "run" /\ UNCHANGED fboot
        /\ UNCHANGED starts \/ starts' = [starts EXCEPT ![T(h)] = @ + 1]
    BY <1>1, <1>3, ForkFinds
  <2>2. fboot # None => T(h) = fboot
    BY <1>1, <2>1, RunsScripted
  <2>3. ASSUME fboot # None, NEW u \in Tasks, u < fboot PROVE starts'[u] = starts[u]
    <3>1. u # T(h)
      BY <2>2, <2>3 DEF Tasks
    <3> QED
      BY <1>1, <2>1, <3>1
  <2> QED
    BY <2>1, <2>3 DEF Passed, Limit, Numbered
<1>4. ASSUME NEW h \in Threads, Writes(h) PROVE Passed'
  <2>1. UNCHANGED starts
    BY <1>4 DEF Writes, KillLimits, task_clean_reboot, task_init_reboot_mode, task_create_reboot_status,
                history
  <2>2. CASE fboot' \in {None, fboot}
    BY <2>1, <2>2 DEF Passed, Limit, Numbered
  <2>3. CASE fboot' \notin {None, fboot}
    <3>1. task_init_reboot_mode(h) /\ pc[h] = "reboot" /\ fboot' = T(h)
      BY <1>4, <2>3 DEF Writes, KillLimits, task_clean_reboot, task_init_reboot_mode,
                        task_create_reboot_status, flash, At
    <3>2. h = "main" /\ T(h) = cur
      BY <1>1, <3>1, NoneInHand DEF HandRuns, Hands, Doing, Threads, Recycle, T
    <3>3. cur \in Live /\ cur \in Tasks /\ Env[cur].may_reboot
      BY <1>1, <3>1, <3>2, HandLive DEF Doing, Live, CountInv, FromTheFirst
    <3>4. Live = {cur}
      BY <1>1, <3>3 DEF AloneLive, RunAlone
    <3>5. ASSUME NEW u \in Tasks, u < cur, Numbered(u) PROVE starts[u] = Limit(u)
      <4>1. status[u] # "WAIT" /\ u \notin Live
        BY <1>1, <3>4, <3>5 DEF Shape, Tasks
      <4>2. Finished(u)
        BY <1>1, <4>1 DEF Live, IsLive, Finished, TaskTypes, Ending
      <4>3. ~quit[u] /\ ~ttquit
        BY <3>3, <3>5 DEF QuitWhy, Resumes, NoneCutShort, AlwaysReboots
      <4> QED
        BY <3>5, <4>2, <4>3 DEF RanOut
    <3> QED
      BY <2>1, <3>1, <3>2, <3>5 DEF Passed, Limit, Numbered
  <2> QED
    BY <2>2, <2>3
<1>5. CASE /\ ~task_recover_after_reboot
           /\ \A h \in Threads : ~ForkTestcase(h) /\ ~Writes(h)
  <2>1. UNCHANGED <<fboot, starts>>
    BY <1>1, <1>5, StepsConfined DEF Confined
  <2> QED
    BY <2>1 DEF Passed, Limit, Numbered
<1> QED
  BY <1>2, <1>3, <1>4, <1>5

\* The invariant holds in every reachable state.
LEMMA ExactInvariant == Steady => (Spec => []ExactInv)
<1> SUFFICES ASSUME Steady PROVE Spec => []ExactInv
  OBVIOUS
<1>1. Init => ExactInv
  <2> SUFFICES ASSUME Init PROVE ExactInv
    OBVIOUS
  <2>1. /\ starts = [t \in Tasks |-> 0] /\ run_times = [t \in Tasks |-> 0] /\ ~reboot_mode
        /\ pc["main"] = "list" /\ pc[Recycle] = "top" /\ fboot = None /\ ~ttquit
        /\ \A t \in Tasks : ~quit[t] /\ status[t] = "WAIT"
    BY DEF Init, Every, AtStart, Threads, Recycle
  <2>2. \A t \in Tasks : ~Pending(t) /\ ~Unrecorded(t) /\ starts[t] = 0 /\ run_times[t] = 0 /\ ~Finished(t)
    BY <2>1 DEF Pending, Unrecorded, Threads, Recycle, Finished, Ending
  <2>3. QuitWhy /\ Even /\ RanOut /\ DownInRun /\ Passed
    BY <2>1, <2>2 DEF QuitWhy, Even, Behind, RunsKnown, RanOut, DownInRun, Passed
  <2> QED
    BY <2>3 DEF ExactInv
<1>2. RunInv /\ CountInv /\ CleanInv /\ StartInv /\ ExactInv /\ [Next]_vars => ExactInv'
  <2> SUFFICES ASSUME RunInv, CountInv, CleanInv, StartInv, ExactInv, [Next]_vars PROVE ExactInv'
    OBVIOUS
  <2>1. TaskTypes /\ FlagTypes /\ QuitWhy
    BY DEF CountInv, AllTypes, ExactInv
  <2>2. QuitWhy'
    BY <2>1, QuitWhyKept
  <2>3. ASSUME cuts' = 0, faults' = 0, NoReboot \/ Resumes
        PROVE  cuts = 0 /\ faults = 0 /\ (NoReboot \/ Tidy) /\ Even /\ RanOut
               /\ (NoReboot \/ (DownInRun /\ Passed /\ Tidy))
    <3>1. cuts = 0 /\ faults = 0
      BY <2>1, <2>3, CutsGrow, FaultsGrow DEF TaskTypes
    <3> QED
      BY <2>3, <3>1 DEF ExactInv, Resumes, Tidy
  <2>4. ASSUME cuts' = 0, faults' = 0, NoReboot \/ Resumes PROVE Even' /\ RanOut'
    BY <2>3, <2>4, EvenKept, RanOutKept DEF Resumes
  <2>5. ASSUME cuts' = 0, faults' = 0, ~NoReboot, Resumes PROVE DownInRun' /\ Passed'
    BY <2>1, <2>3, <2>5, DownKept, PassedKept
  <2>6. (NoReboot' <=> NoReboot) /\ (Resumes' <=> Resumes)
    BY DEF NoReboot, Resumes, AlwaysReboots, NoneCutShort
  <2> QED
    BY <2>2, <2>4, <2>5, <2>6 DEF ExactInv
<1> QED
  BY CountInvariant, RunInvariant, CleanInvariant, StartInvariant, <1>1, <1>2, PTL DEF Spec

\* For the same lists, unless the only test case is one that ends tinatest when it fails,
\* and when none can be carried over a reboot, or every run of a test case that may reboot
\* does and nothing before it is cut short: at an exit without power cut or fault every
\* test case that was not told to quit was started exactly run_times times, those aside
\* that may reboot and run in parallel.  No reboot makes a run of the others be skipped
\* or repeated, whatever the threads were doing when it came.
THEOREM RunsAreExact ==
  Steady /\ NotOnly /\ (NoReboot \/ (AlwaysReboots /\ NoneCutShort)) => (Spec => []RunsExact)
<1> SUFFICES ASSUME Steady, NotOnly, NoReboot \/ (AlwaysReboots /\ NoneCutShort) PROVE Spec => []RunsExact
  OBVIOUS
<1>1. ASSUME CountInv, ExactInv PROVE RunsExact
  <2> SUFFICES ASSUME tool = "exited", cuts = 0, faults = 0, NEW t \in Tasks, Numbered(t)
               PROVE  quit[t] \/ ttquit \/ starts[t] = Limit(t)
    BY DEF RunsExact
  <2>1. RanOut
    BY <1>1 DEF ExactInv, Resumes
  <2>2. Finished(t)
    BY <1>1, ExitedOver DEF Finished
  <2> QED
    BY <2>1, <2>2 DEF RanOut
<1> QED
  BY CountInvariant, ExactInvariant, <1>1, PTL

=============================================================================
