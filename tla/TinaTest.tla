------------------------------ MODULE TinaTest ------------------------------
(***************************************************************************)
(* tinatest (allwinner/testtools/tinatest): the thread that starts the test  *)
(* cases of the list (task_begin), the thread that waits for the death of    *)
(* every child and starts the next run of the same test case (task_recycle), *)
(* the processes they fork (test cases, the leader of a test case's process  *)
(* group, which limits the time of one run, and the process that limits the  *)
(* time of all runs), the quit signals, and the two files that carry a test  *)
(* case over a reboot: the boot script and the status file.                  *)
(*                                                                          *)
(* A step is one access to what the threads, the processes or a later boot   *)
(* share.  A process that was sent a fatal signal counts as dead.            *)
(***************************************************************************)
EXTENDS Integers, FiniteSets

CONSTANTS
  N,           \* tasks_cnt
  Env,         \* of every task its struct local_env, and what its command does
  UpTo,        \* run_cnt_up_to
  SlowChild,   \* no process dies before the thread that forked it has recorded it
  Signals,     \* a quit signal may come
  MaxCuts,     \* bound on the power cuts
  MaxFaults    \* bound on the calls that fail

Tasks   == 1..N
Threads == {"main", "recycle"}
None    == -1   \* no boot script, no status file, no task
Empty   == -2   \* a status file that is open and not yet written

ASSUME TinaAssumption ==
  /\ N \in Nat \ {0} /\ UpTo \in Nat \ {0}
  /\ MaxCuts \in Nat /\ MaxFaults \in Nat
  /\ DOMAIN Env = Tasks
  /\ \A t \in Tasks : Env[t].run_times \in Nat \ {0}

VARIABLES
  tool,        \* "run", "off" (rebooting), or how tinatest ended
  pc,          \* where each thread is
  ret,         \* what task_do returns to each thread
  cur,         \* task_begin: the task of the list it is at
  tsk,         \* task_recycle: the task whose process died
  got,         \* task_recycle: the death that wait4 returned
  lock,        \* do_task_lock
  status,      \* of each task: "WAIT", "RUN" or "END"
  run_times,   \* of each task
  pid,         \* of each run: "none", "set" (> 0) or "done" (< 0)
  pgid,        \* of each task, in shared memory: 0, 1 (positive) or -1
  quit,        \* of each task, in shared memory
  ttquit,      \* shmem_tt->quit
  running_cnt, end_cnt,
  tokens,      \* bytes in the pipe of TASK_ADD_RECYCLE_ID
  reboot_mode, reboot_keypath, reboot_run_times,
  proc,        \* kernel: of each run: "none", "alive", how it died, "gone" (waited for)
  leader,      \* kernel: the group leader of each task
  limit,       \* kernel: the process limiting all runs of each task
  ttlimit,     \* kernel: the process limiting tinatest
  fboot,       \* flash: the task the boot script names
  sfile,       \* flash: run_times in the status file
  sback,       \* flash: what a power cut may bring back of it
  cuts, faults,
  starts       \* history: how often each test case was started

sched   == <<pc, ret, cur, tsk, got, lock>>
tasks   == <<status, run_times, pid, pgid, quit>>
counts  == <<running_cnt, end_cnt, tokens>>
reboots == <<reboot_mode, reboot_keypath, reboot_run_times>>
kernel  == <<proc, leader, limit, ttlimit>>
flash   == <<fboot, sfile, sback>>
bounds  == <<cuts, faults>>
history == <<starts>>
local   == <<ret, cur, tsk, lock>>
others  == <<tool, local, got>>
rest    == <<tasks, ttquit, counts, reboots, kernel, flash, bounds, history>>
vars    == <<tool, pc, ret, cur, tsk, got, lock, status, run_times, pid, pgid, quit,
             ttquit, running_cnt, end_cnt, tokens, reboot_mode, reboot_keypath,
             reboot_run_times, proc, leader, limit, ttlimit, fboot, sfile, sback,
             cuts, faults, starts>>

Limit(t)  == Env[t].run_times
MaxRuns   == CHOOSE n \in {Limit(t) : t \in Tasks} : \A t \in Tasks : Limit(t) <= n
Slots     == 0..(MaxRuns - 1)
Zombies   == {"pass", "fail", "alarm"}

\* What makes a test case run alone: limit.run_alone as task_load_local_env_do left it
\* (the keys run_alone and exit_tinatest_when_fail both assign it, the last one stays),
\* and task_add_do.
RunAlone(t) == Env[t].run_alone \/ Env[t].may_reboot

NoDeath     == <<1, 0, "none">>
Every(x)    == [t \in Tasks |-> x]
EveryRun(x) == Every([k \in Slots |-> x])
AtStart     == [h \in Threads |-> IF h = "main" THEN "list" ELSE "top"]

\* task_init has built the list, task_begin has started the recycle thread.
Init ==
  /\ tool = "run"
  /\ pc = AtStart /\ ret = [h \in Threads |-> TRUE]
  /\ cur = 1 /\ tsk = 1 /\ got = NoDeath /\ lock = "free"
  /\ status = Every("WAIT") /\ run_times = Every(0) /\ pid = EveryRun("none")
  /\ pgid = Every(0) /\ quit = Every(FALSE) /\ ttquit = FALSE
  /\ running_cnt = 0 /\ end_cnt = 0 /\ tokens = 0
  /\ proc = EveryRun("none") /\ leader = Every("none") /\ limit = Every("none")
  /\ ttlimit = "alive"
  /\ reboot_mode = FALSE /\ reboot_keypath = None /\ reboot_run_times = 0
  /\ fboot = None /\ sfile = None /\ sback = None
  /\ cuts = 0 /\ faults = 0
  /\ starts = Every(0)

\* The task a thread works on.
T(h) == IF h = "main" THEN cur ELSE tsk

At(h, here)  == tool = "run" /\ pc[h] = here
Goto(h, loc) == pc' = [pc EXCEPT ![h] = loc]
Fails        == faults < MaxFaults /\ faults' = faults + 1

-----------------------------------------------------------------------------
(* Signals to a process group.  The leader is a member of it.  A group of    *)
(* which no process is left takes no signal.                                 *)

Struck(t, how) == [k \in Slots |-> IF proc[t][k] = "alive" THEN how ELSE proc[t][k]]

kill(t, how) ==
  /\ proc' = [proc EXCEPT ![t] = Struck(t, how)]
  /\ leader' = [leader EXCEPT ![t] = IF @ = "alive" THEN "dead" ELSE @]

-----------------------------------------------------------------------------
(* task_mod_running_cnt *)

\* Mutant: a task that was started is not counted.
AddNothing == UNCHANGED <<running_cnt, end_cnt>>

ADD == running_cnt' = running_cnt + 1 /\ UNCHANGED end_cnt

\* Mutant: the case SUB of the switch ends in a break.
SubOnly == running_cnt' = running_cnt - 1 /\ UNCHANGED end_cnt

SUB == running_cnt' = running_cnt - 1 /\ end_cnt' = end_cnt + 1

ERR == end_cnt' = end_cnt + 1 /\ UNCHANGED running_cnt

-----------------------------------------------------------------------------
(* task_recycle_end: the end of a test case, by the recycle thread or, for   *)
(* one whose last run rebooted, by task_do in the main thread.               *)

\* Mutant: cleaned up only when it was counted as running.
CarriedAndCounted(t) == reboot_mode /\ Env[t].may_reboot /\ running_cnt > 0

\* The test case has been carried over a reboot.
Carried(t) == reboot_mode /\ Env[t].may_reboot

\* Kill the limiting processes; of a test case carried over a reboot unlink
\* the boot script, the first step of task_clean_reboot.
KillLimits(h) ==
  LET t == T(h) IN
  /\ At(h, "kill")
  /\ limit' = [limit EXCEPT ![t] = IF @ \in {"armed", "fired"} THEN "dead" ELSE @]
  /\ IF Env[t].run_parallel /\ pgid[t] = 1
       THEN kill(t, "fail")
       ELSE UNCHANGED <<proc, leader>>
  /\ IF Carried(t)
       THEN fboot' = None /\ Goto(h, "clean")
       ELSE UNCHANGED fboot /\ Goto(h, "sub")
  /\ UNCHANGED <<others, tasks, ttquit, counts, reboots,
                 ttlimit, sfile, sback, bounds, history>>

\* The rest of task_clean_reboot; the task counts as ended here only when it
\* was counted as running.
task_clean_reboot(h) ==
  /\ At(h, "clean")
  /\ sfile' = None /\ sback' = None
  /\ reboot_mode' = FALSE /\ reboot_keypath' = None /\ reboot_run_times' = 0
  /\ IF running_cnt > 0 THEN SUB ELSE UNCHANGED <<running_cnt, end_cnt>>
  /\ Goto(h, "tell")
  /\ UNCHANGED <<others, tasks, ttquit, tokens, kernel,
                 fboot, bounds, history>>

CountEnd(h) ==
  /\ At(h, "sub")
  /\ SUB
  /\ Goto(h, "tell")
  /\ UNCHANGED <<others, tasks, ttquit, tokens, reboots,
                 kernel, flash, bounds, history>>

\* Mutant: compared as if the count had not been decremented.
GaveUpNone == running_cnt = UpTo

\* The place given up was the one the main thread waits for.
GaveUpLast == running_cnt + 1 = UpTo

\* Wake the main thread.  The main thread returns to task_do, the recycle thread
\* to its loop: it never comes here from task_do.
TELL_PARENT(h) ==
  /\ At(h, "tell")
  /\ tokens' = IF GaveUpLast THEN tokens + 1 ELSE tokens
  /\ status' = [status EXCEPT ![T(h)] = "END"]
  /\ Goto(h, IF h = "main" THEN "lastsub" ELSE "again")
  /\ UNCHANGED <<others, run_times, pid, pgid, quit, ttquit,
                 running_cnt, end_cnt, reboots, kernel, flash, bounds, history>>

task_recycle_end(h) ==
  KillLimits(h) \/ task_clean_reboot(h) \/ CountEnd(h) \/ TELL_PARENT(h)

-----------------------------------------------------------------------------
(* task_do: start one run of a test case (all of them when they run in       *)
(* parallel), by the main thread the first time and by the recycle thread    *)
(* again after each run.                                                     *)

LockTask(h) ==
  /\ At(h, "lock")
  /\ lock = "free"
  /\ lock' = h
  /\ Goto(h, IF Env[T(h)].may_reboot THEN "reboot" ELSE "last")
  /\ UNCHANGED <<tool, ret, cur, tsk, got, rest>>

Leave(h, ok) == Goto(h, "unlock") /\ ret' = [ret EXCEPT ![h] = ok]

\* Mutant: the run that rebooted is counted again.
ResumeAfter == reboot_run_times + 1

\* The run a rebooted test case goes on with.
ResumeAt == reboot_run_times

\* A task found in the status file takes its run_times from there; any other
\* gets a boot script.
task_init_reboot_mode(h) ==
  LET t == T(h) IN
  /\ At(h, "reboot")
  /\ \/ /\ reboot_mode
        /\ run_times' = [run_times EXCEPT ![t] = ResumeAt]
        /\ Goto(h, "status")
        /\ UNCHANGED <<ret, reboots, flash, faults>>
     \/ /\ ~reboot_mode
        /\ reboot_keypath' = t /\ reboot_run_times' = run_times[t]
        /\ fboot' = t
        /\ Goto(h, "status")
        /\ UNCHANGED <<ret, run_times, reboot_mode, sfile, sback, faults>>
     \/ /\ ~reboot_mode /\ Fails
        /\ fboot' = None /\ sfile' = None /\ sback' = None
        /\ reboot_keypath' = None /\ reboot_run_times' = 0
        /\ Leave(h, FALSE)
        /\ UNCHANGED <<run_times, reboot_mode>>
  /\ UNCHANGED <<tool, cur, tsk, got, lock, status, pid, pgid, quit, ttquit, counts,
                 kernel, cuts, history>>

\* Mutant: an existing status file is taken to be good.
StatusKept(h) == IF sfile = None THEN Empty ELSE sfile

\* What is in the status file after it has been opened, or replaced.
StatusOpened(h) == IF sfile = None THEN Empty ELSE run_times[T(h)]

\* An existing status file is replaced by a rename, a new one is written in place.  The
\* new contents are synced, the rename is not: until the next file is synced a power cut
\* may bring back the earlier one.
task_create_reboot_status(h) ==
  /\ \/ /\ At(h, "status")
        /\ sfile' = StatusOpened(h)
        /\ sback' = IF sfile = None THEN Empty ELSE sfile
        /\ Goto(h, IF sfile = None THEN "fill" ELSE "last")
        /\ UNCHANGED <<ret, reboot_mode, faults>>
     \/ /\ At(h, "fill")
        /\ sfile' = run_times[T(h)] /\ sback' = run_times[T(h)]
        /\ Goto(h, "last")
        /\ UNCHANGED <<ret, reboot_mode, faults>>
     \/ /\ At(h, "status") /\ Fails
        /\ reboot_mode' = FALSE
        /\ Leave(h, FALSE)
        /\ UNCHANGED <<sfile, sback>>
  /\ UNCHANGED <<tool, cur, tsk, got, lock, tasks, ttquit, counts, reboot_keypath,
                 reboot_run_times, kernel, fboot, cuts, history>>

\* The last run of this test case rebooted: there is nothing to start.
LastTimes(h) ==
  /\ At(h, "last")
  /\ Goto(h, IF run_times[T(h)] < Limit(T(h)) THEN "limits"
             ELSE IF reboot_mode THEN "kill" ELSE "lastsub")
  /\ UNCHANGED <<others, rest>>

\* Mutant: the recycle thread is left in wait4.
LimitLeft == ttlimit

\* Without other tasks the process limiting tinatest is killed, which makes
\* wait4 of the recycle thread return.
LimitAfterLast == IF end_cnt + 1 = N /\ ttlimit = "alive" THEN "dead" ELSE ttlimit

LastSub(h) ==
  /\ At(h, "lastsub")
  /\ SUB
  /\ ttlimit' = LimitAfterLast
  /\ Leave(h, TRUE)
  /\ UNCHANGED <<tool, cur, tsk, got, lock, tasks, ttquit, tokens, reboots, proc, leader,
                 limit, flash, bounds, history>>

\* The new process is the leader of a new process group.
NewGroup(t) ==
  /\ leader' = [leader EXCEPT ![t] = "alive"]
  /\ pgid' = [pgid EXCEPT ![t] = 1]

\* task_do_limit_tinatest_all, unless that process is still there, and
\* task_do_limit_tinatest_once.  When the first fork fails nobody notices:
\* pid_limit is -1 from then on, which looks like a process that is still there.
DoLimits(h) ==
  LET t == T(h)
      fork(how) == [limit EXCEPT ![t] = IF @ \in {"none", "gone"} THEN how ELSE @]
  IN
  /\ At(h, "limits")
  /\ \/ /\ limit' = fork("armed")
        /\ NewGroup(t) /\ Goto(h, "fork") /\ UNCHANGED <<ret, faults>>
     \/ /\ Fails /\ limit' = fork("failed")
        /\ NewGroup(t) /\ Goto(h, "fork") /\ UNCHANGED ret
     \/ /\ Fails /\ limit' = fork("armed")
        /\ Leave(h, FALSE) /\ UNCHANGED <<leader, pgid>>
  /\ UNCHANGED <<tool, cur, tsk, got, lock, status, run_times, pid, quit, ttquit, counts,
                 reboots, proc, ttlimit, flash, cuts, history>>

\* The new process joins the group or, when the group is gone, exits at once.
ForkTestcase(h) ==
  LET t == T(h)  k == run_times[t] IN
  /\ At(h, "fork")
  /\ \/ /\ proc' = [proc EXCEPT ![t][k] = IF leader[t] = "gone" THEN "fail" ELSE "alive"]
        /\ starts' = [starts EXCEPT ![t] = @ + 1]
        /\ Goto(h, "record")
        /\ UNCHANGED <<ret, leader, faults>>
     \/ Fails /\ kill(t, "fail") /\ Leave(h, FALSE) /\ UNCHANGED starts
  /\ UNCHANGED <<tool, cur, tsk, got, lock, tasks, ttquit, counts, reboots, limit,
                 ttlimit, flash, cuts>>

\* Only now the parent knows the pid, and run_times covers it.
RecordPid(h) ==
  LET t == T(h)  k == run_times[t] IN
  /\ At(h, "record")
  /\ pid' = [pid EXCEPT ![t][k] = "set"]
  /\ run_times' = [run_times EXCEPT ![t] = k + 1]
  /\ IF Env[t].run_parallel /\ k + 1 < Limit(t)
       THEN Goto(h, "fork") /\ UNCHANGED ret
       ELSE Leave(h, TRUE)
  /\ UNCHANGED <<tool, cur, tsk, got, lock, status, pgid, quit, ttquit, counts, reboots,
                 kernel, flash, bounds, history>>

UnlockTask(h) ==
  /\ At(h, "unlock")
  /\ lock' = "free"
  /\ Goto(h, IF h = "recycle" THEN "again" ELSE IF ret[h] THEN "started" ELSE "failed")
  /\ UNCHANGED <<tool, ret, cur, tsk, got, rest>>

task_do(h) ==
  \/ LockTask(h) \/ task_init_reboot_mode(h) \/ task_create_reboot_status(h)
  \/ LastTimes(h) \/ LastSub(h)
  \/ DoLimits(h) \/ ForkTestcase(h) \/ RecordPid(h) \/ UnlockTask(h)

-----------------------------------------------------------------------------
(* task_begin: the main thread *)

NextTask == cur' = cur + 1 /\ Goto("main", "list")

\* run_cnt_up_to tasks are running.
Full == running_cnt >= UpTo

ListTop ==
  /\ At("main", "list")
  /\ Goto("main", IF cur > N THEN "join" ELSE IF Full THEN "wait" ELSE "alone")
  /\ UNCHANGED <<others, rest>>

\* Mutant: the read does not block.
NoByte == TRUE

HasByte == tokens > 0

WAIT_CHILD ==
  /\ At("main", "wait")
  /\ HasByte
  /\ tokens' = tokens - 1
  /\ Goto("main", "list")
  /\ UNCHANGED <<others, tasks, ttquit, running_cnt, end_cnt,
                 reboots, kernel, flash, bounds, history>>

\* Mutant: a task that runs alone does not wait for those before it.
MayBarge == TRUE

MayBegin == RunAlone(cur) => running_cnt <= 0

\* Wait to be alone; in reboot mode skip what comes before the rebooted task.
BeginTask ==
  /\ At("main", "alone")
  /\ MayBegin
  /\ IF reboot_mode /\ reboot_keypath # cur
       THEN /\ status' = [status EXCEPT ![cur] = "END"]
            /\ ERR
            /\ NextTask
       ELSE /\ status' = [status EXCEPT ![cur] = "RUN"]
            /\ Goto("main", "lock")
            /\ UNCHANGED <<cur, running_cnt, end_cnt>>
  /\ UNCHANGED <<tool, ret, tsk, got, lock, run_times, pid, pgid, quit, ttquit, tokens,
                 reboots, kernel, flash, bounds, history>>

TaskStarted ==
  /\ At("main", "started")
  /\ ADD
  /\ Goto("main", "after")
  /\ UNCHANGED <<others, tasks, ttquit, tokens, reboots, kernel,
                 flash, bounds, history>>

TaskFailed ==
  /\ At("main", "failed")
  /\ status' = [status EXCEPT ![cur] = "END"]
  /\ ERR
  /\ NextTask
  /\ UNCHANGED <<tool, ret, tsk, got, lock, run_times, pid, pgid, quit, ttquit, tokens,
                 reboots, kernel, flash, bounds, history>>

\* Mutant: nobody waits for a task that runs alone.
NotAwaited == FALSE

\* A task that runs alone, and is not the last, is waited for.
Awaited == RunAlone(cur) /\ running_cnt > 0 /\ end_cnt + 1 # N

WaitAlone ==
  /\ At("main", "after")
  /\ ~Awaited
  /\ NextTask
  /\ UNCHANGED <<tool, ret, tsk, got, lock, rest>>

\* pthread_join and task_quit_clean.
task_quit_clean ==
  /\ At("main", "join")
  /\ pc["recycle"] = "exit"
  /\ tool' = "exited"
  /\ UNCHANGED <<sched, rest>>

task_begin ==
  ListTop \/ WAIT_CHILD \/ BeginTask \/ TaskStarted \/ TaskFailed \/ WaitAlone \/ task_quit_clean

-----------------------------------------------------------------------------
(* task_recycle: the recycle thread *)

Recycle == "recycle"

\* Mutant: leave when nothing is running.
NothingRuns == running_cnt = 0

AllEnded == end_cnt = N

RecycleTop ==
  /\ At(Recycle, "top")
  /\ Goto(Recycle, IF AllEnded THEN "exit" ELSE "wait4")
  /\ UNCHANGED <<others, rest>>

\* A child to wait for, or one that has died.
HasChild ==
  \/ ttlimit \in {"alive", "dead"}
  \/ \E t \in Tasks :
       \/ leader[t] \in {"alive", "dead"} \/ limit[t] \in {"armed", "fired", "dead"}
       \/ \E k \in Slots : proc[t][k] \in Zombies \cup {"alive"}

wait4 ==
  /\ At(Recycle, "wait4")
  /\ \/ \E t \in Tasks, k \in Slots :
          /\ proc[t][k] \in Zombies
          /\ got' = <<t, k, proc[t][k]>>
          /\ proc' = [proc EXCEPT ![t][k] = "gone"]
          /\ Goto(Recycle, "match")
          /\ UNCHANGED <<leader, limit, ttlimit>>
     \/ \E t \in Tasks :
          /\ leader[t] = "dead"
          /\ got' = <<t, 0, "leader">>
          /\ leader' = [leader EXCEPT ![t] = "gone"]
          /\ Goto(Recycle, "match")
          /\ UNCHANGED <<proc, limit, ttlimit>>
     \/ \E t \in Tasks :
          /\ limit[t] = "dead"
          /\ limit' = [limit EXCEPT ![t] = "gone"]
          /\ Goto(Recycle, "top")
          /\ UNCHANGED <<got, proc, leader, ttlimit>>
     \/ /\ ttlimit = "dead"
        /\ ttlimit' = "gone"
        /\ Goto(Recycle, "top")
        /\ UNCHANGED <<got, proc, leader, limit>>
     \/ /\ ~HasChild
        /\ Goto(Recycle, "top")
        /\ UNCHANGED <<got, kernel>>
  /\ UNCHANGED <<tool, ret, cur, tsk, lock, tasks, ttquit, counts, reboots, flash, bounds,
                 history>>

\* The result of a run is not 0.
Bad(t, how) == how = "fail" \/ (how = "alarm" /\ Env[t].timeout_as_failed)

\* Find whose death it was: a group leader, a run that is recorded, or neither.
MatchLeader ==
  /\ At(Recycle, "match") /\ got[3] = "leader"
  /\ pgid' = IF status[got[1]] = "RUN" /\ pgid[got[1]] = 1
               THEN [pgid EXCEPT ![got[1]] = -1] ELSE pgid
  /\ got' = NoDeath
  /\ Goto(Recycle, "top")
  /\ UNCHANGED <<tool, local, status, run_times, pid, quit, ttquit,
                 counts, reboots, kernel, flash, bounds, history>>

Recorded(t, k) == status[t] = "RUN" /\ k < run_times[t] /\ pid[t][k] = "set"

task_recycle_once ==
  LET t == got[1]  k == got[2] IN
  /\ At(Recycle, "match") /\ got[3] # "leader"
  /\ Recorded(t, k)
  /\ pid' = [pid EXCEPT ![t][k] = "done"]
  /\ quit' = [quit EXCEPT ![t] = @ \/ (Bad(t, got[3]) /\ Env[t].exit_once_failed)]
  /\ IF ~Env[t].run_parallel /\ pgid[t] = 1 THEN kill(t, "fail") ELSE UNCHANGED <<proc, leader>>
  /\ tsk' = t
  /\ Goto(Recycle, "check")
  /\ UNCHANGED <<tool, ret, cur, got, lock, status, run_times, pgid, ttquit, counts, reboots,
                 limit, ttlimit, flash, bounds, history>>

\* No task answers for this pid: nothing happens.
NoMatch ==
  LET t == got[1]  k == got[2] IN
  /\ At(Recycle, "match") /\ got[3] # "leader"
  /\ ~Recorded(t, k)
  /\ got' = NoDeath
  /\ Goto(Recycle, "top")
  /\ UNCHANGED <<tool, local, tasks, ttquit, counts, reboots, kernel, flash,
                 bounds, history>>

\* Quit, or all runs are done.
Ended(t) ==
  \/ ttquit \/ quit[t]
  \/ /\ Env[t].run_parallel => \A k \in Slots : k < run_times[t] => pid[t][k] = "done"
     /\ run_times[t] >= Limit(t)

task_check_end ==
  /\ At(Recycle, "check")
  /\ Goto(Recycle, IF Ended(tsk) THEN "kill"
                   ELSE IF Env[tsk].run_parallel THEN "again" ELSE "lock")
  /\ UNCHANGED <<others, rest>>

\* exit_tinatest_when_fail: the loop that deletes the other tasks goes on from
\* the one it has freed, list_del having cleared its links.
Again ==
  LET stop == Bad(tsk, got[3]) /\ Env[tsk].exit_tinatest_when_fail IN
  /\ At(Recycle, "again")
  /\ Goto(Recycle, IF stop THEN "exit" ELSE "top")
  /\ tool' = IF stop /\ Tasks # {tsk} THEN "crashed" ELSE tool
  /\ got' = NoDeath
  /\ UNCHANGED <<local, rest>>

task_recycle ==
  \/ RecycleTop \/ wait4 \/ MatchLeader \/ task_recycle_once \/ NoMatch
  \/ task_check_end \/ Again

-----------------------------------------------------------------------------
(* The test cases, their limits and the signals *)

\* The thread that forked its processes has recorded and counted them.
Settled(t) == \A h \in Threads :
  T(h) = t => pc[h] \notin {"fork", "record", "unlock", "started"}

Exit(t, k) ==
  /\ tool = "run" /\ proc[t][k] = "alive"
  /\ SlowChild => Settled(t)
  /\ \E how \in Env[t].does \cap {"pass", "fail"} : proc' = [proc EXCEPT ![t][k] = how]
  /\ UNCHANGED <<tool, sched, tasks, ttquit, counts, reboots, leader, limit, ttlimit, flash,
                 bounds, history>>

\* task_do_limit_tinatest_once: one run took too long.
OnceLimit(t) ==
  /\ tool = "run" /\ Env[t].once_limit /\ leader[t] = "alive"
  /\ SlowChild => Settled(t)
  /\ kill(t, "alarm")
  /\ UNCHANGED <<tool, sched, tasks, ttquit, counts, reboots, limit, ttlimit, flash, bounds,
                 history>>

\* task_do_limit_tinatest_all: all runs took too long.
WholeLimit(t) ==
  /\ tool = "run" /\ Env[t].whole_limit
  /\ SlowChild => Settled(t)
  /\ \/ /\ limit[t] = "armed"
        /\ quit' = [quit EXCEPT ![t] = TRUE]
        /\ limit' = [limit EXCEPT ![t] = "fired"]
        /\ UNCHANGED <<proc, leader>>
     \/ /\ limit[t] = "fired"
        /\ limit' = [limit EXCEPT ![t] = "dead"]
        /\ IF pgid[t] = 1 THEN kill(t, "alarm") ELSE UNCHANGED <<proc, leader>>
        /\ UNCHANGED quit
  /\ UNCHANGED <<tool, sched, status, run_times, pid, pgid, ttquit, counts, reboots, ttlimit,
                 flash, bounds, history>>

\* A quit signal, or the time of tinatest is up.  The group of a task that was
\* never started is 0, the group of tinatest itself.
task_signal_quit ==
  /\ tool = "run" /\ Signals /\ ~ttquit
  /\ SlowChild => \A t \in Tasks : Settled(t)
  /\ ttquit' = TRUE
  /\ IF \E t \in Tasks : pgid[t] = 0
       THEN tool' = "killed" /\ UNCHANGED <<proc, leader>>
       ELSE /\ proc' = [t \in Tasks |-> Struck(t, "fail")]
            /\ leader' = [t \in Tasks |-> IF leader[t] = "alive" THEN "dead" ELSE leader[t]]
            /\ UNCHANGED tool
  /\ UNCHANGED <<sched, tasks, counts, reboots, limit, ttlimit, flash, bounds, history>>

-----------------------------------------------------------------------------
(* Reboots *)

\* The command of a test case reboots the machine, which syncs the files, or the power
\* fails.
PowerOff ==
  /\ tool = "run"
  /\ \/ /\ \E t \in Tasks, k \in Slots :
             /\ proc[t][k] = "alive" /\ "reboot" \in Env[t].does
             /\ SlowChild => Settled(t)
        /\ sback' = sfile
        /\ UNCHANGED cuts
     \/ cuts < MaxCuts /\ cuts' = cuts + 1 /\ UNCHANGED sback
  /\ tool' = "off"
  /\ UNCHANGED <<sched, tasks, ttquit, counts, reboots, kernel, fboot, sfile, faults, history>>

\* task_do brings tinatest down: task_create_fboot closes the boot script it could not
\* open, and the result of a run after the last is stored behind the array, which may
\* do no harm.
task_do_crash ==
  /\ \E h \in Threads :
       \/ At(h, "reboot") /\ ~reboot_mode /\ Fails
       \/ At(h, "last") /\ reboot_mode /\ run_times[T(h)] > Limit(T(h)) /\ UNCHANGED faults
  /\ tool' = "crashed"
  /\ UNCHANGED <<sched, tasks, ttquit, counts, reboots, kernel, flash, cuts, history>>

\* Mutant: the run that rebooted is made again.
SameRun(n) == n

\* The status file names the run that rebooted.
FollowingRun(n) == n + 1

\* The boot script calls tinatest -r: main, task_init, task_recover_after_reboot.
\* The process is new: its memory is as in Init except for what the status file says.
task_recover_after_reboot ==
  /\ tool = "off" /\ fboot # None
  /\ \E found \in {sfile, sback} :
       /\ sfile' = found /\ sback' = found
       /\ tool' = IF found \in {None, Empty} THEN "failed" ELSE "run"
       /\ reboot_mode' = (found \notin {None, Empty})
       /\ reboot_run_times' = IF found \in {None, Empty} THEN 0 ELSE FollowingRun(found)
  /\ reboot_keypath' = fboot
  /\ pc' = AtStart /\ ret' = [h \in Threads |-> TRUE]
  /\ cur' = 1 /\ tsk' = 1 /\ got' = NoDeath /\ lock' = "free"
  /\ status' = Every("WAIT") /\ run_times' = Every(0) /\ pid' = EveryRun("none")
  /\ pgid' = Every(0) /\ quit' = Every(FALSE) /\ ttquit' = FALSE
  /\ running_cnt' = 0 /\ end_cnt' = 0 /\ tokens' = 0
  /\ proc' = EveryRun("none") /\ leader' = Every("none") /\ limit' = Every("none")
  /\ ttlimit' = "alive"
  /\ UNCHANGED <<fboot, bounds, history>>

Stopped ==
  /\ tool # "run" /\ ~(tool = "off" /\ fboot # None)
  /\ UNCHANGED vars

-----------------------------------------------------------------------------
Thread(h) == task_do(h) \/ task_recycle_end(h)

Main    == task_begin \/ Thread("main")
Recycler == task_recycle \/ Thread(Recycle)

Next ==
  \/ Main \/ Recycler
  \/ \E t \in Tasks : OnceLimit(t) \/ WholeLimit(t) \/ \E k \in Slots : Exit(t, k)
  \/ task_signal_quit \/ PowerOff \/ task_do_crash \/ task_recover_after_reboot
  \/ Stopped

Spec == Init /\ [][Next]_vars

\* The threads are scheduled, a test case ends, reboots or runs into its limit,
\* and a machine that went down boots.
RunEnds(t) == (\E k \in Slots : Exit(t, k)) \/ OnceLimit(t)

Fairness ==
  /\ WF_vars(Main) /\ WF_vars(Recycler)
  /\ \A t \in Tasks : WF_vars(RunEnds(t))
  /\ WF_vars(PowerOff /\ UNCHANGED cuts) /\ WF_vars(task_recover_after_reboot)

FairSpec == Spec /\ Fairness

-----------------------------------------------------------------------------
\* The types of the variables.  run_times is not bounded by the limit: a power cut
\* after the status file of a finished test case was replaced makes it grow.
TypeOK ==
  /\ tool \in {"run", "off", "exited", "failed", "killed", "crashed"}
  /\ DOMAIN pc = Threads /\ DOMAIN ret = Threads
  /\ cur \in 1..(N + 1) /\ tsk \in Tasks
  /\ lock \in Threads \cup {"free"}
  /\ status \in [Tasks -> {"WAIT", "RUN", "END"}]
  /\ run_times \in [Tasks -> Nat]
  /\ pid \in [Tasks -> [Slots -> {"none", "set", "done"}]]
  /\ pgid \in [Tasks -> {-1, 0, 1}]
  /\ quit \in [Tasks -> BOOLEAN] /\ ttquit \in BOOLEAN
  /\ running_cnt \in Int /\ end_cnt \in Nat /\ tokens \in Nat
  /\ reboot_mode \in BOOLEAN /\ reboot_keypath \in Tasks \cup {None}
  /\ reboot_run_times \in Nat
  /\ fboot \in Tasks \cup {None}
  /\ sfile \in Nat \cup {None, Empty} /\ sback \in Nat \cup {None, Empty}

-----------------------------------------------------------------------------
\* The phase of a test case in the plan.  The recycle thread counts an end before
\* it marks the task, the main thread after.
Phase(t) ==
  LET ending == pc["main"] = "lastsub" /\ cur = t
      ended  == status[t] = "END" \/ (pc[Recycle] = "tell" /\ tsk = t)
  IN  IF status[t] = "WAIT" THEN "wait"
      ELSE IF ended /\ ~ending THEN "end"
      ELSE "run"

Plan == INSTANCE TestPlan WITH
          Alone <- {t \in Tasks : RunAlone(t)}, phase <- [t \in Tasks |-> Phase(t)]

\* The two threads together run the list as TestPlan says: a test case begins in
\* its turn, with less than run_cnt_up_to others, alone if it must be, and ends
\* once, whatever the interleaving of task_begin and task_recycle.
PlanKept == Plan!PlanSpec

Executing == {t \in Tasks : \E k \in Slots : proc[t][k] = "alive"}

\* No more than run_cnt_up_to test cases have processes that execute: the count
\* task_begin tests never falls behind what task_do has forked.
AtMostUpTo == tool = "run" => Cardinality(Executing) <= UpTo

\* While a process of a test case that runs alone executes, none of any other test
\* case does: the waiting before and after it in task_begin is enough, as long as
\* no parallel test case is given up while task_do still forks its runs.
AloneIsAlone == tool = "run" =>
  \A t \in Executing : RunAlone(t) => Executing = {t}

\* When task_begin sleeps in WAIT_CHILD with an empty pipe, the list really is full
\* or task_recycle_end is about to write: counting and telling are two steps,
\* and no end falls between the test of running_cnt and the read.
NoMissedWakeup ==
  At("main", "wait") /\ tokens = 0 =>
    running_cnt >= UpTo \/ (pc[Recycle] = "tell" /\ running_cnt + 1 = UpTo)

\* end_cnt, by which task_recycle decides to leave, is the number of test cases
\* that have ended, however each of them ended.  Not in reboot mode, where an end
\* that comes before its start was counted is dropped with it.
EndsCounted == ~reboot_mode => end_cnt = Cardinality({t \in Tasks : Phase(t) = "end"})

\* When tinatest exits every test case has ended and no process of one is left.
ExitsWhenDone == tool = "exited" =>
  /\ Executing = {}
  /\ \A t \in Tasks : status[t] = "END"

\* While a process that may reboot executes, the boot script names its test case and
\* the status file its run: wherever it reboots, tinatest -r resumes with the next.  Of
\* runs in parallel the status file names the first only.
StatusCurrent ==
  tool = "run" => \A t \in Tasks, k \in Slots :
    Env[t].may_reboot /\ proc[t][k] = "alive" =>
      fboot = t /\ (Env[t].run_parallel \/ sfile = k)

\* The runs of the test case are numbered by the status file, one by one.
Numbered(t) == ~(Env[t].may_reboot /\ Env[t].run_parallel)

\* A power cut that brings back the earlier status file makes one run happen again.
Repeats(t) == IF Env[t].may_reboot THEN cuts ELSE 0

\* No test case is started more often than its limit run_times, reboots and power
\* cuts included (doc/Config.txt: run_times limits how often a test case is run), but
\* for one run per power cut, because the rename of the status file is not synced.
\* A test case that reboots in one run and exits in another is left out, task_do sets
\* its run_times back to what the status file said at boot; and so is one that reboots
\* while its runs are made in parallel, those after the named one are made again.
RunsBounded ==
  \A t \in Tasks : Numbered(t) /\ (Env[t].may_reboot => Env[t].does = {"reboot"}) =>
    starts[t] <= Limit(t) + Repeats(t)

\* When tinatest exits with neither power cut nor fault every test case was started
\* exactly run_times times, unless it was told to quit: no run is skipped or
\* repeated over the reboots, those of runs in parallel excepted.
RunsExact ==
  tool = "exited" /\ cuts = 0 /\ faults = 0 =>
    \A t \in Tasks : Numbered(t) => quit[t] \/ ttquit \/ starts[t] = Limit(t)

\* Every run of a test case that may reboot does, and nothing cuts it short.  One that
\* ends otherwise before its first reboot leaves its boot script (task_recycle_end).
AlwaysReboots ==
  /\ ~Signals
  /\ \A t \in Tasks : Env[t].may_reboot =>
       Env[t].does = {"reboot"} /\ ~Env[t].once_limit /\ ~Env[t].whole_limit

\* When tinatest exits no boot script and no status file is left, wherever power cuts
\* and reboots have interrupted it: task_clean_reboot was reached for every test case
\* that wrote them, and the next boot does not start tinatest again.
CleanAfter ==
  tool = "exited" /\ faults = 0 /\ AlwaysReboots => fboot = None /\ sfile = None

\* tinatest comes to its end: all test cases run out, or a quit signal ends it; the
\* two threads never wait for each other for ever.
Finishes == <>(tool = "exited" \/ (ttquit /\ tool = "killed"))
=============================================================================
