----------------------------- MODULE NativePower -----------------------------
(***************************************************************************)
(* The nativepower daemon (allwinner/power/nativepower) with the            *)
(* wakeup_count back end of libsuspend, the one its autosuspend_init falls   *)
(* through to on a kernel whose /sys/power/state does not know "on".         *)
(*                                                                          *)
(* Four threads: the main loop, the power key thread, the bus thread and    *)
(* the suspend thread.  They share has_sleep, the time of the last user      *)
(* activity, the awake timeout (in memory and in a uci file), the semaphore  *)
(* suspend_lockout and the kernel's wake locks.  A step is one access to     *)
(* something shared.  While the system is suspended no thread runs.          *)
(***************************************************************************)
EXTENDS Integers, Sequences, FiniteSets

CONSTANTS
  Display,      \* NATIVE_POWER_DISPLAY_LOCK
  ClientLocks,  \* the wake locks of other programs
  Timeouts,     \* the timeouts clients ask for
  Confs,        \* what awake_timeout may be when the daemon starts; 0: not set
  Limit,        \* AWAKE_TIMEOUT_LIMIT
  MaxTime,      \* bound on the clock
  MaxEvents,    \* bound on client calls and key events
  MaxFaults     \* bound on failing accesses to the wake lock files

ASSUME PowerAssumption ==
  /\ Display \notin ClientLocks
  /\ Timeouts \subseteq Nat \ {0}
  /\ Confs \subseteq Nat
  /\ Limit \in Nat /\ MaxTime \in Nat \ {0}
  /\ MaxEvents \in Nat /\ MaxFaults \in Nat

VARIABLES
  locks,      \* kernel: the wake locks held
  stirred,    \* kernel: a wakeup event ended since wakeup_count was read
  armed,      \* kernel: wakeup_count was written, a suspend looks for events
  asleep,     \* kernel: the system is suspended
  keys,       \* kernel: power key events not yet read
  held,       \* the power key is held down
  now,        \* the clock
  sem,        \* suspend_lockout
  callback,   \* wakeup_func is set
  has_sleep,
  last,       \* mLastUserActivityTime
  keep,       \* mKeepAwakeTime
  conf,       \* awake_timeout in the uci file
  pc,         \* where each thread is
  seen,       \* isActivityTimeValid: the awakeTimeout it read
  timenow,    \* isActivityTimeValid: the time it read
  down,       \* powerkey_down_ms: "unset", "zero" or "set"
  asked,      \* the timeout the bus thread is about to save
  events,     \* client calls and key events so far
  faults      \* failed accesses so far

power  == <<armed, asleep>>
input  == <<keys, held, now, events>>
kernel == <<locks, stirred, power, input, faults>>
shared == <<sem, callback, has_sleep, last, keep, conf>>
local  == <<seen, timenow, down, asked>>
vars   == <<locks, stirred, armed, asleep, keys, held, now, events, faults, sem,
            callback, has_sleep, last, keep, conf, pc, seen, timenow, down, asked>>

Threads == {"main", "key", "bus", "suspend"}

Init ==
  /\ locks = {} /\ stirred = FALSE /\ armed = FALSE /\ asleep = FALSE
  /\ keys = <<>> /\ held \in BOOLEAN
  /\ now = 1 /\ events = 0 /\ faults = 0
  /\ sem = 0 /\ callback = FALSE /\ has_sleep = FALSE
  /\ last = -1 /\ keep = -1 /\ conf \in Confs
  /\ pc = [t \in Threads |-> IF t = "main" THEN "boot" ELSE "none"]
  /\ seen = 0 /\ timenow = 0 /\ down = "unset" /\ asked = 0

At(t, here)  == pc[t] = here /\ ~asleep
Goto(t, loc) == pc' = [pc EXCEPT ![t] = loc]

-----------------------------------------------------------------------------
(* The kernel.  A wake lock, an unread key event and, with EPOLLWAKEUP, a    *)
(* key thread that is not back in epoll_wait are wakeup events in progress.  *)

InProgress == locks # {} \/ keys # <<>> \/ pc["key"] \notin {"none", "wait"}

\* Nothing has happened since wakeup_count was read.
Undisturbed == ~InProgress /\ ~stirred

\* An access to /sys/power/wake_lock or wake_unlock fails.
Fails == faults < MaxFaults /\ faults' = faults + 1

-----------------------------------------------------------------------------
(* libscenemanager: the wake locks *)

acquire_wake_lock(l) ==
  /\ \/ locks' = locks \cup {l} /\ UNCHANGED faults
     \/ Fails /\ UNCHANGED locks
  /\ UNCHANGED <<stirred, power, input>>

release_wake_lock(l) ==
  /\ \/ /\ locks' = locks \ {l}
        /\ stirred' = (stirred \/ l \in locks)
        /\ UNCHANGED faults
     \/ Fails /\ UNCHANGED <<locks, stirred>>
  /\ UNCHANGED <<power, input>>

-----------------------------------------------------------------------------
(* main: take the display lock, start the suspend thread, let it run, set    *)
(* the callback, read the timeout, start the other threads.                  *)

LockDisplay ==
  /\ At("main", "boot")
  /\ acquire_wake_lock(Display)
  /\ Goto("main", "init")
  /\ UNCHANGED <<shared, local>>

\* Mutant: the display lock is left to the callback.
LockNothing ==
  /\ At("main", "boot")
  /\ Goto("main", "init")
  /\ UNCHANGED <<kernel, shared, local>>

BootLocks == LockDisplay

autosuspend_wakeup_count_init ==
  /\ At("main", "init")
  /\ pc' = [pc EXCEPT !["main"] = "enable", !["suspend"] = "read"]
  /\ UNCHANGED <<kernel, shared, local>>

autosuspend_wakeup_count_enable ==
  /\ At("main", "enable")
  /\ sem' = sem + 1
  /\ Goto("main", "callback")
  /\ UNCHANGED <<kernel, callback, has_sleep, last, keep, conf, local>>

set_wakeup_callback ==
  /\ At("main", "callback")
  /\ callback' = TRUE
  /\ Goto("main", "timeout")
  /\ UNCHANGED <<kernel, sem, has_sleep, last, keep, conf, local>>

init_awake_timeout ==
  /\ At("main", "timeout")
  /\ keep' = IF conf > 0 THEN conf ELSE keep
  /\ pc' = [pc EXCEPT !["main"] = "loop", !["key"] = "wait", !["bus"] = "wait"]
  /\ UNCHANGED <<kernel, sem, callback, has_sleep, last, conf, local>>

-----------------------------------------------------------------------------
(* isActivityTimeValid, once a second in the main loop *)

ReadConf ==
  /\ At("main", "loop")
  /\ seen' = conf
  /\ Goto("main", "adopt")
  /\ UNCHANGED <<kernel, shared, timenow, down, asked>>

\* Mutant: only a longer timeout is adopted.
AdoptsLonger(v) == keep < v /\ v > Limit

\* The configured timeout replaces the one in use.
Adopts(v) == keep # v /\ v > Limit

AdoptConf ==
  /\ At("main", "adopt")
  /\ keep' = IF Adopts(seen) THEN seen ELSE keep
  /\ Goto("main", IF keep' < 0 THEN "loop" ELSE "time")
  /\ UNCHANGED <<kernel, sem, callback, has_sleep, last, conf, local>>

ReadTime ==
  /\ At("main", "time")
  /\ timenow' = now
  /\ last' = IF now < last \/ last <= 0 THEN now ELSE last
  /\ Goto("main", "compare")
  /\ UNCHANGED <<kernel, sem, callback, has_sleep, keep, conf, seen, down, asked>>

\* The clock counts from 1970: a last activity at 0 or -1 is long ago.
Compare ==
  /\ At("main", "compare")
  /\ Goto("main", IF last > 0 /\ timenow - last < keep THEN "loop" ELSE "clear")
  /\ UNCHANGED <<kernel, shared, local>>

ClearTime ==
  /\ At("main", "clear")
  /\ last' = 0
  /\ Goto("main", "count")
  /\ UNCHANGED <<kernel, sem, callback, has_sleep, keep, conf, local>>

isActivityTimeValid == ReadConf \/ AdoptConf \/ ReadTime \/ Compare \/ ClearTime

-----------------------------------------------------------------------------
(* goToSleep, called by the main loop, the key thread and the bus thread *)

\* Where the caller waits for what comes next.
Home(t) == IF t = "main" THEN "loop" ELSE "wait"

\* The key thread's wakeup event ends when it is back in epoll_wait.
GoHome(t) == Goto(t, Home(t)) /\ stirred' = (stirred \/ t = "key")

\* At most one lock is held, or they cannot be counted.
FewLocks(t) ==
  /\ At(t, "count")
  /\ \/ Cardinality(locks) <= 1 /\ UNCHANGED faults
     \/ Fails
  /\ Goto(t, "flag")
  /\ UNCHANGED <<locks, stirred, power, input, shared, local>>

ManyLocks(t) ==
  /\ At(t, "count")
  /\ Cardinality(locks) > 1
  /\ GoHome(t)
  /\ UNCHANGED <<locks, power, input, faults, shared, local>>

SetSleepState(t) ==
  /\ At(t, "flag")
  /\ has_sleep' = TRUE
  /\ Goto(t, "unlock")
  /\ UNCHANGED <<kernel, sem, callback, last, keep, conf, local>>

UnlockDisplay(t) ==
  /\ At(t, "unlock")
  /\ release_wake_lock(Display)
  /\ Goto(t, IF t = "key" THEN "again" ELSE Home(t))
  /\ UNCHANGED <<shared, local>>

goToSleep(t) == FewLocks(t) \/ ManyLocks(t) \/ SetSleepState(t) \/ UnlockDisplay(t)

-----------------------------------------------------------------------------
(* scanPowerKey *)

\* The key thread takes the next event and handles it without goToSleep.
KeyEvent(e) ==
  /\ At("key", "wait")
  /\ keys # <<>> /\ Head(keys) = e
  /\ keys' = Tail(keys)
  /\ UNCHANGED <<locks, power, held, now, events, faults, sem, callback, last, keep,
                 conf, seen, timenow, asked>>

\* A press while has_sleep is set ends the sleep and asks for nothing.
KeyDown ==
  /\ KeyEvent("down")
  /\ stirred' = TRUE
  /\ down' = IF has_sleep THEN "zero" ELSE "set"
  /\ has_sleep' = FALSE
  /\ UNCHANGED pc

\* A release that ends no press, or one too short to measure, or one so long
\* that poweroff is run.
KeyUpIgnored ==
  /\ KeyEvent("up")
  /\ stirred' = TRUE
  /\ down' \in {down, "zero"}
  /\ UNCHANGED <<has_sleep, pc>>

\* A release up to two seconds after the press.  What powerkey_down_ms holds
\* before the first press is anything.
KeyUpSleeps ==
  /\ KeyEvent("up")
  /\ down # "zero"
  /\ Goto("key", "count")
  /\ UNCHANGED <<stirred, down, has_sleep>>

\* goToSleep returned 0.
KeySetsSleepState ==
  /\ At("key", "again")
  /\ has_sleep' = TRUE
  /\ GoHome("key")
  /\ UNCHANGED <<locks, power, input, faults, sem, callback, last, keep, conf, local>>

scanPowerKey == KeyDown \/ KeyUpIgnored \/ KeyUpSleeps \/ KeySetsSleepState

-----------------------------------------------------------------------------
(* filter_func: one client call at a time *)

Call == events < MaxEvents /\ events' = events + 1

BusGoToSleep ==
  /\ At("bus", "wait") /\ Call
  /\ Goto("bus", "count")
  /\ UNCHANGED <<locks, stirred, power, keys, held, now, faults, shared, local>>

BusAcquires ==
  /\ At("bus", "wait")
  /\ \E l \in ClientLocks : acquire_wake_lock(l)
  /\ UNCHANGED <<shared, pc, local>>

BusReleases ==
  /\ At("bus", "wait")
  /\ \E l \in ClientLocks \cap locks : release_wake_lock(l)
  /\ UNCHANGED <<shared, pc, local>>

userActivity ==
  /\ At("bus", "wait") /\ Call
  /\ last' = now
  /\ UNCHANGED <<locks, stirred, power, keys, held, now, faults, sem, callback,
                 has_sleep, keep, conf, pc, local>>

\* First the variable, then the file.
set_awake_timeout ==
  /\ At("bus", "wait") /\ Call
  /\ \E v \in Timeouts : v >= Limit /\ keep' = v /\ asked' = v
  /\ Goto("bus", "save")
  /\ UNCHANGED <<locks, stirred, power, keys, held, now, faults, sem, callback,
                 has_sleep, last, conf, seen, timenow, down>>

SaveTimeout ==
  /\ At("bus", "save")
  /\ conf' = asked
  /\ Goto("bus", "wait")
  /\ UNCHANGED <<kernel, sem, callback, has_sleep, last, keep, local>>

filter_func ==
  BusGoToSleep \/ BusAcquires \/ BusReleases \/ userActivity \/ set_awake_timeout

-----------------------------------------------------------------------------
(* suspend_thread_func *)

\* read(wakeup_count) waits until no wakeup event is in progress.
ReadCount ==
  /\ At("suspend", "read") /\ ~InProgress
  /\ stirred' = FALSE
  /\ Goto("suspend", "lockout")
  /\ UNCHANGED <<locks, power, input, faults, shared, local>>

\* Mutant: the lockout is looked at and not taken.
NotTaken(n) == n

\* sem_wait
Taken(n) == n - 1

WaitLockout ==
  /\ At("suspend", "lockout") /\ sem > 0
  /\ sem' = Taken(sem)
  /\ Goto("suspend", "write")
  /\ UNCHANGED <<kernel, callback, has_sleep, last, keep, conf, local>>

\* Mutants: the refusal is overlooked; the lockout is not released after it.
AlwaysSleep == "mem"
NoPost      == IF Undisturbed THEN "mem" ELSE "read"

\* write(wakeup_count) is refused when something has happened since the read;
\* then there is no suspend and no callback.
AfterCount == IF Undisturbed THEN "mem" ELSE "post"

WriteCount ==
  /\ At("suspend", "write")
  /\ armed' = Undisturbed
  /\ Goto("suspend", AfterCount)
  /\ UNCHANGED <<locks, stirred, asleep, input, faults, shared, local>>

\* write(state, "mem"): the system is suspended, or the write fails, which it
\* must when an armed kernel has seen an event.
WriteMem ==
  /\ At("suspend", "mem")
  /\ asleep' \in {FALSE, armed => Undisturbed}
  /\ armed' = FALSE
  /\ Goto("suspend", "resumed")
  /\ UNCHANGED <<locks, stirred, input, faults, shared, local>>

\* Resumed, or never suspended: the callback, if there is one.
Resumed ==
  /\ At("suspend", "resumed")
  /\ Goto("suspend", IF callback THEN "awake" ELSE "post")
  /\ UNCHANGED <<kernel, shared, local>>

PostLockout ==
  /\ At("suspend", "post")
  /\ sem' = sem + 1
  /\ Goto("suspend", "read")
  /\ UNCHANGED <<kernel, callback, has_sleep, last, keep, conf, local>>

\* wakeup_callback: the flag, the lock, the time.
WakeFlag ==
  /\ At("suspend", "awake")
  /\ has_sleep' = FALSE
  /\ Goto("suspend", "relock")
  /\ UNCHANGED <<kernel, sem, callback, last, keep, conf, local>>

WakeLock ==
  /\ At("suspend", "relock")
  /\ acquire_wake_lock(Display)
  /\ Goto("suspend", "invalidate")
  /\ UNCHANGED <<shared, local>>

invalidateActivityTime ==
  /\ At("suspend", "invalidate")
  /\ last' = -1
  /\ Goto("suspend", "post")
  /\ UNCHANGED <<kernel, sem, callback, has_sleep, keep, conf, local>>

wakeup_callback == WakeFlag \/ WakeLock \/ invalidateActivityTime

suspend_thread_func ==
  ReadCount \/ WaitLockout \/ WriteCount \/ WriteMem \/ Resumed \/ PostLockout

-----------------------------------------------------------------------------
(* The environment *)

\* Time passes, or somebody sets the clock.
Clock ==
  /\ now' \in 1..MaxTime \ {now}
  /\ UNCHANGED <<locks, stirred, power, keys, held, events, faults, shared, pc, local>>

\* The power key is pressed or released; that also wakes the system.
PowerKey ==
  /\ pc["key"] # "none" /\ Call
  /\ held' = ~held
  /\ keys' = Append(keys, IF held THEN "up" ELSE "down")
  /\ asleep' = FALSE
  /\ UNCHANGED <<locks, stirred, armed, now, faults, shared, pc, local>>

\* Something else wakes it.
Wake ==
  /\ asleep
  /\ asleep' = FALSE
  /\ stirred' = TRUE
  /\ UNCHANGED <<locks, armed, input, faults, shared, pc, local>>

-----------------------------------------------------------------------------

main ==
  \/ BootLocks \/ autosuspend_wakeup_count_init
  \/ autosuspend_wakeup_count_enable \/ set_wakeup_callback \/ init_awake_timeout
  \/ isActivityTimeValid \/ goToSleep("main")

key     == scanPowerKey \/ goToSleep("key")
bus     == SaveTimeout \/ goToSleep("bus")
suspend == suspend_thread_func \/ wakeup_callback

Next == main \/ key \/ bus \/ suspend \/ filter_func \/ Clock \/ PowerKey \/ Wake

Spec == Init /\ [][Next]_vars

\* Every thread that can take a step does.  The suspend thread sleeps for
\* 100 ms in each round, so the others also run when the system is suspended
\* again and again.  Clients, the clock, the key and the wake-up sources owe
\* nothing.
LiveSpec ==
  Spec /\ SF_vars(main) /\ SF_vars(key) /\ SF_vars(bus) /\ WF_vars(suspend)

-----------------------------------------------------------------------------

KernelTypes ==
  /\ locks \subseteq ClientLocks \cup {Display}
  /\ stirred \in BOOLEAN /\ armed \in BOOLEAN /\ asleep \in BOOLEAN
  /\ held \in BOOLEAN /\ keys \in Seq({"down", "up"})
  /\ now \in 1..MaxTime
  /\ events \in 0..MaxEvents /\ faults \in 0..MaxFaults

DataTypes ==
  /\ callback \in BOOLEAN /\ has_sleep \in BOOLEAN
  /\ last \in -1..MaxTime /\ timenow \in 0..MaxTime
  /\ keep \in Timeouts \cup Confs \cup {-1}
  /\ conf \in Timeouts \cup Confs /\ seen \in Timeouts \cup Confs \cup {0}
  /\ asked \in Timeouts \cup {0}
  /\ down \in {"unset", "zero", "set"}

ControlTypes ==
  /\ DOMAIN pc = Threads
  /\ pc["main"] \in {"boot", "init", "enable", "callback", "timeout", "loop", "adopt",
                    "time", "compare", "clear", "count", "flag", "unlock"}
  /\ pc["key"] \in {"none", "wait", "count", "flag", "unlock", "again"}
  /\ pc["bus"] \in {"none", "wait", "count", "flag", "unlock", "save"}
  /\ pc["suspend"] \in {"none", "read", "lockout", "write", "mem", "resumed",
                       "awake", "relock", "invalidate", "post"}

\* The semaphore is a lock: autosuspend_enable releases it once, the suspend
\* thread takes and releases it in turn (autosuspend_wakeup_count.c:67, :93,
\* :109), so it is never above 1.  The other variables have their types, and
\* the threads are where their functions can be.
TypeOK == sem \in 0..1 /\ KernelTypes /\ DataTypes /\ ControlTypes

\* "allowing it to enter suspend if no wakelocks/wakeup_sources are held"
\* (libsuspend/include/suspend/autosuspend.h:27): whatever is acquired between
\* the read of wakeup_count, the lockout, the write of wakeup_count and the
\* write of "mem", the system is never suspended over a wake lock.
NoSuspendWithLock == asleep => locks = {}

\* "a function to be called each time the device returns from suspend"
\* (autosuspend.h:49): the suspend thread runs before the callback is set, and
\* only the display lock keeps it from suspending until then.
CallbackOnResume == asleep /\ faults = 0 => callback

\* A granted sleep ends: once the display lock is given up it is taken again by
\* the callback (daemon/main.c:25), whatever locks, refused writes, failed
\* suspends and failed accesses come in between, provided clients give up their
\* locks and something always wakes the system.
SleepEnds ==
  (<>[](locks \subseteq {Display}) /\ []<>~asleep)
    => [](Display \notin locks => <>(Display \in locks))

\* The timeout in use becomes the configured one (daemon/power_manager.c:95,
\* :154), though a main loop that read the old one may first undo what a client
\* has set.  A timeout of exactly the limit is not covered: it may stay undone.
TimeoutTakesEffect == []<>~asleep => <>[](conf > Limit => keep = conf)
=============================================================================
