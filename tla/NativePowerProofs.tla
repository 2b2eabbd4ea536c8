-------------------------- MODULE NativePowerProofs --------------------------
(***************************************************************************)
(* For every set of clients, timeouts and every bound: the system is never   *)
(* suspended over a wake lock, and never before the wake-up callback is set. *)
(***************************************************************************)
EXTENDS NativePower, TLAPS

\* What the prover has to know of the variables' types.
Shape ==
  /\ DOMAIN pc = Threads
  /\ asleep \in BOOLEAN /\ armed \in BOOLEAN
  /\ faults \in Nat

\* "mem" is written only after wakeup_count was accepted.
ArmedFirst == pc["suspend"] = "mem" => armed

\* Until the callback is set only main and the suspend thread exist, and from
\* the start of the suspend thread on the display lock keeps it from reading
\* wakeup_count.
Booting ==
  /\ ~asleep
  /\ pc["key"] = "none" /\ pc["bus"] = "none"
  /\ \/ pc["main"] = "boot" /\ pc["suspend"] = "none"
     \/ /\ pc["main"] \in {"init", "enable", "callback"}
        /\ pc["suspend"] \in {"none", "read"}
        /\ Display \in locks

BootOrder == faults = 0 => callback \/ Booting

PowerInv == Shape /\ ArmedFirst /\ NoSuspendWithLock /\ BootOrder

-----------------------------------------------------------------------------

\* The invariant holds when the daemon starts.
LEMMA InitInv == Init => PowerInv
<1> SUFFICES ASSUME Init PROVE PowerInv
  OBVIOUS
<1>1. Shape
  BY DEF Init, Shape
<1>2. /\ pc["main"] = "boot" /\ pc["suspend"] = "none"
      /\ pc["key"] = "none" /\ pc["bus"] = "none"
  BY DEF Init, Threads
<1>3. ArmedFirst /\ NoSuspendWithLock
  BY <1>2 DEF Init, ArmedFirst, NoSuspendWithLock
<1>4. BootOrder
  BY <1>2 DEF Init, BootOrder, Booting
<1> QED  BY <1>1, <1>3, <1>4 DEF PowerInv

\* main up to its loop, and isActivityTimeValid.
LEMMA MainStep ==
  ASSUME PowerInv, main, ~goToSleep("main")
  PROVE  PowerInv'
<1> USE DEF PowerInv, Shape, ArmedFirst, NoSuspendWithLock, BootOrder, Booting,
       Threads, At, Goto, kernel, power, input, shared, local
<1>1. CASE BootLocks
  BY <1>1 DEF BootLocks, LockDisplay, acquire_wake_lock, Fails
<1>2. CASE autosuspend_wakeup_count_init
  BY <1>2 DEF autosuspend_wakeup_count_init
<1>3. CASE autosuspend_wakeup_count_enable
  BY <1>3 DEF autosuspend_wakeup_count_enable
<1>4. CASE set_wakeup_callback
  BY <1>4 DEF set_wakeup_callback
<1>5. CASE init_awake_timeout
  BY <1>5 DEF init_awake_timeout
<1>6. CASE ReadConf
  BY <1>6 DEF ReadConf
<1>7. CASE AdoptConf
  BY <1>7 DEF AdoptConf
<1>8. CASE ReadTime
  BY <1>8 DEF ReadTime
<1>9. CASE Compare
  BY <1>9 DEF Compare
<1>10. CASE ClearTime
  BY <1>10 DEF ClearTime
<1> QED  BY <1>1, <1>2, <1>3, <1>4, <1>5, <1>6, <1>7, <1>8, <1>9, <1>10 DEF main,
       isActivityTimeValid

\* goToSleep, whoever calls it.
LEMMA SleepStep ==
  ASSUME PowerInv, NEW t \in {"main", "key", "bus"}, goToSleep(t)
  PROVE  PowerInv'
<1> USE DEF PowerInv, Shape, ArmedFirst, NoSuspendWithLock, BootOrder, Booting,
       Threads, At, Goto, kernel, power, input, shared, local
<1>1. CASE FewLocks(t)
  BY <1>1 DEF FewLocks, Fails
<1>2. CASE ManyLocks(t)
  BY <1>2 DEF ManyLocks, GoHome, Home
<1>3. CASE SetSleepState(t)
  BY <1>3 DEF SetSleepState
<1>4. CASE UnlockDisplay(t)
  BY <1>4 DEF UnlockDisplay, release_wake_lock, Fails, Home
<1> QED  BY <1>1, <1>2, <1>3, <1>4 DEF goToSleep

\* scanPowerKey.
LEMMA KeyStep ==
  ASSUME PowerInv, scanPowerKey
  PROVE  PowerInv'
<1> USE DEF PowerInv, Shape, ArmedFirst, NoSuspendWithLock, BootOrder, Booting,
       Threads, At, Goto, kernel, power, input, shared, local
<1>1. CASE KeyDown
  BY <1>1 DEF KeyDown, KeyEvent
<1>2. CASE KeyUpIgnored
  BY <1>2 DEF KeyUpIgnored, KeyEvent
<1>3. CASE KeyUpSleeps
  BY <1>3 DEF KeyUpSleeps, KeyEvent
<1>4. CASE KeySetsSleepState
  BY <1>4 DEF KeySetsSleepState, GoHome, Home
<1> QED  BY <1>1, <1>2, <1>3, <1>4 DEF scanPowerKey

\* filter_func.
LEMMA BusStep ==
  ASSUME PowerInv, filter_func \/ SaveTimeout
  PROVE  PowerInv'
<1> USE DEF PowerInv, Shape, ArmedFirst, NoSuspendWithLock, BootOrder, Booting,
       Threads, At, Goto, kernel, power, input, shared, local
<1>1. CASE BusGoToSleep
  BY <1>1 DEF BusGoToSleep, Call
<1>2. CASE BusAcquires
  BY <1>2 DEF BusAcquires, acquire_wake_lock, Fails
<1>3. CASE BusReleases
  BY <1>3 DEF BusReleases, release_wake_lock, Fails
<1>4. CASE userActivity
  BY <1>4 DEF userActivity, Call
<1>5. CASE set_awake_timeout
  BY <1>5 DEF set_awake_timeout, Call
<1>6. CASE SaveTimeout
  BY <1>6 DEF SaveTimeout
<1> QED  BY <1>1, <1>2, <1>3, <1>4, <1>5, <1>6 DEF filter_func

\* suspend_thread_func and the callback.
LEMMA SuspendStep ==
  ASSUME PowerInv, suspend
  PROVE  PowerInv'
<1> USE DEF PowerInv, Shape, ArmedFirst, NoSuspendWithLock, BootOrder, Booting,
       Threads, At, Goto, kernel, power, input, shared, local
<1>1. CASE ReadCount
  BY <1>1 DEF ReadCount, InProgress
<1>2. CASE WaitLockout
  BY <1>2 DEF WaitLockout
<1>3. CASE WriteCount
  <2>1. armed' \in BOOLEAN /\ (AfterCount = "mem" => armed')
    BY <1>3, Zenon DEF WriteCount, AfterCount, Undisturbed, InProgress
  <2>2. /\ DOMAIN pc' = Threads /\ pc'["suspend"] = AfterCount
        /\ \A t \in Threads \ {"suspend"} : pc'[t] = pc[t]
    BY <1>3 DEF WriteCount
  <2>3. ~asleep /\ UNCHANGED <<asleep, locks, faults, callback>> /\ ~Booting
    BY <1>3 DEF WriteCount
  <2> QED  BY <2>1, <2>2, <2>3
<1>4. CASE WriteMem
  <2>1. armed /\ ~asleep
    BY <1>4 DEF WriteMem
  <2>2. asleep' \in BOOLEAN /\ (asleep' => Undisturbed)
    BY <1>4, <2>1, Zenon DEF WriteMem
  <2>3. asleep' => locks' = {}
    BY <1>4, <2>2 DEF WriteMem, Undisturbed, InProgress
  <2>4. armed' = FALSE /\ faults' = faults /\ locks' = locks /\ callback' = callback
    BY <1>4 DEF WriteMem
  <2>5. DOMAIN pc' = Threads /\ pc'["suspend"] = "resumed" /\ ~Booting
    BY <1>4 DEF WriteMem
  <2> QED  BY <2>2, <2>3, <2>4, <2>5
<1>5. CASE Resumed
  BY <1>5 DEF Resumed
<1>6. CASE PostLockout
  BY <1>6 DEF PostLockout
<1>7. CASE WakeFlag
  BY <1>7 DEF WakeFlag
<1>8. CASE WakeLock
  BY <1>8 DEF WakeLock, acquire_wake_lock, Fails
<1>9. CASE invalidateActivityTime
  BY <1>9 DEF invalidateActivityTime
<1> QED  BY <1>1, <1>2, <1>3, <1>4, <1>5, <1>6, <1>7, <1>8, <1>9 DEF suspend,
       suspend_thread_func, wakeup_callback

\* The environment, and nothing at all.
LEMMA KernelStep ==
  ASSUME PowerInv, Clock \/ PowerKey \/ Wake \/ UNCHANGED vars
  PROVE  PowerInv'
<1> USE DEF PowerInv, Shape, ArmedFirst, NoSuspendWithLock, BootOrder, Booting,
       Threads, At, Goto, kernel, power, input, shared, local
<1>1. CASE Clock
  BY <1>1 DEF Clock
<1>2. CASE PowerKey
  <2>1. asleep' = FALSE
    BY <1>2 DEF PowerKey
  <2>2. UNCHANGED <<locks, armed, faults, callback, pc>>
    BY <1>2 DEF PowerKey
  <2> QED  BY <2>1, <2>2
<1>3. CASE Wake
  <2>1. asleep' = FALSE
    BY <1>3 DEF Wake
  <2>2. UNCHANGED <<locks, armed, faults, callback, pc>>
    BY <1>3 DEF Wake
  <2> QED  BY <2>1, <2>2
<1>4. CASE UNCHANGED vars
  BY <1>4 DEF vars
<1> QED  BY <1>1, <1>2, <1>3, <1>4

\* Every step keeps the invariant.
LEMMA NextInv == PowerInv /\ [Next]_vars => PowerInv'
<1> SUFFICES ASSUME PowerInv, [Next]_vars PROVE PowerInv'
  OBVIOUS
<1>1. CASE main
  BY <1>1, MainStep, SleepStep
<1>2. CASE key
  BY <1>2, KeyStep, SleepStep DEF key
<1>3. CASE bus \/ filter_func
  BY <1>3, BusStep, SleepStep DEF bus
<1>4. CASE suspend
  BY <1>4, SuspendStep
<1>5. CASE Clock \/ PowerKey \/ Wake \/ UNCHANGED vars
  BY <1>5, KernelStep
<1> QED  BY <1>1, <1>2, <1>3, <1>4, <1>5 DEF Next

\* The invariant in every reachable state.
LEMMA PowerInvariant == Spec => []PowerInv
  BY InitInv, NextInv, PTL DEF Spec

\* Whatever the clients, the key and the clock do, and whichever accesses fail,
\* the daemon never lets the system be suspended over a wake lock
\* (autosuspend_wakeup_count.c:76): "mem" is written only after an accepted
\* wakeup_count, and from then on the kernel refuses over a lock.
THEOREM NeverSuspendedWithLock == Spec => []NoSuspendWithLock
<1>1. PowerInv => NoSuspendWithLock
  BY DEF PowerInv
<1> QED  BY <1>1, PowerInvariant, PTL

\* The order of main (daemon/main.c:37) is right: the suspend thread is started
\* before the callback is set, but it cannot suspend the system before.
THEOREM AlwaysCalledBack == Spec => []CallbackOnResume
<1>1. PowerInv => CallbackOnResume
  BY DEF PowerInv, BootOrder, Booting, CallbackOnResume
<1> QED  BY <1>1, PowerInvariant, PTL

-----------------------------------------------------------------------------
(* Type correctness *)

\* Who has the lockout: nobody until main enables it, then the suspend thread
\* from sem_wait to sem_post, and otherwise the semaphore.
Lockout ==
  /\ pc["main"] \in {"boot", "init"} => pc["suspend"] = "none"
  /\ pc["main"] \in {"boot", "init", "enable"}
       => sem = 0 /\ pc["suspend"] \in {"none", "read", "lockout"}
  /\ pc["suspend"] \notin {"none", "read", "lockout"} => sem = 0

\* The timeout to be saved is one that was asked for.
Asked == pc["bus"] = "save" => asked \in Timeouts

TypeInv == TypeOK /\ Lockout /\ Asked

\* main up to its loop, and isActivityTimeValid.
LEMMA MainTypes ==
  ASSUME TypeInv, main, ~goToSleep("main")
  PROVE  TypeInv'
<1> USE PowerAssumption DEF TypeInv, TypeOK, KernelTypes, DataTypes, ControlTypes,
       Lockout, Asked, Threads, At, Goto, kernel, power, input, shared, local
<1>1. CASE BootLocks
  BY <1>1 DEF BootLocks, LockDisplay, acquire_wake_lock, Fails
<1>2. CASE autosuspend_wakeup_count_init
  BY <1>2 DEF autosuspend_wakeup_count_init
<1>3. CASE autosuspend_wakeup_count_enable
  BY <1>3 DEF autosuspend_wakeup_count_enable
<1>4. CASE set_wakeup_callback
  BY <1>4 DEF set_wakeup_callback
<1>5. CASE init_awake_timeout
  BY <1>5 DEF init_awake_timeout
<1>6. CASE ReadConf
  BY <1>6 DEF ReadConf
<1>7. CASE AdoptConf
  BY <1>7 DEF AdoptConf, Adopts
<1>8. CASE ReadTime
  BY <1>8 DEF ReadTime
<1>9. CASE Compare
  BY <1>9 DEF Compare
<1>10. CASE ClearTime
  BY <1>10 DEF ClearTime
<1> QED  BY <1>1, <1>2, <1>3, <1>4, <1>5, <1>6, <1>7, <1>8, <1>9, <1>10 DEF main,
       isActivityTimeValid

\* goToSleep, whoever calls it.
LEMMA SleepTypes ==
  ASSUME TypeInv, NEW t \in {"main", "key", "bus"}, goToSleep(t)
  PROVE  TypeInv'
<1> USE PowerAssumption DEF TypeInv, TypeOK, KernelTypes, DataTypes, ControlTypes,
       Lockout, Asked, Threads, At, Goto, kernel, power, input, shared, local
<1>1. CASE FewLocks(t)
  BY <1>1 DEF FewLocks, Fails
<1>2. CASE ManyLocks(t)
  BY <1>2 DEF ManyLocks, GoHome, Home
<1>3. CASE SetSleepState(t)
  BY <1>3 DEF SetSleepState
<1>4. CASE UnlockDisplay(t)
  <2>1. stirred' \in BOOLEAN
    BY <1>4, Zenon DEF UnlockDisplay, release_wake_lock, Fails, Home
  <2>2. KernelTypes'
    BY <1>4, <2>1 DEF UnlockDisplay, release_wake_lock, Fails, Home
  <2>3. DataTypes'
    BY <1>4, <2>1 DEF UnlockDisplay, release_wake_lock, Fails, Home
  <2>4. sem' \in 0..1 /\ ControlTypes' /\ Lockout' /\ Asked'
    BY <1>4 DEF UnlockDisplay, release_wake_lock, Fails, Home
  <2> QED  BY <2>2, <2>3, <2>4
<1> QED  BY <1>1, <1>2, <1>3, <1>4 DEF goToSleep

\* scanPowerKey.
LEMMA KeyTypes ==
  ASSUME TypeInv, scanPowerKey
  PROVE  TypeInv'
<1> USE PowerAssumption DEF TypeInv, TypeOK, KernelTypes, DataTypes, ControlTypes,
       Lockout, Asked, Threads, At, Goto, kernel, power, input, shared, local
<1>1. CASE KeyDown
  <2>1. stirred' \in BOOLEAN /\ has_sleep' \in BOOLEAN
    BY <1>1, Zenon DEF KeyDown, KeyEvent
  <2>2. KernelTypes'
    BY <1>1, <2>1 DEF KeyDown, KeyEvent
  <2>3. DataTypes'
    BY <1>1, <2>1 DEF KeyDown, KeyEvent
  <2>4. sem' \in 0..1 /\ ControlTypes' /\ Lockout' /\ Asked'
    BY <1>1 DEF KeyDown, KeyEvent
  <2> QED  BY <2>2, <2>3, <2>4
<1>2. CASE KeyUpIgnored
  BY <1>2 DEF KeyUpIgnored, KeyEvent
<1>3. CASE KeyUpSleeps
  BY <1>3 DEF KeyUpSleeps, KeyEvent
<1>4. CASE KeySetsSleepState
  BY <1>4 DEF KeySetsSleepState, GoHome, Home
<1> QED  BY <1>1, <1>2, <1>3, <1>4 DEF scanPowerKey

\* filter_func.
LEMMA BusTypes ==
  ASSUME TypeInv, filter_func \/ SaveTimeout
  PROVE  TypeInv'
<1> USE PowerAssumption DEF TypeInv, TypeOK, KernelTypes, DataTypes, ControlTypes,
       Lockout, Asked, Threads, At, Goto, kernel, power, input, shared, local
<1>1. CASE BusGoToSleep
  BY <1>1 DEF BusGoToSleep, Call
<1>2. CASE BusAcquires
  BY <1>2 DEF BusAcquires, acquire_wake_lock, Fails
<1>3. CASE BusReleases
  <2>1. stirred' \in BOOLEAN
    BY <1>3, Zenon DEF BusReleases, release_wake_lock, Fails
  <2>2. KernelTypes'
    BY <1>3, <2>1 DEF BusReleases, release_wake_lock, Fails
  <2>3. DataTypes'
    BY <1>3, <2>1 DEF BusReleases, release_wake_lock, Fails
  <2>4. sem' \in 0..1 /\ ControlTypes' /\ Lockout' /\ Asked'
    BY <1>3 DEF BusReleases, release_wake_lock, Fails
  <2> QED  BY <2>2, <2>3, <2>4
<1>4. CASE userActivity
  BY <1>4 DEF userActivity, Call
<1>5. CASE set_awake_timeout
  BY <1>5 DEF set_awake_timeout, Call
<1>6. CASE SaveTimeout
  BY <1>6 DEF SaveTimeout
<1> QED  BY <1>1, <1>2, <1>3, <1>4, <1>5, <1>6 DEF filter_func

\* suspend_thread_func and the callback.
LEMMA SuspendTypes ==
  ASSUME TypeInv, suspend
  PROVE  TypeInv'
<1> USE PowerAssumption DEF TypeInv, TypeOK, KernelTypes, DataTypes, ControlTypes,
       Lockout, Asked, Threads, At, Goto, kernel, power, input, shared, local
<1>1. CASE ReadCount
  <2>1. stirred' \in BOOLEAN
    BY <1>1, Zenon DEF ReadCount
  <2>2. KernelTypes'
    BY <1>1, <2>1 DEF ReadCount
  <2>3. DataTypes'
    BY <1>1, <2>1 DEF ReadCount
  <2>4. sem' \in 0..1 /\ ControlTypes' /\ Lockout' /\ Asked'
    BY <1>1 DEF ReadCount
  <2> QED  BY <2>2, <2>3, <2>4
<1>2. CASE WaitLockout
  BY <1>2 DEF WaitLockout, Taken
<1>3. CASE WriteCount
  BY <1>3 DEF WriteCount, AfterCount, Undisturbed, InProgress
<1>4. CASE WriteMem
  <2>1. asleep' \in BOOLEAN /\ armed' \in BOOLEAN
    BY <1>4, Zenon DEF WriteMem, Undisturbed, InProgress
  <2>2. KernelTypes'
    BY <1>4, <2>1 DEF WriteMem, Undisturbed, InProgress
  <2>3. DataTypes'
    BY <1>4, <2>1 DEF WriteMem, Undisturbed, InProgress
  <2>4. sem' \in 0..1 /\ ControlTypes' /\ Lockout' /\ Asked'
    BY <1>4 DEF WriteMem, Undisturbed, InProgress
  <2> QED  BY <2>2, <2>3, <2>4
<1>5. CASE Resumed
  BY <1>5 DEF Resumed
<1>6. CASE PostLockout
  BY <1>6 DEF PostLockout
<1>7. CASE WakeFlag
  <2>1. has_sleep' \in BOOLEAN
    BY <1>7, Zenon DEF WakeFlag
  <2>2. KernelTypes'
    BY <1>7, <2>1 DEF WakeFlag
  <2>3. DataTypes'
    BY <1>7, <2>1 DEF WakeFlag
  <2>4. sem' \in 0..1 /\ ControlTypes' /\ Lockout' /\ Asked'
    BY <1>7 DEF WakeFlag
  <2> QED  BY <2>2, <2>3, <2>4
<1>8. CASE WakeLock
  BY <1>8 DEF WakeLock, acquire_wake_lock, Fails
<1>9. CASE invalidateActivityTime
  BY <1>9 DEF invalidateActivityTime
<1> QED  BY <1>1, <1>2, <1>3, <1>4, <1>5, <1>6, <1>7, <1>8, <1>9 DEF suspend,
       suspend_thread_func, wakeup_callback

\* The environment, and nothing at all.
LEMMA KernelSteps ==
  ASSUME TypeInv, Clock \/ PowerKey \/ Wake \/ UNCHANGED vars
  PROVE  TypeInv'
<1> USE PowerAssumption DEF TypeInv, TypeOK, KernelTypes, DataTypes, ControlTypes,
       Lockout, Asked, Threads, At, Goto, kernel, power, input, shared, local
<1>1. CASE Clock
  BY <1>1 DEF Clock
<1>2. CASE PowerKey
  <2>1. held' \in BOOLEAN /\ asleep' \in BOOLEAN
    BY <1>2, Zenon DEF PowerKey, Call
  <2>2. KernelTypes'
    BY <1>2, <2>1 DEF PowerKey, Call
  <2>3. DataTypes'
    BY <1>2, <2>1 DEF PowerKey, Call
  <2>4. sem' \in 0..1 /\ ControlTypes' /\ Lockout' /\ Asked'
    BY <1>2 DEF PowerKey, Call
  <2> QED  BY <2>2, <2>3, <2>4
<1>3. CASE Wake
  <2>1. stirred' \in BOOLEAN /\ asleep' \in BOOLEAN
    BY <1>3, Zenon DEF Wake
  <2>2. KernelTypes'
    BY <1>3, <2>1 DEF Wake
  <2>3. DataTypes'
    BY <1>3, <2>1 DEF Wake
  <2>4. sem' \in 0..1 /\ ControlTypes' /\ Lockout' /\ Asked'
    BY <1>3 DEF Wake
  <2> QED  BY <2>2, <2>3, <2>4
<1>4. CASE UNCHANGED vars
  BY <1>4 DEF vars
<1> QED  BY <1>1, <1>2, <1>3, <1>4

\* The types hold when the daemon starts.
LEMMA InitTypes == Init => TypeInv
<1> SUFFICES ASSUME Init PROVE TypeInv
  OBVIOUS
<1>1. /\ DOMAIN pc = Threads
      /\ pc["main"] = "boot" /\ pc["suspend"] = "none"
      /\ pc["key"] = "none" /\ pc["bus"] = "none"
  BY DEF Init, Threads
<1>2. sem \in 0..1 /\ ControlTypes /\ Lockout /\ Asked
  BY <1>1 DEF Init, ControlTypes, Lockout, Asked
<1>3. /\ stirred \in BOOLEAN /\ armed \in BOOLEAN /\ asleep \in BOOLEAN
      /\ held \in BOOLEAN /\ callback \in BOOLEAN /\ has_sleep \in BOOLEAN
  BY Zenon DEF Init
<1>4. locks \subseteq ClientLocks \cup {Display} /\ keys \in Seq({"down", "up"})
  BY DEF Init
<1>5. now \in 1..MaxTime /\ events \in 0..MaxEvents /\ faults \in 0..MaxFaults
  BY PowerAssumption DEF Init
<1>6. KernelTypes
  BY <1>3, <1>4, <1>5 DEF KernelTypes
<1>7. last \in -1..MaxTime /\ timenow \in 0..MaxTime
  BY PowerAssumption DEF Init
<1>8. /\ keep \in Timeouts \cup Confs \cup {-1}
      /\ conf \in Timeouts \cup Confs /\ seen \in Timeouts \cup Confs \cup {0}
      /\ asked \in Timeouts \cup {0} /\ down \in {"unset", "zero", "set"}
  BY DEF Init
<1>9. DataTypes
  BY <1>3, <1>7, <1>8 DEF DataTypes
<1> QED  BY <1>2, <1>6, <1>9 DEF TypeInv, TypeOK

\* Every step keeps the types.
LEMMA NextTypes == TypeInv /\ [Next]_vars => TypeInv'
<1> SUFFICES ASSUME TypeInv, [Next]_vars PROVE TypeInv'
  OBVIOUS
<1>1. CASE main
  BY <1>1, MainTypes, SleepTypes
<1>2. CASE key
  BY <1>2, KeyTypes, SleepTypes DEF key
<1>3. CASE bus \/ filter_func
  BY <1>3, BusTypes, SleepTypes DEF bus
<1>4. CASE suspend
  BY <1>4, SuspendTypes
<1>5. CASE Clock \/ PowerKey \/ Wake \/ UNCHANGED vars
  BY <1>5, KernelSteps
<1> QED  BY <1>1, <1>2, <1>3, <1>4, <1>5 DEF Next

\* The types of the daemon's state, and with them that suspend_lockout is a
\* binary semaphore (autosuspend_wakeup_count.c:67, :93, :109).
THEOREM TypesHold == Spec => []TypeOK
<1>1. TypeInv => TypeOK
  BY DEF TypeInv
<1> QED  BY <1>1, InitTypes, NextTypes, PTL DEF Spec
=============================================================================
