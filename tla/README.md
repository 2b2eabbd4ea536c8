# Verification of the Tina packages

This directory is a TLA+ development for the vendor code of this repository, the
OpenWrt package tree of Allwinner's Tina Linux (T113-X). It holds TLA+ modules
translated from the C sources, TLC configurations that check them on small
instances, and TLAPS proofs of theorems that hold for every size.

## 1. The system

Most of the repository is not a program: `feeds/` are recipes and patches of
upstream packages, `thirdparty/` is vendored. The vendor's own logic is under
`allwinner/`. The parts that keep state of their own:

| part | sources | state | operations |
|---|---|---|---|
| secure storage (libkeybox) | `security/optee-keybox/src/na/libkeybox` | a map of key names and 31 items on a raw flash device, each in two copies; the map in memory, `secure_storage_inited`, `map_dirty`, `sec_mutex` | init, read, write, erase, list, exit; `secure_data_write`, `secure_data_read` around them |
| keybox_na | `security/optee-keybox/src/na/keybox_na.c` | none | hands the stored keys to the TEE through libkeybox |
| optee-secure-storage | `security/optee-secure-storage` | objects in the TEE's storage | create, write, read, delete, enumerate |
| nativepower daemon | `power/nativepower/daemon`, `libsuspend`, `libscenemanager` | kernel wake locks, `has_sleep`, last activity time, awake timeout (memory and uci file) | go to sleep, activity, timeout, wake locks; key thread, bus thread, main loop, suspend thread with its wake-up callback |
| aactd | `audio/aactd`, `audio/aactd-lib` | the last equaliser parameters, a table of 32 players, DRC registers | framed commands from a tuning tool; a server thread and a thread per player that hand parameters on |
| equaliser plugin | `audio/alsa-plugins-aw/files/p-eq` | the connection to aactd, the parameters in use | hw_params, hw_free, a thread that connects, a thread that reads parameters |
| audio-process | `audio/audio-process` | semaphores, filter states | a processing thread fed by a caller; `post_equal.c` has the plugin's two threads once more |
| parallel_insmod | `common/parallel_insmod` | the list of modules, the height reached, how many insmods are going on | threads that take modules from the list and hold it at each height until all insmods have ended |
| tinatest | `testtools/tinatest` | a task per test case with its process group, limits, run number and result; a boot script and a status file on flash | start, wait, repeat, time out, quit, carry on after a reboot |

They interact little. keybox_na and the `keybox` command both use libkeybox, on
the same device and as different processes. The nativepower daemon's four
threads share its state, the kernel's wake locks and a uci file. aactd and the
equaliser plugin talk over a local socket. The rest are separate programs.

What is hard in them: in libkeybox the order of device writes, power cuts, the
two copies, error paths that leave memory ahead of the device, a mutex that is
taken in one function and released in another; in nativepower check-then-act on
wake locks, unlocked shared variables, a callback that races the key thread; in
tinatest counters shared by the thread that starts and the thread that waits, kills
of process groups that are still being forked, reboots in the middle of a list; in
parallel_insmod `wait` for any child; in aactd and its players condition variables
without a condition, slots that are reused, and either side dying.

What makes each correct:

* secure storage: an acknowledged key is never lost and never another key's, map
  and items agree on the device at every instant, the mutex is free after every
  call, every call returns;
* nativepower: the system is not suspended while a client holds a wake lock, a
  granted sleep request ends in a suspend or a wake-up, the sleep flag follows
  the state of the system, the configured timeout takes effect;
* tinatest: the list is run in its order, no more than `run_cnt_up_to` at once and
  some alone; no run is lost or repeated over reboots; the program ends, and not
  before the last test case;
* parallel_insmod: a module is inserted after everything at lower heights, none is
  left out, the program ends;
* aactd and players: a slot has one player and one thread, a player has one
  connection and finds the daemon again, an update reaches the equaliser, a player
  can be stopped.

## 2. Modules

| module | what it is |
|---|---|
| `SecureStorage` | libkeybox: the device, the library's state, one action per operation |
| `KeyStore` | what the storage promises: a table of keys that changes one key at a time, or is cleared |
| `MCSecureStorage` | the constants of the runs |
| `SecureStorageProofs` | types and the mutex of `SecureStorage`: theorems and proofs |
| `SecureStorageKeyProofs` | no key is lost or confused, and the mutex when keys are listed: theorems and proofs |
| `SecureStorageRefines` | `SecureStorage` implements `KeyStore`: theorem and proof |
| `NativePower` | the nativepower daemon's four threads over the `wakeup_count` back end and the kernel's wake locks |
| `NativePowerProofs` | theorems about `NativePower` and their proofs |
| `TinaTest` | tinatest's two threads, its processes, counters, signals and the files that carry it over a reboot |
| `TestPlan` | what tinatest promises of the order of a list |
| `MCTinaTest` | the lists of the runs |
| `TinaTestProofs` | types and the wake-up of tinatest's main thread: theorems and proofs |
| `TinaTestCountProofs` | the counts, the files, the starts and the plan of tinatest: theorems and proofs |
| `ParallelInsmod` | parallel_insmod's threads, the list, the insmod processes |
| `MCParallelInsmod` | the list of the run |
| `ParallelInsmodProofs` | theorems about `ParallelInsmod` and their proofs |
| `EqSocket` | the connections between aactd and a player, as the kernel keeps them (external) |
| `Aactd` | the software equaliser server of aactd |
| `AwEqual` | the equaliser plugin of a player |
| `EqTuning` | the composition of the two over `EqSocket`, and its properties |
| `EqTuningProofs` | theorems about `EqTuning` and their proofs |

### SecureStorage

One process with a set of threads. A thread makes one call at a time:
`secure_data_write` ("write"), `secure_data_read` ("read"),
`sunxi_secure_object_erase`, `sunxi_secure_object_list`, and the session of the
test program `test_sst_init` ("batch"), which writes several keys between one
init and one exit.

State and code:

| variable | code |
|---|---|
| `mapItem`, `keyItem` | the device: item 0 and items 1 .. `MaxItem`-1, a raw and a backup copy each |
| `mutex`, `inited`, `dirty`, `ram` | `sec_mutex`, `secure_storage_inited`, `map_dirty`, `secure_storage_map` |
| `pc`, `stage`, `op`, `todo`, `at`, `idx`, `bad`, `ret`, `got` | where a thread is and its locals |
| `faults`, `wild`, `allowed`, `lost` | history: how many faults, whether an uninitialised buffer was used, which values each key may have, and the keys of a call that reported success although the device kept the old copy |

A device access is one step; what the code does between two device accesses
under the mutex is part of the step before or after. `sunxi_secure_storage_init`
is `InitLoaded`, `InitLoads` and `InitFails` (map already in memory, map read,
read failed); the bodies are actions with the functions' names, with the device
write of a key split off (`KeyWritten`, `KeyWriteFails`, `KeyWriteDropped`) because
an error or a power cut may fall into it; `sunxi_secure_storage_exit` is `ExitClean`,
`ExitSaves`, `ExitFails` and `ExitDropped`. `Restart` ends the process between two device accesses,
`CutKeyWrite` and `CutMapWrite` cut the power inside one. `probe_name_in_map`
and `fill_name_in_map` are the two scans of the map, `get_flash_type` decides
which branch of `nv_read` and `nv_write` is taken.

Data abstraction: a payload is a value; a copy of an item is an object or `BAD`
(what `check_secure_storage_key` refuses); a copy of the map is a list of names
with the state of its magic and crc. Lengths in map entries are dropped: they are
written and never used to find anything. Entry positions are item numbers, as
in the code. The size limits that decide something are kept: `MaxItem` items,
names too long for the scan's buffer (`LongNames`), payloads longer than
`MAX_STORE_LEN` (`BigValues`), names that are a prefix of another (`Prefix`). `TextOf`
is what `strncpy` leaves of a payload in `secure_data_write` (`api.c:50`): what
comes after the first NUL is gone, and it is this that the call stores and
acknowledges.

Faults: a read of a copy fails; a write of an item fails in its raw or in its
backup half and leaves that half old or torn; or it fails where only `fsync` would
say so, one copy stays old or torn and the call goes on as after a success, because
the result of `fsync` is not looked at (`secure_storage.c:550`, for NAND `:356`;
`KeyWriteDropped`, `ExitDropped`); a power cut leaves either half
old, new or torn, at most one torn. A torn key item is refused by its crc. A
torn map over a map with magic has a wrong crc, over one without magic it still
has none (magic and crc are the last bytes). The nand driver is taken to write
an item whole or not at all. A dropped error that costs both copies of an SD item
counts as two faults (section 6).

### KeyStore

`store` maps names to values. `Put` gives one key a value somebody asked for,
`Clear` removes all keys when an erase was asked for. `SecureStorage` implements
it with `store` read as a restarted process would read the device: whatever the
order of copy writes, map saves and cuts, each step on the device changes at
most one key or clears all. Of a key in `lost` any value counts as asked for.

### NativePower

Four threads: `main` (boot, then the loop that checks the activity time), the
power key thread, the bus thread, and libsuspend's suspend thread, which also
runs the wake-up callback. A step is one access to something another thread also
uses, so every check-then-act of the code is open to the others.

| variable | code |
|---|---|
| `locks`, `stirred`, `armed`, `asleep`, `keys` | the kernel: wake locks, wakeup events since `wakeup_count` was read, a saved `wakeup_count`, suspended, unread key events |
| `sem`, `callback` | `suspend_lockout`, `wakeup_func` |
| `has_sleep`, `last`, `keep`, `conf` | `has_sleep`, `mLastUserActivityTime`, `mKeepAwakeTime`, `awake_timeout` in the uci file |
| `pc`, `seen`, `timenow`, `down`, `asked` | where each thread is and its locals |
| `held`, `now`, `events`, `faults` | the power key, the clock, and what is bounded |

The functions are groups of actions with their names: `isActivityTimeValid`
(`ReadConf` .. `ClearTime`), `goToSleep` (count the locks, set the flag, give up
the display lock), `scanPowerKey`, `filter_func`, `suspend_thread_func`,
`wakeup_callback` (flag, lock, time). `goToSleep(t)` is the same code in three
threads.

External, modelled from how the daemon uses it: a wake lock, an unread key event
and a key thread not yet back in `epoll_wait` (EPOLLWAKEUP) are wakeup events in
progress; a read of `wakeup_count` waits until there are none, a write is refused
if there were any since, and only after an accepted write does a suspend look for
them (`armed`). While the system is suspended no thread runs.

Abstractions: the clock is a small number, may be set backwards, and 0 or -1 is
"long ago"; `powerkey_down_ms`, which is not initialised, is unset, zero or a time.
A press of more than two seconds runs `poweroff`, which the model ignores. Accesses
to the wake lock files may fail `MaxFaults` times: `acquire_wake_lock` then returns
0 without the lock, the count is -1 and passes for "few". Left out: scenes,
shutdown and reboot (each starts a program), a failing `pthread_create` at boot,
`sem_wait` interrupted by a signal (the daemon has no handlers), and clients that
use the daemon's own lock name.

### TinaTest and TestPlan

Two threads, `main` (`task_begin`) and `recycle` (`task_recycle`), which both run
`task_do`, and the processes they fork. A step is one access to what threads,
processes or a later boot share, so `running_cnt`, `end_cnt`, the pipe, the process
groups and the files change one at a time.

| variable | code |
|---|---|
| `status`, `run_times`, `pid`, `pgid`, `quit` | `struct task` and its part of the shared memory |
| `running_cnt`, `end_cnt`, `tokens` | the counters and the pipe of `TASK_ADD_RECYCLE_ID` |
| `reboot_mode`, `reboot_keypath`, `reboot_run_times` | what was recovered at boot |
| `fboot`, `sfile`, `sback` | on flash: the boot script, the status file, and what of the latter a power cut may bring back |
| `proc`, `leader`, `limit`, `ttlimit` | the kernel: runs, leaders of process groups (they limit one run), processes that limit all runs |
| `pc`, `ret`, `cur`, `tsk`, `got`, `lock`, `ttquit` | where the threads are and their locals, `do_task_lock`, the quit flag |

`Limit` and `RunAlone` are what `task_add_do` makes of `struct task`. `run_alone` is
its value after reading the configuration, where the keys `run_alone` and
`exit_tinatest_when_fail` both assign it and the last one stays
(`task.c:166-169`, `:211-215`), so the two flags are independent here. A test case's command is a set of things it may do (pass, fail,
reboot). A process that was sent a fatal signal counts as dead. Faults are failing
calls in `task_do`; a power cut may come at any step; `SlowChild` says that no
process dies before it is recorded (section 6 has what happens otherwise).
`task_do_crash` is the end of tinatest inside `task_do`: `task_create_fboot` closes the
stream it could not open (`:446`), or the result of a run after the last is stored
behind the array (`:1133`), which may do harm or not. The new contents of the status
file are synced before the rename (`:353`), the rename (`:356`) is not: until the next
sync a power cut may bring back the earlier file (`sback`). The other changes of the
directory (the boot script made at `:397-440`, the files removed at `:313-318`) are
taken to be durable at once, and the branch for a busybox init (`:385-395`) is left out,
as are reading the configuration, begin and end times, resource usage and output.

`TestPlan` is the abstract specification: a phase per test case, `Begin` in turn,
within the limit, alone if it must be, and `Finish`. `TinaTest` is shown to
implement it with the phase read from `status` and the step at which an end is
counted.

### ParallelInsmod

`main`, the threads and the insmod processes. `lock`, held by a thread from
`get_module` through the barrier, is a variable; the sections under `mutex`, which
guard `insmoding`, are single steps. `wait(NULL)` returns for any child, so `Reap`
chooses one. `vfork` and `exec` are one step: the parent is suspended in between. A
line of the list is "Height" or "module"; names are left out, they are only passed
on. Faults: the list cannot be opened, a thread or a process cannot be started, a
read of the list fails.

### EqSocket, Aactd, AwEqual, EqTuning

`EqSocket` has, of each connection, both ends, the frames the client has not read,
and whether epoll has something new to say (edge triggered: `news`). A connection is
pending between `connect` and `accept`. A frame is the number of the update it
carries: header, data and checksum are written by one call under a mutex and read
by one event.

`Aactd` is `eq_sw.c`: `server_thread`, `Accept`, `AcceptWithoutThread`
(`pthread_create` failed, its result is not looked at), `Refuse`; the thread of a
player is `Hello`, `Sleep`, `WriteUpdate`, `Close`, `Free`;
`eq_sw_write_com_to_local` is an update of the tool. `Die` ends the process,
`server_thread` starts it again. A write fails once the player has closed or shut
down its end (SIGPIPE is ignored, `main.c:82`). The descriptor of a slot that is
not used is never read and is 0 here. A wake-up without signal before the first
update, after which the thread would write uninitialised bytes, is left out.

`AwEqual` is `pcm_awequal.c`: `awequal_hw_params`, `awequal_hw_free` up to its two
joins, `try_connecting_thread` (`TryTest` .. `TryAgain`), `tuning_thread`
(`TuneTest` .. `Rebuild`). What happens under `mutex_tuning_fd` is one step, the
test of `should_stop` in front of it another, because the code reads it unlocked.
`hw_params` starts the threads and then makes the equaliser without `mutex_eq`
(`:503-526`): in between `app` is "create", and an update that `tuning_thread` applies
may be in the parameters `eq_create` reads or be overtaken by its handle (`Overtaken`).
A frame that was read may be applied (`ResetEq`), fail in `eq_setpara_reset`, whose
handle is then gone (`ResetFails`), or be discarded (`Discard`: read short, a wrong flag
or checksum, too many filters); `lost` remembers the last two. `Exit` is the end of the
player's process. Left out: `awequal_close`, after which one process could open the
plugin again (section 6); failing `eq_create`, `pthread_create`, `epoll_ctl` and
`malloc` calls; the bytes that a frame which was read short leaves in the stream, to be
taken for the next header; an `eq_create` that reads `eq_prms` while they are written,
and an `eq_setpara_reset` that is given no handle (the library is not in the
repository). `connect` on the blocking socket waits, under `mutex_tuning_fd`, while the
daemon's backlog is full (`:206`, `:239-247`); the model takes it to return at once,
because the server thread empties the backlog in a loop that waits for nothing but its
own table's mutex, so that the wait is short and ends.

`EqTuning` interleaves the two and has the properties.

## 3. Runs

All bounds are the cfg's constants. Two names, two values and two items (one
item where the full map matters) are the smallest instance in which a key can be
moved, replaced, refused or confused with another; `MaxFaults` = 1 because the
storage promises nothing after two (section 6).

| run | instance | shows |
|---|---|---|
| `storage_faults` | SD, 1 thread, write/read/erase/list, virgin, legacy and provisioned devices, 1 fault (reported, dropped with `fsync`, or a power cut) | `AckedKeysSurvive`, `MapNamesOwnItems`, `LockDiscipline`, `ReadsAllowed` |
| `storage_threads` | SD, 2 threads, write/read/list, 1 fault, fairness | the first three with calls interleaved, `CallsReturn` |
| `storage_refinement` | SD, 1 thread, all calls but the batch, 1 fault | `ImplementsKeyStore` |
| `storage_sessions` | NAND, 1 thread, all calls and the batch, 3 names for 2 items, payloads that are too long or contain a NUL, restarts | `TypeOK`, `AckedKeysSurvive`, `MapNamesOwnItems` |
| `storage_alias` | the batch with a name that is a prefix of the next | `BatchVerifies` is violated |
| `power_daemon` | 1 client lock, 1 event, timeouts that expire and one that does not, 1 failing access, fairness | `TypeOK`, `NoSuspendWithLock`, `CallbackOnResume`, `SleepEnds`, `TimeoutTakesEffect` |
| `test_schedule` | 4 test cases (parallel, repeated, alone, one after it), 2 at once, 1 fault | `TypeOK`, `AtMostUpTo`, `AloneIsAlone`, `NoMissedWakeup`, `EndsCounted`, `ExitsWhenDone`, `PlanKept` |
| `test_reboot` | two test cases that reboot in both of their runs, one of them with its runs in parallel, between two others, 2 power cuts | `StatusCurrent`, `RunsBounded`, `RunsExact`, `CleanAfter` |
| `test_liveness` | repeated, parallel and rebooting test cases with limits, quit signals, fairness | `Finishes` |
| `insmod_list` | 3 threads, 4 modules at one height, a height without modules, 1 fault, fairness | `TypeOK`, `HeightOrder`, `AChildForEach`, `AllInserted`, `Terminates` |
| `tuning` | 2 connections, 2 slots, 2 threads, 1 update, 1 fault, fairness | `TypeOK`, `OwnConnection`, `OneConnection`, `Reconnects`, `UpdatesArrive` |
| `tuning_stop` | the same without fault | `StopReturns` is violated |

* `AckedKeysSurvive`: as long as at most one fault has happened, a restarted
  process reads of every key a value that was acknowledged last or asked for
  since. It fails if the backup is not read, if the map is not saved, if two
  calls overlap. The exception is `lost`: a call whose write error was seen by
  `fsync` only is acknowledged, and its keys may read as before. What the property
  then says is that the error costs no other key, and this call's keys only when the
  copy that is read first was the one that failed.
* `MapNamesOwnItems`: every name in the map on the device is the name of the
  object in its item. It rests on the order key, then map, and on the map being
  saved only after a key was written.
* `LockDiscipline`, `CallsReturn`: the mutex is held exactly between init and
  exit; every call returns.
* `ReadsAllowed`: what a running process reads, from its own map that may be
  ahead of the device, is a value the key may have (keys in `lost` excepted).
* `ImplementsKeyStore`: the refinement above.
* `NoSuspendWithLock`: whatever is acquired between the steps of the suspend
  thread, the system is not suspended over a wake lock. It rests on the write of
  `wakeup_count` being checked.
* `CallbackOnResume`: the order of `main` is right, the display lock keeps the
  suspend thread waiting until the callback is set.
* `SleepEnds`: after a granted sleep request the callback takes the display lock
  again, through refused writes, failed suspends and failed accesses.
* `TimeoutTakesEffect`: the timeout in memory becomes the configured one, although
  the main loop can undo what a client has just set.

* `AtMostUpTo`, `AloneIsAlone`: counted by live processes, not by the counter that
  `task_begin` tests.
* `NoMissedWakeup`: `task_begin` never sleeps on an empty pipe while there is room,
  although counting and telling are two steps of the other thread.
* `EndsCounted`, `ExitsWhenDone`: `end_cnt` is what has ended, and tinatest exits
  after the last.
* `PlanKept`: the two threads implement `TestPlan`.
* `StatusCurrent`, `RunsExact`, `RunsBounded`, `CleanAfter`: the files name the run
  that is going on, so that after reboots no run is skipped or repeated, and after the
  exit nothing is left to start tinatest again. A power cut may make one run happen
  again, because the rename of the status file is not synced, and `RunsBounded` allows
  one per cut. A test case with both `may_reboot` and `run_parallel` is in the run, and
  in `StatusCurrent` as far as the code goes (the script names it, the status file the
  first of the runs forked together); `RunsBounded` and `RunsExact` leave it out
  (`Numbered`), because its runs after the first are made again (section 6).
* `HeightOrder`: an insmod starts when everything at lower heights has ended and
  been collected. `AChildForEach`: every `wait` has a child although threads collect
  each other's. `AllInserted`, `Terminates`: nothing is left out, and the thread that
  holds the list at a height is always woken.
* `OwnConnection`: the close of one thread never hits the connection of the next
  player in its slot. `OneConnection`: whatever wakes the plugin's threads, there is
  no second connection.
* `Reconnects`: a player is served in the end, also after the daemon died or closed.
  `UpdatesArrive`: an update that finds the daemon's thread asleep and the player
  with its equaliser made and nothing to read is what the equaliser runs with in the
  end, though several threads sleep on one condition, unless the connection is given up
  or the plugin found the update unusable. What reaches the player while `hw_params` is
  in `eq_create` is outside the property: it may be overtaken.

The two violated properties are quoted from the test program and from a comment;
`PROJECT.json` has the findings.

In `power_daemon` an event is a client call or a change of the power key; wake
locks of clients are acquired and released without bound. One client lock is enough
to make the count of locks exceed one. Timeouts expire without events.

In the tinatest runs two places and a list with a parallel, a repeated and an alone
test case make the list full, make the main thread wait and be told, and let ends
and starts cross. Two runs that reboot are the least with a run between two
reboots, two power cuts the least that can hit the recovery of the first. Three
threads of parallel_insmod, less than the modules at a height, let one hold the list
while two collect each other's children. Two slots and two threads of aactd are
needed for a slot to be reused while another is in use and for two to sleep on the
condition; two connections, because the player may be on its second while the
daemon still has the first.

The state spaces are finite without a constraint: calls are unbounded in number,
values and faults are not. Symmetry (values) is used where no liveness is checked.
Deadlock is checked except in `test_schedule` and `test_reboot`: there tinatest may
hang after a failed repetition or a lost death (section 6).

Fairness. In all modules a thread that can take a step does (weak fairness, the
scheduler), and nothing is assumed of callers, faults, signals and power cuts.
Besides:

* `SecureStorage`: a thread waiting for `sec_mutex` gets it if it is released again
  and again (strong: the holder always sleeps in device I/O between two calls).
* `NativePower`: the three threads other than the suspend thread also run when the
  system is suspended again and again (strong: the suspend thread sleeps for 100 ms
  in each round, `autosuspend_wakeup_count.c:51`). That clients release their locks
  and that something wakes the system are premises of the properties.
* `TinaTest`: a test case ends, reboots or runs into its limit, and a machine that
  went down boots. `SlowChild` is assumed in `test_liveness`.
* `ParallelInsmod`: an insmod ends.
* `EqTuning`: `accept`, `sleep(1)` and `epoll_wait` return when they can. The tool,
  the player's calls, spurious wake-ups, deaths and the restart of the daemon are
  not fair.

## 4. Proofs

`SecureStorageProofs` proves, for every value of the constants that satisfies the
assumptions of `SecureStorage`:

* `TypeCorrect`: `Spec => []TypeOK`. `TypeOK` is not inductive: that the item
  number a write uses is one of the device's items depends on the length of the
  map in memory, which was read from the device, which was saved from memory. The
  inductive invariant `TypeInv` adds `Bounded` (the maps in memory and in both
  copies have fewer than `MaxItem` names) and `Args` (a thread in the middle of a
  write has an argument left and a valid item number). The lemmas about the
  operators (`FirstIsLeast`, `ProbeRange`, `FillRange` for the map scans,
  `WriteType`, `ReadKeyType`, `ReadMapType`, `TornMapType` for the device) carry
  the argument; there is one lemma per action.
* `MutexDiscipline`: if no thread calls `sunxi_secure_object_list`,
  `Spec => []LockDiscipline`. Every step of a thread enters, stays between init and
  exit, leaves, or stays outside (`Enters`, `Stays`, `Leaves`, `Waits`); one lemma
  shows that each kind keeps the mutex with the thread inside, the others sort the
  actions. The premise is needed for any number of faults: the list's early returns
  keep the mutex (section 6). With at most one fault they are not reached, which is
  `MutexWithLists` below.

`SecureStorageKeyProofs` proves what the storage is for, for any threads, names,
values, items and faults. The properties themselves speak of the states in which at
most one fault has happened, and not of the keys in `lost`:

* `KeysOwnItems`: `Regime => (Spec => []MapNamesOwnItems)`;
* `KeysSurvive`: `Regime /\ Device => (Spec => []AckedKeysSurvive)`;
* `ReadsFindAllowed`: `Regime /\ (Flash = "SD" \/ MaxFaults = 0) => (Spec => ReadsAllowed)`;
* `MutexWithLists`: `Regime /\ (Flash = "SD" \/ MaxFaults = 0) => (Spec => []LockDiscipline)`,
  with every call, the list too.

`Regime` has three parts, and TLC shows a counterexample without each of them: names
apart (none too long for the map, none the beginning of another), who may erase is
the only thread, and a batch meets no fault. `Device` is a kind of flash that `nv_read`
handles. On NAND a read that fails returns the bad object, hence the condition of the
last two; a list that meets an entry that is too long returns early without any fault.
The argument has two layers. `MapInv`: without a fault the two copies of
everything agree (`CopiesAgree`); each entry of each map a restarted process may read
owns its item (`DeviceOwns`); each entry of the map in memory does, but for the item
that a write is about to write or could not write (`RamOwns`, `Unwritten`); and the
map in memory continues every map on the device, unless it was erased and not yet
saved (`RamAhead`, `Erased`). It holds because the item is written before the map, and
because the one fault leaves one copy either old or new, for which there is a lemma per
kind of write. `ValueInv` adds what the calls in progress may have made of a key
(`EffectOf`, `ShapeOf`, `DoneOf`) and that each readable map and the map in memory
lead to an allowed value of every name (`DeviceValued`, `RamValued`). After a dropped
error the call's keys are in `lost` and left out of the last two; the first layer holds
for them as well as for an item that a reported error left as it was. `MutexWithLists`
needs only the first layer: the thread that lists is alone between init and exit, so no
item is `Unwritten`, each entry of the map in memory owns its item, and a first fault
leaves the other copy, which is the same (`ListReads`); the list therefore goes on to
`sunxi_secure_storage_exit` (`ListMoves`).

`SecureStorageRefines` proves `DeviceIsKeyStore`:
`TableRegime => (Spec => ImplementsKeyStore)`: one client, calls of one key, at most one
fault and a device that was formatted with a good map. The table of `KeyStore` is what a
restarted process would read. `TableInv` adds that no map loses its magic (`Magic`),
that a write starts from the map on the device (`WriteStarts`), and that the map in
memory is at most one name ahead of it (`RamNear`): so one write of a map or an item
changes the table at one key.

`NativePowerProofs` proves, for every value of the constants that satisfies
`PowerAssumption`:

* `NeverSuspendedWithLock`: `Spec => []NoSuspendWithLock`, and `AlwaysCalledBack`:
  `Spec => []CallbackOnResume`. One inductive invariant, `PowerInv`, carries both:
  "mem" is written only when the kernel is armed, the system is not suspended over
  a lock, and until the callback is set only `main` and the suspend thread exist
  and the display lock is held (`Booting`), so that the suspend thread has not read
  `wakeup_count`.
* `TypesHold`: `Spec => []TypeOK`. That `suspend_lockout` stays 0 or 1 needs
  `Lockout`, which says who has it; that the uci file gets a timeout somebody asked
  for needs `Asked`.

`TinaTestProofs` proves `TestTypes`, `Spec => []TypeOK`, and `WakeupNeverMissed`,
`Spec => []NoMissedWakeup`, for every list and any faults, cuts and signals. `WakeInv`
adds that `running_cnt` never exceeds `UpTo` and is below it while the main thread has a
task in hand: that makes the comparison in `task_recycle_end` see the one end that matters. A second
invariant shows that the recycle thread never starts a test case that has had its
runs, the branch of `task_do` that counts down without telling.

`TinaTestCountProofs` builds on these invariants. Its theorems are for lists that are
`Steady`: no test case with parallel runs has `exit_once_failed`, a limit for all its runs or a quit signal, that is, none is given up
while `task_do` still forks its runs. Without it a late process or a failed fork makes
`running_cnt` fall below the truth (section 6).

| theorem | property | besides `Steady` |
|---|---|---|
| `NeverTooMany` | `AtMostUpTo` | |
| `AloneMeansAlone` | `AloneIsAlone` | |
| `StatusFollows` | `StatusCurrent` | |
| `ExitsDone` | `ExitsWhenDone` | `NotOnly` |
| `CleanExit` | `CleanAfter` | `NotOnly` |
| `EndsAreCounted` | `EndsCounted` | `SlowChild` or `NoReboot` |
| `PlanFollowed` | `PlanKept` | `NoReboot` |
| `RunsAreBounded` | `RunsBounded` | `NoReboot`, or `AlwaysReboots` and no fault |
| `RunsAreExact` | `RunsExact` | `NotOnly`, and `NoReboot`, or `AlwaysReboots` and `NoneCutShort` |

`NotOnly`: the only test case of a list is not one with which tinatest gives up when it
fails (the recycle thread would leave after a failed run, when it has already started the
next). `NoReboot`: no test
case may reboot, or there is neither a power cut nor a command that reboots; after a
boot every phase starts again, so the plan is about one process, and an end that comes
before its start was counted is dropped in reboot mode. Faults, deaths at any moment,
power cuts and any number of places and test cases are in all of them.

The inductive invariant `CountInv` says where the two threads can be with which status
(`Shape`, `FromTheFirst`, `HandRuns`), that a process that executes is recorded or about
to be and its test case runs (`AliveKnown`, `OneSet`, `NotForked`), that who runs alone
is all that runs (`AloneLive`), which files there are (`Rebooted`, `FilesReady`,
`FilesCurrent`) and, as its core, `Counted`: `running_cnt` and the task in the main
thread's hands are at least the test cases that run, `end_cnt` at most those that are
over, with equality when no end can be dropped. `Meet` lists the few places where both
threads work on one test case. With it every step is one of five moves on the sets of
running and ended test cases and the counters: it rests, begins one, passes one over,
ends one, or drops an end; `PlanFollowed` reads the same moves as steps of `TestPlan`.
`CleanInv` adds for `CleanExit` that no process of a test case that always reboots dies
while tinatest runs, so that it never comes into the recycle thread's hands, and that
the boot script goes before its test case ends and the status file with it.

`RunsAreBounded` and `RunsAreExact` are about the starts of all boots together, which no
variable of the program counts. `StartInv` and `ExactInv` compare them with what
tinatest knows (`RunsKnown`): `run_times`, or after a boot, until `task_do` takes it up,
the number read from the status file. `BehindKept` shows that every step but a boot
changes the two together for each test case tinatest still has to do with (`Tracked`):
the fork adds a start, the record adds it to `run_times`, and resuming replaces 0 by the
number read. At a boot the files must have the right number: nothing after the test case
of the boot script was started (`Untouched`) and that one at most once more than the
status file says, for every power cut so far and what it may bring back of the file
(`Placed`, `Twin`); without a power cut, exactly once more, because the machine then went
down in the run the file names (`DownInRun`), and all before it have had their runs
(`Passed`). A fork comes only with `run_times` below the limit, so the bound follows, and
a test case ends only when it was told to quit or has had all its runs (`RanOut`).

Both properties leave out test cases with both `may_reboot` and `run_parallel`
(`Numbered`), which no condition of the theorems excludes from a list: `StatusFollows`,
and the bounds on all other test cases of such a list, hold with them.

The conditions are needed. `AlwaysReboots` (no run of a test case that may reboot ends
otherwise): TLC finds a run too many after one power cut when a limit ends a run of one
that reboots. No fault: TLC finds one too many after a fault and two cuts. `NoneCutShort`
(before a test case that may reboot there is none with `exit_once_failed` or a limit for
all its runs): the flag `quit` is in shared memory and gone after the boot, so that at
the exit a test case ended early looks like one that should have had all its runs; TLC
finds this on a list of two. This is a limit of the property, not of the program.

`ParallelInsmodProofs` proves, for every list and number of threads, `HeightsInOrder`,
`NoWaitWithoutChild`, `TypesHold` and `EveryModuleInserted`. The inductive invariant
`IInv` says that `insmoding` is the number of threads between counting and putting
(`CountInv`), that there are as many children as threads in `wait` (`AChildForEach`),
who has the list (`LockInv`), that each line read is in one thread's hands, running
or done (`MineInv`, `LineInv`, `PosInv`), and that at a heading nothing counted is
left (`HeightInv`). That a thread may put a module whose insmod still runs makes the
second part necessary: only the number of children is right, not whose they are.

`EqTuningProofs` proves, for any numbers of slots, threads, connections, updates and
faults, `TuningTypes`, `OneConnectionAlways` and `OwnConnectionAlways`. The inductive
invariant `TuneInv` adds to the types and `OneConnection`: `tuning_thread` polls only
a connection it has (`Polls`); the threads of the daemon have different slots, marked
as used, and exist only while it listens (`Slotted`); those that serve have
different, open connections (`Attached`). `LeastIsIn`, by well-founded induction from
the library, says that the first free slot is a free slot.

Assumptions: `ConstantsAssumption`, `FactoryAssumption` (a factory map is well
formed and lists a name once), `HeapAssumption` (rubbish taken for a map is cut at
the map's limit), `BadAssumption`, `PowerAssumption`, `TinaAssumption`,
`ThreadsAssumption`, `LinesAssumption`, `NobodyAssumption`, `FaultsAssumption`,
`ConnsAssumption`, `AactdAssumption`. TLC evaluates them in every run of their module.

Only model-checked: liveness (`CallsReturn`, `SleepEnds`, `TimeoutTakesEffect`,
`Finishes`, `Terminates`, `Reconnects`, `UpdatesArrive`), because the prover has no
fairness and no `ENABLED`. Every invariant of a passing run is stated by a theorem, with
the conditions given above.

## 5. Not modelled

`PROJECT.json` lists every part with its reason. In short: tools and samples that
only pass data between files and drivers, packaging, vendored code, and signal
processing. Of libkeybox, printing, argument parsing and the byte layout of items
are left out, and a second process on the same device (see the plan). Of aactd, the
connection to the tuning tool with its framing, the hardware DRC and the orderly end
(`eq_sw_local_release` joins a thread that never ends) are left out.

## 6. Limits of the code that the model shows

Whoever changes the code should know these. Most contradict no document; where a
comment or a header says otherwise it is quoted, but no run is about it. Each bounds
what the passing runs claim.

* Two faults lose data: no reader repairs a copy it found bad, and a backup map
  that missed a save comes back when the raw copy dies later, naming items that
  were reused. `Sound` limits the properties to one fault.
* `sd_read_map` hands out an uninitialised buffer when the raw copy cannot be
  read and the backup has no magic (`secure_storage.c:651`); `wild` marks it.
* After a failed map save in an erase, another thread that has already passed
  `secure_storage_support` goes on with the empty map in memory and writes its key
  into item 1, which the map on the device still gives to another key. The
  `storage_threads` run therefore leaves erase out.
* `secure_data_write` returns 0 when `secure_storage_support` fails and nothing is
  written (`api.c:53`, `:70`). `api.h:9` says the opposite ("0: seccure  -1: fail"). The
  properties do not count this 0 as an acknowledgement (`Return`).
* The result of `fsync` is not looked at (`secure_storage.c:550`, NAND `:356`): a device
  error on data that `write` has only buffered is acknowledged with 0, and an old copy
  stays there with a valid crc. If it is the one that is read first, the key reads as before,
  or the map that lists it is not there (`lost`). An error that loses both copies of a new
  item leaves a name without an object, at which `sunxi_secure_object_list` returns with
  the mutex locked; one that loses more than one copy is beyond one fault here.
* `secure_data_write` copies the payload with `strncpy` (`api.c:50`): of a binary payload
  what follows the first NUL is not stored, and 0 is returned.
* A batch whose second write fails saves the name anyway if the first had made the
  map dirty (`secure_storage.c:979`): the name then leads to what the item held before.
* `write_protect` is looked for in the payload (`secure_storage.c:1131`), not in the
  object, so that a protected key is overwritten, contrary to the comment at 1123 ("case
  1. The same name in the secure storage is write_protected, Do thing.").
* `sunxi_secure_object_list` returns without exit when a key cannot be read: the
  mutex stays locked. With one fault and single writes this is not reached.
* A name of 64 characters or more in the map makes every scan fail and the next
  write clear the map.
* Two processes lose each other's updates: nothing serialises them.
* nativepower: a timeout of exactly `AWAKE_TIMEOUT_LIMIT` is accepted from a client
  (`<`) but not adopted from the file (`>`); if the main loop has undone it, it
  stays undone. `TimeoutTakesEffect` is about longer ones.
* nativepower: the key press that wakes the system is a wish to sleep if the
  callback clears `has_sleep` before the key thread reads the press; and a resume
  between the main loop's test and comparison of the activity time makes it go to
  sleep at once.
* nativepower: `wakeup_callback` clears `has_sleep` and then takes the display lock; a
  `goToSleep` that falls between leaves the flag set (`np_input.c:32`: "0-awake,
  1-sleep") on an awake system, and the next press of the power key is swallowed.
* nativepower: a failed `acquire_wake_lock` returns 0. At boot the system may then
  be suspended before there is a callback; later it sleeps once more.
* tinatest: a process that dies before its pid is recorded is waited for and
  forgotten (`task.c:1315`); its test case never ends and neither does tinatest. The
  same after a repetition that could not be started (`:1335`).
* tinatest: a test case that reboots in some of its runs only repeats one of them:
  `task_do` sets `run_times` back to what the status file said at boot (`:846`). One
  that may reboot and never does leaves its boot script behind (`:1093`). In reboot
  mode an end that comes before its start was counted is dropped (`:1097`).
* tinatest: nothing keeps a test case from both `may_reboot` and `run_parallel`. All its
  runs are forked at once and the status file names the first; after the reboot those that
  follow it are forked again: with `run_times` 2, three runs are started.
* tinatest: the rename of the status file is not synced (`task.c:356`): after a power cut
  the earlier file may be there, and one run is made again.
* tinatest: after the reboot of the last run the status file is written once more; if the
  power fails then, the next boot recovers a number beyond the last, and `task_do` stores
  a result behind the array (`:1133`). A boot script that cannot be opened ends in
  `fclose(NULL)` (`:446`).
* tinatest: `exit_tinatest_when_fail` sets `run_alone` (`task.c:213-215`), a `run_alone`
  that comes later in the configuration resets it.
* tinatest: a parallel test case that is given up while it is being started leaves
  processes that were forked after its group was killed (`:1084`); they may share the
  machine with a test case that runs alone. If the fork of its next run fails then, it
  is ended a second time, and `running_cnt` is one too low from there on: a test case
  that must be alone may begin next to another. A quit signal between the test of the
  flag and `task_do` (`:1334`) starts one more run, and before the first task has
  started it kills tinatest's own group (`:828`).
* parallel_insmod: `line_len` is not initialised while the buffer is kept over calls
  (`parallel_insmod.c:70`); a thread that cannot be started ends the program with 0.
* aactd: an update between a thread's last write and its wait is not sent
  (`eq_sw.c:67`), nor noticed later; the slot of a player that has gone is free only
  after the next update; a slot whose thread could not be started is lost (`:169`).
* plugin: an update that arrives while `hw_params` is in `eq_create` may be overtaken by
  the equaliser made from the parameters of the file (`pcm_awequal.c:521`, outside
  `mutex_eq`). After a failed `eq_setpara_reset` there is no equaliser (`:427`) until the
  next update or `hw_params`, which would then start the two threads a second time.
* plugin: of two frames that arrive together the second is used only when a third
  comes (`pcm_awequal.c:326`: edge triggered, one frame per event). `should_stop` is
  not reset, so that after `hw_free` and `hw_params` there is no tuning. `hw_free` may
  leave the connection open, and `awequal_close` then forgets it.

## 7. Plan

Done: `SecureStorage`, `KeyStore`, `NativePower`, `TinaTest`, `TestPlan`,
`ParallelInsmod`, `EqTuning` and its parts, their runs, the theorems of section 4.

1. `NativePower` with the tinasuspend back end: its condition variable is shared by
   two kinds of waiters, and `goToSleep` then waits for the resume. Scenes.
2. `KeyLoader`: keybox_na over `SecureStorage`, and two processes that share one
   device (two instances over the same `mapItem` and `keyItem`).
3. `Framing`: aactd's frames over a stream that delivers them in pieces.
