---------------------------- MODULE SecureStorage ----------------------------
(***************************************************************************)
(* The secure storage of libkeybox (allwinner/security/optee-keybox): keys  *)
(* are kept in 4 KiB items of a raw flash device, item 0 being the map from *)
(* key names to item numbers.  On SD/eMMC every item exists twice, a raw    *)
(* copy and a backup copy.  One process with several threads is modelled;   *)
(* a thread runs one client call at a time (secure_data_write,              *)
(* secure_data_read, erase, list, or the write batch of the test program),  *)
(* and the calls are serialised by sec_mutex, which                         *)
(* sunxi_secure_storage_init takes and sunxi_secure_storage_exit releases.  *)
(*                                                                          *)
(* A key object is [name, val, wp]; BAD is an item copy that                *)
(* check_secure_storage_key rejects.  A map copy is [st, names]: "good"     *)
(* has magic and crc, "nomagic" is a virgin or a legacy map, "badcrc" has   *)
(* the magic and a wrong crc.                                               *)
(***************************************************************************)
EXTENDS Naturals, Sequences, FiniteSets

CONSTANTS
  Threads,      \* the threads of the process
  NoThread,     \* "nobody owns sec_mutex"
  Names,        \* key names
  LongNames,    \* the names of MAP_KEY_NAME_SIZE characters or more
  Prefix,       \* pairs <<m, n>> of names: m is a proper prefix of n
  Values,       \* payloads of at most SEC_BLK_SIZE bytes
  BigValues,    \* the payloads longer than MAX_STORE_LEN
  TextOf,       \* what strncpy keeps of a payload: it ends at the first NUL
  BAD,          \* an unusable item copy, and the value of an absent key
  MaxItem,      \* MAX_SECURE_STORAGE_MAX_ITEM
  BootType,     \* boot_type of the kernel command line, or NoBootType
  Root,         \* the kind of device the command line names as root
  Kinds,        \* the client calls that are made
  BatchNames,   \* the key names of the test program's batch, in its order
  Factory,      \* the maps a device may leave the factory with
  FactoryWP,    \* the factory's keys are write protected
  HeapMaps,     \* what uninitialised heap memory may decode to as a map
  MaxFaults     \* bound on I/O errors and power cuts during a write

ASSUME ConstantsAssumption ==
  /\ NoThread \notin Threads
  /\ LongNames \subseteq Names
  /\ Prefix \subseteq Names \X Names
  /\ BigValues \subseteq Values
  /\ TextOf \in [Values -> Values]
  /\ \A v \in Values : TextOf[v] \in BigValues <=> v \in BigValues
  /\ BAD \notin Values
  /\ MaxItem \in Nat /\ MaxItem >= 2
  /\ BootType \in Nat
  /\ Root \in {"nand", "ubi", "mtdblock", "mmcblk", "none"}
  /\ Kinds \subseteq {"write", "read", "erase", "list", "batch"}
  /\ BatchNames \in Seq(Names) /\ BatchNames # <<>>
  /\ FactoryWP \in BOOLEAN
  /\ MaxFaults \in Nat

\* A factory map lists distinct names, fewer than the map's limit.  A virgin
\* device has an empty map without magic.
ASSUME FactoryAssumption ==
  \A m \in Factory :
    /\ m \in [st : {"good", "nomagic"}, names : Seq(Names)]
    /\ Len(m.names) < MaxItem
    /\ \A p, q \in DOMAIN m.names : m.names[p] = m.names[q] => p = q

ASSUME HeapAssumption ==
  \A m \in HeapMaps : m \in Seq(Names) /\ Len(m) < MaxItem

VARIABLES
  mapItem,   \* item 0 on the device: its two copies
  keyItem,   \* items 1 .. MaxItem-1 on the device: their two copies
  mutex,     \* the owner of sec_mutex
  inited,    \* secure_storage_inited
  dirty,     \* map_dirty
  ram,       \* secure_storage_map, the names it lists in order
  pc,        \* where each thread is in its call
  stage,     \* "support" in secure_storage_support, "main" after it
  op,        \* the call each thread makes
  todo,      \* the items it writes, or the key it reads
  at,        \* position in todo
  idx,       \* the item number found for todo[at]
  bad,       \* the body of the call failed
  ret,       \* what the last call of the thread returned
  got,       \* the object the last read found
  faults,    \* I/O errors and power cuts so far
  wild,      \* history: an uninitialised map buffer has been used
  lost,      \* history: the keys whose write was acknowledged and not carried out
  allowed    \* history: the values each key may have on the device

disk   == <<mapItem, keyItem>>
memory == <<mutex, inited, dirty, ram>>
thread == <<pc, stage, op, todo, at, idx, bad, ret, got>>
vars   == <<mapItem, keyItem, mutex, inited, dirty, ram, pc, stage, op, todo,
            at, idx, bad, ret, got, faults, wild, lost, allowed>>

Items  == 1 .. MaxItem - 1
Copies == {"raw", "backup"}

Object(n, v, p)  == [name |-> n, val |-> v, wp |-> p]
Objects          == [name : Names, val : Values, wp : BOOLEAN]
GoodMap(ns)      == [st |-> "good", names |-> ns]
PlainMap(ns)     == [st |-> "nomagic", names |-> ns]
CorruptMap       == [st |-> "badcrc", names |-> <<>>]
Both(x)          == [raw |-> x, backup |-> x]

ASSUME BadAssumption == BAD \notin Objects

-----------------------------------------------------------------------------
(* The map: a sequence of "name:length" entries; entry p describes item p. *)

First(S) == CHOOSE p \in S : \A q \in S : p <= q

\* The position of the entry for n, or 0.  The scan gives up at an entry
\* whose name does not fit name[MAP_KEY_NAME_SIZE].
probe_name_in_map(m, n) ==
  LET stop == {p \in DOMAIN m : m[p] \in LongNames \/ m[p] = n}
  IN  IF stop = {} THEN 0
      ELSE IF m[First(stop)] \in LongNames THEN 0 ELSE First(stop)

\* memcmp over the length of the entry's name: the entry matches every name
\* that begins with it.
EntryMatchesAny(e, n) == TRUE
EntryMatches(e, n)    == e = n \/ <<e, n>> \in Prefix

\* The map lists at most MaxItem - 1 items.
MapFullLate(m) == Len(m) + 1 > MaxItem
MapFull(m)     == Len(m) + 1 >= MaxItem

\* The entry an item is written under: an entry that matches, else a new one
\* if there is room (index 0 stands for -1).  An entry that is too long makes
\* the whole map rubbish, and it is cleared.
fill_name_in_map(m, n) ==
  LET stop == {p \in DOMAIN m : m[p] \in LongNames \/ EntryMatches(m[p], n)}
  IN  IF stop = {}
      THEN IF MapFull(m)
           THEN [map |-> m, index |-> 0]
           ELSE [map |-> Append(m, n), index |-> Len(m) + 1]
      ELSE IF m[First(stop)] \in LongNames
           THEN [map |-> <<n>>, index |-> 1]
           ELSE [map |-> m, index |-> First(stop)]

-----------------------------------------------------------------------------
(* The device.  u is the set of copies whose read fails. *)

NoBootType == 9

\* 0 NAND, 1 and 2 SD, 3 NOR, 4 eMMC, 9 unknown.
get_flash_type ==
  CASE BootType = 5 -> 0
    [] BootType # NoBootType /\ BootType # 5 -> BootType
    [] BootType = NoBootType /\ Root \in {"nand", "ubi"} -> 0
    [] BootType = NoBootType /\ Root = "mtdblock" -> 3
    [] BootType = NoBootType /\ Root = "mmcblk" -> 4
    [] BootType = NoBootType /\ Root = "none" -> 9

\* The branches of nv_read and nv_write.
Flash == CASE get_flash_type = 0        -> "NAND"
           [] get_flash_type \in {1, 2} -> "SD"
           [] OTHER                     -> "OTHER"

\* Which reads succeed, directly or through /dev/sst_storage.
nand_read(u)      == "raw" \notin u
sd_read(u)        == "raw" \notin u
sd_read_backup(u) == "backup" \notin u

\* The item after a write of w that succeeded.
nand_write(it, w) == [it EXCEPT !.raw = w]
sd_write(w)       == Both(w)
nv_write(it, w)   == IF Flash = "SD" THEN sd_write(w) ELSE nand_write(it, w)

\* A reader that never looks at the backup.
KeyWithoutBackup(it, u) == IF "raw" \in u THEN BAD ELSE it.raw

\* sd_read_key and _nand_read followed by unwrap_secure_object: the object
\* found in an item, or BAD.
nv_read_key(it, u) ==
  CASE Flash = "SD" ->
         IF sd_read(u) /\ it.raw # BAD THEN it.raw
         ELSE IF sd_read_backup(u) THEN it.backup ELSE BAD
    [] Flash = "NAND" -> IF nand_read(u) THEN it.raw ELSE BAD
    [] OTHER -> BAD

Loaded(ns) == [names |-> ns, wild |-> FALSE]

\* A reader that never looks at the backup.
MapWithoutBackup(it, u) ==
  IF "raw" \in u THEN {} ELSE {Loaded(it.raw.names)}

\* sd_read_map: the maps a read of item 0 may hand to the caller; no map is
\* the -1 of a failed read.  A copy without magic is used as it is; when only
\* the backup was read and has no magic, the buffer handed out is the one
\* malloc returned, never written.  sunxi_secure_storage_init then clears a
\* map with a bad crc, so CorruptMap has no names.
sd_read_map(it, u) ==
  LET m0 == IF sd_read(u) THEN it.raw ELSE CorruptMap
      m1 == it.backup
  IN  IF m0.st = "good" THEN {Loaded(m0.names)}
      ELSE IF ~sd_read_backup(u) THEN {}
      ELSE IF m1.st = "good" THEN {Loaded(m1.names)}
      ELSE IF m1.st = "badcrc" THEN {Loaded(<<>>)}
      ELSE IF m0.st = "nomagic" THEN {Loaded(m0.names)}
      ELSE {[names |-> h, wild |-> TRUE] : h \in HeapMaps}

nv_read_map(it, u) ==
  CASE Flash = "SD"   -> sd_read_map(it, u)
    [] Flash = "NAND" -> IF nand_read(u) THEN {Loaded(it.raw.names)} ELSE {}
    [] OTHER          -> {}

\* What an interrupted write may leave in a copy.  A copy is written from its
\* first byte on, and the map's magic and crc are its last bytes: over a map
\* with magic a part of another map has a wrong crc, over one without magic it
\* still has none.
TornMap(c, w) == IF c.st = "nomagic" THEN {PlainMap(w.names)} ELSE {CorruptMap}
TornKey       == {BAD}

\* The item after _sd_write(w) returned -1: the raw copy was not written, or
\* in part, or the backup was not.  The nand driver is taken to write an item
\* or to leave it.
FailedWrite(it, w, t0, t1) ==
  IF Flash = "SD"
  THEN {[it EXCEPT !.raw = c] : c \in t0 \cup {it.raw}} \cup
       {[raw |-> w, backup |-> c] : c \in t1 \cup {it.backup}}
  ELSE {it}

\* The item after _sd_write(w) returned 0 although the device did not take one of
\* the copies: the data is buffered by write(), the error comes with the fsync,
\* and nobody looks at what fsync returns (nor after the ioctl of the nand branch).
\* An error costs one copy; one that costs both counts as two.
DroppedWrite(it, w, t0, t1) ==
  IF Flash = "SD"
  THEN {[raw |-> c, backup |-> w] : c \in t0 \cup {it.raw}} \cup
       {[raw |-> w, backup |-> d] : d \in t1 \cup {it.backup}}
  ELSE {it}

\* The item after a power cut during _sd_write(w).  The two write() calls are
\* only ordered by the final fsync, so either copy may be the one that is
\* there; the device writes one copy at a time.
CutWrite(it, w, t0, t1) ==
  IF Flash = "SD"
  THEN {[raw |-> c, backup |-> d] : c \in {it.raw, w}, d \in {it.backup, w} \cup t1}
       \cup
       {[raw |-> c, backup |-> d] : c \in t0, d \in {it.backup, w}}
  ELSE {it, nand_write(it, w)}

-----------------------------------------------------------------------------
(* What the device holds, as a restarted process would read it. *)

Lookup(m, n) ==
  LET p == probe_name_in_map(m, n)
  IN  IF p = 0 THEN BAD ELSE nv_read_key(keyItem[p], {})

\* The payload of key n under the map m; BAD if it cannot be read.
Stored(m, n) == IF Lookup(m, n) = BAD THEN BAD ELSE Lookup(m, n).val

-----------------------------------------------------------------------------
(* Initial states: a device as it leaves the factory, a process that has not *)
(* used it yet.                                                              *)

Provisioned(m, v) ==
  /\ mapItem = Both(m)
  /\ keyItem = [i \in Items |->
       IF i \in DOMAIN m.names THEN Both(Object(m.names[i], v, FactoryWP))
       ELSE Both(BAD)]
  /\ allowed = [n \in Names |->
       IF \E i \in DOMAIN m.names : m.names[i] = n THEN {v} ELSE {BAD}]

Init ==
  /\ \E m \in Factory, v \in Values \ BigValues : Provisioned(m, v)
  /\ mutex = NoThread
  /\ inited = FALSE
  /\ dirty = FALSE
  /\ ram = <<>>
  /\ pc = [t \in Threads |-> "idle"]
  /\ stage = [t \in Threads |-> "main"]
  /\ op = [t \in Threads |-> "none"]
  /\ todo = [t \in Threads |-> <<>>]
  /\ at = [t \in Threads |-> 1]
  /\ idx = [t \in Threads |-> 0]
  /\ bad = [t \in Threads |-> FALSE]
  /\ ret = [t \in Threads |-> "none"]
  /\ got = [t \in Threads |-> BAD]
  /\ faults = 0
  /\ wild = FALSE
  /\ lost = {}

-----------------------------------------------------------------------------
(* Calling and returning. *)

Write(n, v) == [name |-> n, val |-> v]
Writers     == {"write", "batch"}

\* The items a call is about.  secure_data_write hands on a copy of the payload
\* made with strncpy, the batch the payload itself.
Arguments(k) ==
  CASE k = "write" -> {<<Write(n, TextOf[v])>> : n \in Names, v \in Values}
    [] k = "read"  -> {<<Write(n, BAD)>> : n \in Names}
    [] k = "batch" -> {[i \in DOMAIN BatchNames |-> Write(BatchNames[i], v)] : v \in Values}
    [] OTHER       -> {<<>>}

\* The values a call may leave in key n, other than the one it had.
Effect(k, args, n) ==
  CASE k \in Writers -> {args[i].val : i \in {j \in DOMAIN args : args[j].name = n}}
    [] k = "erase"   -> {BAD}
    [] OTHER         -> {}

\* A thread starts a call; secure_data_write, secure_data_read and the batch
\* begin with secure_storage_support.
Call(t) ==
  /\ pc[t] = "idle"
  /\ \E k \in Kinds : \E args \in Arguments(k) :
       /\ op' = [op EXCEPT ![t] = k]
       /\ todo' = [todo EXCEPT ![t] = args]
       /\ stage' = [stage EXCEPT ![t] =
                      IF k \in {"erase", "list"} THEN "main" ELSE "support"]
       /\ allowed' = [n \in Names |-> allowed[n] \cup Effect(k, args, n)]
  /\ pc' = [pc EXCEPT ![t] = "init"]
  /\ ret' = [ret EXCEPT ![t] = "none"]
  /\ got' = [got EXCEPT ![t] = BAD]
  /\ UNCHANGED <<disk, memory, at, idx, bad, faults, wild, lost>>

\* What the calls still running in other threads may yet do to key n.
Pending(t, n) ==
  UNION {Effect(op[s], todo[s], n) : s \in {r \in Threads \ {t} : pc[r] # "idle"}}

\* The call of t returns r.  A call that went through sunxi_secure_storage_exit
\* and reports success leaves exactly its own effect, up to what concurrent
\* calls do.
Return(t, r) ==
  /\ pc' = [pc EXCEPT ![t] = "idle"]
  /\ ret' = [ret EXCEPT ![t] = r]
  /\ allowed' = [n \in Names |->
       IF r = "ok" /\ pc[t] = "exit" /\ Effect(op[t], todo[t], n) # {}
       THEN Effect(op[t], todo[t], n) \cup Pending(t, n)
       ELSE allowed[n]]
  /\ at' = [at EXCEPT ![t] = 1]
  /\ idx' = [idx EXCEPT ![t] = 0]
  /\ bad' = [bad EXCEPT ![t] = FALSE]
  /\ UNCHANGED stage

-----------------------------------------------------------------------------
(* sunxi_secure_storage_init: takes sec_mutex and, unless a map is already   *)
(* loaded, loads it.                                                         *)

\* pthread_mutex_lock(&sec_mutex) does not wait.
NoLocking(t) == TRUE
CanLock(t)   == mutex = NoThread

\* What the call returns when init fails.  secure_data_write reports success
\* when secure_storage_support failed, secure_data_read returns the result of
\* secure_storage_support whatever happened after it.
InitFailure(t) ==
  CASE op[t] = "write" -> IF stage[t] = "support" THEN "ok" ELSE "fail"
    [] op[t] = "read"  -> IF stage[t] = "support" THEN "fail" ELSE "ok"
    [] OTHER           -> "fail"

InitDone(t) ==
  /\ mutex' = t
  /\ inited' = TRUE
  /\ pc' = [pc EXCEPT ![t] = IF stage[t] = "support" THEN "exit" ELSE "body"]
  /\ UNCHANGED <<disk, dirty, stage, op, todo, at, idx, bad, ret, got, lost, allowed>>

InitLoaded(t) ==
  /\ pc[t] = "init" /\ CanLock(t) /\ inited
  /\ InitDone(t)
  /\ UNCHANGED <<ram, faults, wild>>

InitLoads(t) ==
  /\ pc[t] = "init" /\ CanLock(t) /\ ~inited
  /\ \E u \in SUBSET Copies :
       /\ faults' = faults + Cardinality(u) /\ faults' <= MaxFaults
       /\ \E m \in nv_read_map(mapItem, u) :
            /\ ram' = m.names
            /\ wild' = (wild \/ m.wild)
  /\ InitDone(t)

InitFails(t) ==
  /\ pc[t] = "init" /\ CanLock(t) /\ ~inited
  /\ \E u \in SUBSET Copies :
       /\ faults' = faults + Cardinality(u) /\ faults' <= MaxFaults
       /\ nv_read_map(mapItem, u) = {}
  /\ Return(t, InitFailure(t))
  /\ UNCHANGED <<disk, memory, op, todo, got, wild, lost>>

sunxi_secure_storage_init(t) == InitLoaded(t) \/ InitLoads(t) \/ InitFails(t)

-----------------------------------------------------------------------------
(* The bodies of the calls, between init and exit. *)

\* sunxi_secure_object_write up to the device write.  An item with the same
\* name is read back, but write_protect is looked for in its payload and not
\* in its header, so it never stops the write.  Then the payload is wrapped
\* and the name looked up or added in the map in memory.
sunxi_secure_object_write(t) ==
  LET w == todo[t][at[t]]
      f == fill_name_in_map(ram, w.name)
  IN  /\ pc[t] = "body" /\ op[t] \in Writers
      /\ IF w.val \in BigValues \/ f.index = 0
         THEN /\ bad' = [bad EXCEPT ![t] = TRUE]
              /\ pc' = [pc EXCEPT ![t] = "exit"]
              /\ UNCHANGED <<ram, idx>>
         ELSE /\ ram' = f.map
              /\ idx' = [idx EXCEPT ![t] = f.index]
              /\ pc' = [pc EXCEPT ![t] = "wkey"]
              /\ UNCHANGED bad
      /\ UNCHANGED <<disk, mutex, inited, dirty, stage, op, todo, at, ret, got,
                     faults, wild, lost, allowed>>

\* set_map_dirty, after the item has been written.
DirtyAlways(written) == dirty' = TRUE
MarkDirty(written)   == dirty' = (dirty \/ written)

\* wrap_secure_object: what is written for the current item of t.
Wrapped(t) == Object(todo[t][at[t]].name, todo[t][at[t]].val, FALSE)

\* sunxi_secstorage_write of the item returned 0: the map becomes dirty, and the
\* batch goes on with its next item.
WroteKey(t) ==
  /\ pc[t] = "wkey"
  /\ MarkDirty(TRUE)
  /\ IF at[t] < Len(todo[t])
     THEN /\ at' = [at EXCEPT ![t] = @ + 1]
          /\ pc' = [pc EXCEPT ![t] = "body"]
     ELSE /\ pc' = [pc EXCEPT ![t] = "exit"]
          /\ UNCHANGED at
  /\ UNCHANGED <<mapItem, mutex, inited, ram, stage, op, todo, idx, bad, ret,
                 got, wild, allowed>>

\* All copies are written.
KeyWritten(t) ==
  /\ WroteKey(t)
  /\ keyItem' = [keyItem EXCEPT ![idx[t]] = nv_write(@, Wrapped(t))]
  /\ UNCHANGED <<faults, lost>>

\* An error that fsync reports is dropped; the key is lost when the item still
\* reads as before.
KeyWriteDropped(t) ==
  /\ WroteKey(t)
  /\ faults < MaxFaults
  /\ faults' = faults + 1
  /\ \E it \in DroppedWrite(keyItem[idx[t]], Wrapped(t), TornKey, TornKey) :
       /\ keyItem' = [keyItem EXCEPT ![idx[t]] = it]
       /\ lost' = IF nv_read_key(it, {}) = Wrapped(t) THEN lost
                  ELSE lost \cup {todo[t][at[t]].name}

\* The same write returning -1: the map in memory keeps the name, and is not
\* marked dirty.
KeyWriteFails(t) ==
  /\ pc[t] = "wkey"
  /\ faults < MaxFaults
  /\ faults' = faults + 1
  /\ \E it \in FailedWrite(keyItem[idx[t]], Wrapped(t), TornKey, TornKey) :
       keyItem' = [keyItem EXCEPT ![idx[t]] = it]
  /\ MarkDirty(FALSE)
  /\ bad' = [bad EXCEPT ![t] = TRUE]
  /\ pc' = [pc EXCEPT ![t] = "exit"]
  /\ UNCHANGED <<mapItem, mutex, inited, ram, stage, op, todo, at, idx, ret, got, wild, lost, allowed>>

\* sunxi_secure_object_read.
sunxi_secure_object_read(t) ==
  LET p == probe_name_in_map(ram, todo[t][1].name)
  IN  /\ pc[t] = "body" /\ op[t] = "read"
      /\ \E u \in SUBSET Copies :
           /\ faults' = faults + Cardinality(u) /\ faults' <= MaxFaults
           /\ got' = [got EXCEPT ![t] =
                        IF p = 0 THEN BAD ELSE nv_read_key(keyItem[p], u)]
      /\ bad' = [bad EXCEPT ![t] = got'[t] = BAD]
      /\ pc' = [pc EXCEPT ![t] = "exit"]
      /\ UNCHANGED <<disk, memory, stage, op, todo, at, idx, ret, wild, lost, allowed>>

\* sunxi_secure_object_erase: only the map is cleared.
sunxi_secure_object_erase(t) ==
  /\ pc[t] = "body" /\ op[t] = "erase"
  /\ ram' = <<>>
  /\ dirty' = TRUE
  /\ pc' = [pc EXCEPT ![t] = "exit"]
  /\ UNCHANGED <<disk, mutex, inited, stage, op, todo, at, idx, bad, ret, got,
                 faults, wild, lost, allowed>>

\* sunxi_secure_object_list reads every key of the map; i is an item with
\* copies u unreadable.  At the first key it cannot read, or at an entry that
\* is too long, it returns -1 without sunxi_secure_storage_exit.
sunxi_secure_object_list(t) ==
  /\ pc[t] = "body" /\ op[t] = "list"
  /\ \E u \in SUBSET Copies, i \in Items :
       /\ faults' = faults + Cardinality(u) /\ faults' <= MaxFaults
       /\ IF \A p \in DOMAIN ram :
               /\ ram[p] \notin LongNames
               /\ nv_read_key(keyItem[p], IF p = i THEN u ELSE {}) # BAD
          THEN /\ pc' = [pc EXCEPT ![t] = "exit"]
               /\ UNCHANGED <<stage, at, idx, bad, ret, allowed>>
          ELSE Return(t, "fail")
  /\ UNCHANGED <<disk, memory, op, todo, got, wild, lost>>

-----------------------------------------------------------------------------
(* sunxi_secure_storage_exit: saves a dirty map and releases sec_mutex. *)

\* The caller goes on after exit: secure_storage_support ignores its result,
\* secure_data_read returns 0 in any case.
AfterExit(t, saved) ==
  IF stage[t] = "support"
  THEN /\ pc' = [pc EXCEPT ![t] = "init"]
       /\ stage' = [stage EXCEPT ![t] = "main"]
       /\ UNCHANGED <<at, idx, bad, ret, allowed>>
  ELSE Return(t, IF op[t] = "read" \/ (saved /\ ~bad[t]) THEN "ok" ELSE "fail")

\* The batch of the test program ends with exit(1) when it has succeeded.
ExitMode(t) == op[t] = "batch" /\ stage[t] = "main" /\ ~bad[t]

\* The map is saved if it was asked for or the map is dirty.
SavedOnDemand(t) == ExitMode(t)
NeedsSave(t)     == ExitMode(t) \/ dirty

\* secure_storage_inited and map_dirty are reset when the map is on the device;
\* sec_mutex is released either way.
KeepLoaded(saved) == inited' = inited /\ dirty' = (dirty /\ ~saved)
Unload(saved)     == inited' = (inited /\ ~saved) /\ dirty' = (dirty /\ ~saved)

UnlockIfSaved(saved) == mutex' = IF saved THEN NoThread ELSE mutex
Unlock(saved)        == mutex' = NoThread

Leave(t, saved) ==
  /\ Unload(saved)
  /\ Unlock(saved)
  /\ AfterExit(t, saved)

ExitClean(t) ==
  /\ pc[t] = "exit" /\ ~NeedsSave(t)
  /\ Leave(t, TRUE)
  /\ UNCHANGED <<disk, ram, op, todo, got, faults, wild, lost>>

ExitSaves(t) ==
  /\ pc[t] = "exit" /\ NeedsSave(t)
  /\ mapItem' = nv_write(mapItem, GoodMap(ram))
  /\ Leave(t, TRUE)
  /\ UNCHANGED <<keyItem, ram, op, todo, got, faults, wild, lost>>

\* The keys the call of t is about.
Touched(t) == {n \in Names : Effect(op[t], todo[t], n) # {}}

\* An error that fsync reports is dropped: the call goes on as after a save, and
\* its effect is lost when the map on the device still reads as before.
ExitDropped(t) ==
  /\ pc[t] = "exit" /\ NeedsSave(t)
  /\ faults < MaxFaults
  /\ faults' = faults + 1
  /\ mapItem' \in DroppedWrite(mapItem, GoodMap(ram),
                    TornMap(mapItem.raw, GoodMap(ram)),
                    TornMap(mapItem.backup, GoodMap(ram)))
  /\ lost' = IF nv_read_map(mapItem', {}) = {Loaded(ram)} THEN lost
             ELSE lost \cup Touched(t)
  /\ Leave(t, TRUE)
  /\ UNCHANGED <<keyItem, ram, op, todo, got, wild>>

\* The map cannot be written: the mutex is released, the map stays loaded and
\* dirty.
ExitFails(t) ==
  /\ pc[t] = "exit" /\ NeedsSave(t)
  /\ faults < MaxFaults
  /\ faults' = faults + 1
  /\ mapItem' \in FailedWrite(mapItem, GoodMap(ram),
                    TornMap(mapItem.raw, GoodMap(ram)),
                    TornMap(mapItem.backup, GoodMap(ram)))
  /\ Leave(t, FALSE)
  /\ UNCHANGED <<keyItem, ram, op, todo, got, wild, lost>>

sunxi_secure_storage_exit(t) ==
  ExitClean(t) \/ ExitSaves(t) \/ ExitDropped(t) \/ ExitFails(t)

-----------------------------------------------------------------------------
(* The process ends and a new one starts.  All calls are gone, the device   *)
(* keeps what it has.                                                        *)

Reboot ==
  /\ mutex' = NoThread
  /\ inited' = FALSE
  /\ dirty' = FALSE
  /\ ram' = <<>>
  /\ pc' = [t \in Threads |-> "idle"]
  /\ stage' = [t \in Threads |-> "main"]
  /\ op' = [t \in Threads |-> "none"]
  /\ todo' = [t \in Threads |-> <<>>]
  /\ at' = [t \in Threads |-> 1]
  /\ idx' = [t \in Threads |-> 0]
  /\ bad' = [t \in Threads |-> FALSE]
  /\ ret' = [t \in Threads |-> "none"]
  /\ got' = [t \in Threads |-> BAD]
  /\ UNCHANGED <<wild, lost, allowed>>

\* Between two device writes.
Restart == Reboot /\ UNCHANGED <<disk, faults>>

\* During the write of a key.
CutKeyWrite(t) ==
  /\ pc[t] = "wkey"
  /\ faults < MaxFaults
  /\ faults' = faults + 1
  /\ \E it \in CutWrite(keyItem[idx[t]], Wrapped(t), TornKey, TornKey) :
       keyItem' = [keyItem EXCEPT ![idx[t]] = it]
  /\ UNCHANGED mapItem
  /\ Reboot

\* During the write of the map.
CutMapWrite(t) ==
  /\ pc[t] = "exit" /\ NeedsSave(t)
  /\ faults < MaxFaults
  /\ faults' = faults + 1
  /\ mapItem' \in CutWrite(mapItem, GoodMap(ram),
                    TornMap(mapItem.raw, GoodMap(ram)),
                    TornMap(mapItem.backup, GoodMap(ram)))
  /\ UNCHANGED keyItem
  /\ Reboot

-----------------------------------------------------------------------------

Step(t) ==
  \/ sunxi_secure_storage_init(t)
  \/ sunxi_secure_object_write(t)
  \/ KeyWritten(t)
  \/ KeyWriteDropped(t)
  \/ KeyWriteFails(t)
  \/ sunxi_secure_object_read(t)
  \/ sunxi_secure_object_erase(t)
  \/ sunxi_secure_object_list(t)
  \/ sunxi_secure_storage_exit(t)

Next ==
  \/ \E t \in Threads : Call(t) \/ Step(t) \/ CutKeyWrite(t) \/ CutMapWrite(t)
  \/ Restart

Spec == Init /\ [][Next]_vars

\* Threads that can run do, and a thread waiting for sec_mutex gets it if it is
\* released again and again.  Calls, restarts and faults need not happen.
Fairness ==
  \A t \in Threads : /\ WF_vars(Step(t))
                     /\ SF_vars(sunxi_secure_storage_init(t))

LiveSpec == Spec /\ Fairness

-----------------------------------------------------------------------------
(* Properties. *)

PCs  == {"idle", "init", "body", "wkey", "exit"}
Maps == [st : {"good", "nomagic", "badcrc"}, names : Seq(Names)]

\* The types of the variables; in particular every item number handed to the
\* device is one of the items it has.
TypeOK ==
  /\ mapItem \in [raw : Maps, backup : Maps]
  /\ keyItem \in [Items -> [raw : Objects \cup {BAD}, backup : Objects \cup {BAD}]]
  /\ mutex \in Threads \cup {NoThread}
  /\ inited \in BOOLEAN
  /\ dirty \in BOOLEAN
  /\ ram \in Seq(Names)
  /\ pc \in [Threads -> PCs]
  /\ stage \in [Threads -> {"support", "main"}]
  /\ op \in [Threads -> Kinds \cup {"none"}]
  /\ todo \in [Threads -> Seq([name : Names, val : Values \cup {BAD}])]
  /\ at \in [Threads -> Nat \ {0}]
  /\ idx \in [Threads -> Items \cup {0}]
  /\ bad \in [Threads -> BOOLEAN]
  /\ ret \in [Threads -> {"none", "ok", "fail"}]
  /\ got \in [Threads -> Objects \cup {BAD}]
  /\ faults \in 0 .. MaxFaults
  /\ wild \in BOOLEAN
  /\ lost \in SUBSET Names
  /\ allowed \in [Names -> SUBSET (Values \cup {BAD})]

\* The device promises nothing once two faults have hit it, or once an
\* uninitialised buffer has been taken for the map.
Sound == faults <= 1 /\ ~wild

\* The values of key n that a restarted process may read from the device.
DeviceValues(n) ==
  IF nv_read_map(mapItem, {}) = {} THEN {BAD}
  ELSE {Stored(m.names, n) : m \in {r \in nv_read_map(mapItem, {}) : ~r.wild}}

\* A key holds the last value whose write was carried out and reported
\* success, or one of a write
\* (or an erase) that was started after it and has not reported success:
\* neither an I/O error nor a power cut loses an acknowledged key, brings an
\* erased one back, or touches a key nobody writes.  The exception are the keys of
\* the one call whose write error fsync reported to nobody.
AckedKeysSurvive ==
  Sound => \A n \in Names \ lost : DeviceValues(n) \subseteq allowed[n]

\* Every entry of the map on the device belongs to an item that holds a valid
\* object with the entry's name: the item is written before the map that
\* lists it, and no item is reused while a map on the device gives it to
\* another key.  (After a dropped error the item of that key may be an old one.)
MapNamesOwnItems ==
  Sound => \A m \in nv_read_map(mapItem, {}) : ~m.wild =>
    \A p \in DOMAIN m.names : m.names[p] \notin lost =>
      /\ nv_read_key(keyItem[p], {}) # BAD
      /\ nv_read_key(keyItem[p], {}).name = m.names[p]

\* sec_mutex is held exactly by the thread that is between init and exit, on
\* every path out of a call.
LockDiscipline ==
  Sound => \A t \in Threads : mutex = t <=> pc[t] \in {"body", "wkey", "exit"}

\* A read finds a value the key may have: it is served from the map in memory,
\* which may be ahead of the device after a failed save.
ReadsAllowed ==
  [][\A t \in Threads :
       pc[t] = "body" /\ op[t] = "read" /\ pc'[t] = "exit" /\ Sound' /\ todo[t][1].name \notin lost =>
         (IF got'[t] = BAD THEN BAD ELSE got'[t].val) \in allowed[todo[t][1].name]]_vars

\* Every call returns: no path leaves sec_mutex locked, and a failed save does
\* not make the next call wait.
CallsReturn == \A t \in Threads : pc[t] # "idle" ~> pc[t] = "idle"

\* The device as a table of keys, as a restarted process reads it.
DeviceMap  == CHOOSE m \in nv_read_map(mapItem, {}) : TRUE
DeviceTable == [n \in Names |-> Stored(DeviceMap.names, n)]

\* What may have been asked for; anything, of a key that was lost.
Asked == [n \in Names |-> IF n \in lost THEN Values \cup {BAD} ELSE allowed[n]]

Table == INSTANCE KeyStore WITH NoValue <- BAD, store <- DeviceTable, asked <- Asked

\* With at most one fault the device implements KeyStore: the first map or
\* item copy that becomes readable is the one step in which a call takes
\* effect, and a torn copy changes nothing.
ImplementsKeyStore == Table!StoreSpec

-----------------------------------------------------------------------------
(* What the test program says of a batch, and the code does not do.          *)

\* test_sst_verify: every key that test_sst_init wrote reads back with the
\* value it wrote.
BatchVerifies ==
  \A t \in Threads :
    pc[t] = "idle" /\ op[t] = "batch" /\ ret[t] = "ok" =>
      \A i \in DOMAIN todo[t] : DeviceValues(todo[t][i].name) = {todo[t][i].val}
=============================================================================
