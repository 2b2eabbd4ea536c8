----------------------- MODULE SecureStorageKeyProofs -----------------------
(***************************************************************************)
(* The secure storage loses no key and confuses none: proofs, for every set  *)
(* of names, values, threads and items and any number of faults, of what the *)
(* storage promises while at most one of them has hit the device.            *)
(***************************************************************************)
EXTENDS SecureStorageProofs

-----------------------------------------------------------------------------
(* The names and the calls for which the storage keeps its promise. *)

\* No name is too long for an entry of the map or the beginning of another: the
\* entry __fill_name_in_map settles on is the one of the key itself.
NamesApart == LongNames = {} /\ Prefix = {}

\* Who may erase is the only thread: nobody has passed secure_storage_support when
\* the save of an erased map fails.
EraserAlone == "erase" \in Kinds => \A s, t \in Threads : s = t

\* A batch whose second key cannot be written still saves the map that lists it.
BatchUndisturbed == "batch" \in Kinds => MaxFaults = 0

Regime == NamesApart /\ EraserAlone /\ BatchUndisturbed

-----------------------------------------------------------------------------
(* The maps and the items. *)

\* The maps a restarted process may read.
Readable == {m \in nv_read_map(mapItem, {}) : ~m.wild}

\* The object in item p, as a restarted process finds it.
Item(p) == nv_read_key(keyItem[p], {})

\* Item p holds the key that entry p of the map names.  The item of a lost key may be an
\* old one; where there are two copies it can be read.
Owns(m, p) ==
  \/ Item(p) # BAD /\ Item(p).name = m[p]
  \/ m[p] \in lost /\ (Flash = "SD" => Item(p) # BAD)

\* The list ns begins with m.
Continues(ns, m) == Len(m) <= Len(ns) /\ \A p \in DOMAIN m : ns[p] = m[p]

\* A kind of flash nv_read handles.
Device == Flash \in {"SD", "NAND"}

\* The two copies of an item are the same, where there are two.
Same(it) == Flash = "SD" => it.raw = it.backup

\* They are, and no key is lost, as long as nothing has failed.
CopiesAgree ==
  faults = 0 =>
    /\ lost = {}
    /\ Same(mapItem) /\ mapItem.raw.st # "badcrc"
    /\ \A i \in Items : Same(keyItem[i])

\* Item p is the one thread t was to write: it is about to, or it has failed and is
\* on its way out without saving the map.
Unwritten(t, p) ==
  idx[t] = p /\ (pc[t] = "wkey" \/ (pc[t] = "exit" /\ ~NeedsSave(t)))

\* The erased map has not reached the device, and no write is past
\* secure_storage_support, which will save it.
Erased ==
  /\ "erase" \in Kinds /\ ram = <<>> /\ dirty
  /\ \A t \in Threads :
       op[t] \in Writers /\ pc[t] \in {"init", "body", "wkey"} => stage[t] = "support"

\* Every entry of the map on the device, and of the map in memory, has its item.
DeviceOwns == \A m \in Readable : \A p \in DOMAIN m.names : Owns(m.names, p)

RamOwns ==
  \A p \in DOMAIN ram : Owns(ram, p) \/ \E t \in Threads : Unwritten(t, p)

\* The map in memory continues the one on the device.
RamAhead == Erased \/ \A m \in Readable : Continues(ram, m.names)

\* What a thread between init and exit may rely on.
CallOf(t) ==
  /\ pc[t] \in Inside => mutex = t /\ inited
  /\ pc[t] \in {"body", "wkey"} => stage[t] = "main"
  /\ op[t] = "write" => Len(todo[t]) = 1
  /\ pc[t] = "wkey" => /\ idx[t] = probe_name_in_map(ram, todo[t][at[t]].name)
                       /\ idx[t] # 0
  /\ faults = 0 /\ op[t] = "write" /\ pc[t] \in {"body", "wkey"} => ~dirty

\* Without a fault the map is only dirty while a call is changing it.
DirtyInside ==
  /\ dirty => inited
  /\ faults = 0 /\ dirty =>
       \E t \in Threads : /\ pc[t] \in Inside /\ stage[t] = "main"
                          /\ op[t] \in Writers \cup {"erase"}

\* The inductive invariant of the map.
MapInv ==
  /\ \A t \in Threads : CallOf(t)
  /\ DirtyInside
  /\ inited => Device
  /\ Sound =>
       /\ CopiesAgree
       /\ DeviceOwns
       /\ inited => RamOwns /\ RamAhead

-----------------------------------------------------------------------------
(* The values of the keys. *)

\* The payload an object carries, and the one of key n in the items under the map m
\* (Stored, for items that are not those of the state).
Val(o)              == IF o = BAD THEN BAD ELSE o.val
Fetch(items, m, n)  ==
  LET p == probe_name_in_map(m, n)
  IN  IF p = 0 THEN BAD ELSE Val(nv_read_key(items[p], {}))

\* Every key that is not lost has a value it may have, under the map on the device; under
\* the map in memory too, but for the key that is being written.
DeviceValued ==
  \A m \in Readable : \A n \in Names \ lost : Fetch(keyItem, m.names, n) \in allowed[n]

RamValued ==
  \A n \in Names \ lost :
    \/ Fetch(keyItem, ram, n) \in allowed[n]
    \/ \E t \in Threads : \E p \in DOMAIN ram : ram[p] = n /\ Unwritten(t, p)

\* A key may have the values the running calls give it.
EffectOf(t) ==
  pc[t] # "idle" => \A n \in Names : Effect(op[t], todo[t], n) \subseteq allowed[n]

\* A call writes one value, and begins with its first item.
ShapeOf(t) ==
  /\ op[t] \in Writers => \A i, j \in DOMAIN todo[t] : todo[t][i].val = todo[t][j].val
  /\ op[t] = "erase" => stage[t] = "main"
  /\ pc[t] \in {"idle", "init"} \/ stage[t] = "support" => at[t] = 1

\* Item i of the call of t can be fetched, unless its key is lost.
InPlace(t, i) ==
  todo[t][i].name \in lost \/ Fetch(keyItem, ram, todo[t][i].name) = todo[t][i].val

\* What the call has done is in memory and waits to be saved.
DoneOf(t) ==
  /\ op[t] = "erase" /\ pc[t] = "exit" => ram = <<>> /\ dirty
  /\ Sound /\ op[t] \in Writers /\ stage[t] = "main" =>
       /\ pc[t] \in {"body", "wkey"} => \A i \in DOMAIN todo[t] : i < at[t] => InPlace(t, i)
       /\ pc[t] = "exit" /\ ~bad[t] => dirty /\ \A i \in DOMAIN todo[t] : InPlace(t, i)

\* The inductive invariant of the values, next to the one of the map.
ValueInv ==
  /\ \A t \in Threads : EffectOf(t) /\ ShapeOf(t) /\ DoneOf(t)
  /\ Sound =>
       /\ Device => Readable # {}
       /\ DeviceValued
       /\ inited => RamValued

-----------------------------------------------------------------------------
(* The operators on maps, for names that keep apart. *)

\* The number of the first entry for n, or 0 when there is none.
FirstEntry(m, n, p) ==
  \/ p = 0 /\ \A q \in DOMAIN m : m[q] # n
  \/ p \in DOMAIN m /\ m[p] = n /\ \A q \in DOMAIN m : m[q] = n => p <= q

\* There is one such number.
LEMMA FirstEntryUnique ==
  ASSUME NEW m \in Seq(Names), NEW n, NEW p, NEW q, FirstEntry(m, n, p), FirstEntry(m, n, q)
  PROVE  p = q
<1>1. DOMAIN m \subseteq Nat
  OBVIOUS
<1> QED BY <1>1 DEF FirstEntry

\* __probe_name_in_map finds it.
LEMMA ProbeFinds ==
  ASSUME NamesApart, NEW m \in Seq(Names), NEW n
  PROVE  FirstEntry(m, n, probe_name_in_map(m, n))
<1> DEFINE stop == {p \in DOMAIN m : m[p] \in LongNames \/ m[p] = n}
<1>1. stop \in SUBSET Nat /\ \A p : p \in stop <=> p \in DOMAIN m /\ m[p] = n
  BY DEF NamesApart
<1>2. CASE stop = {}
  BY <1>1, <1>2 DEF probe_name_in_map, FirstEntry
<1>3. CASE stop # {}
  <2>1. First(stop) \in stop /\ \A q \in stop : First(stop) <= q
    BY <1>1, <1>3, FirstIsLeast
  <2>2. probe_name_in_map(m, n) = First(stop)
    BY <1>3, NamesApart DEF probe_name_in_map, NamesApart
  <2> QED BY <2>1, <2>2, <1>1 DEF FirstEntry
<1> QED BY <1>2, <1>3

\* __fill_name_in_map finds the entry of the key itself or appends one.
LEMMA FillFinds ==
  ASSUME NamesApart, NEW m \in Seq(Names), NEW n \in Names,
         fill_name_in_map(m, n).index # 0
  PROVE  LET f == fill_name_in_map(m, n) IN
         \/ f.map = m /\ f.index # 0 /\ FirstEntry(m, n, f.index)
         \/ f.map = Append(m, n) /\ f.index = Len(m) + 1 /\ FirstEntry(m, n, 0)
<1> DEFINE stop == {p \in DOMAIN m : m[p] \in LongNames \/ EntryMatches(m[p], n)}
<1>1. stop \in SUBSET Nat /\ \A p : p \in stop <=> p \in DOMAIN m /\ m[p] = n
  BY DEF NamesApart, EntryMatches
<1>2. CASE stop = {}
  <2>1. fill_name_in_map(m, n) = [map |-> Append(m, n), index |-> Len(m) + 1]
    BY <1>2 DEF fill_name_in_map
  <2>2. FirstEntry(m, n, 0)
    BY <1>1, <1>2 DEF FirstEntry
  <2> QED BY <2>1, <2>2
<1>3. CASE stop # {}
  <2>1. First(stop) \in stop /\ \A q \in stop : First(stop) <= q
    BY <1>1, <1>3, FirstIsLeast
  <2>2. m[First(stop)] \notin LongNames
    BY DEF NamesApart
  <2>3. fill_name_in_map(m, n) = [map |-> m, index |-> First(stop)]
    BY <2>2, <1>3 DEF fill_name_in_map
  <2> QED BY <2>1, <2>3, <1>1 DEF FirstEntry
<1> QED BY <1>2, <1>3

\* An appended entry is found, and the others where they were.
LEMMA AppendFinds ==
  ASSUME NEW m \in Seq(Names), NEW n \in Names, FirstEntry(m, n, 0)
  PROVE  /\ FirstEntry(Append(m, n), n, Len(m) + 1)
         /\ \A k, p : k # n /\ FirstEntry(m, k, p) => FirstEntry(Append(m, n), k, p)
         /\ Continues(Append(m, n), m)
<1>1. /\ DOMAIN m = 1 .. Len(m) /\ Len(m) \in Nat
      /\ DOMAIN Append(m, n) = 1 .. (Len(m) + 1) /\ Len(Append(m, n)) = Len(m) + 1
      /\ Append(m, n)[Len(m) + 1] = n
      /\ \A q \in 1 .. Len(m) : Append(m, n)[q] = m[q]
  OBVIOUS
<1> QED BY <1>1 DEF FirstEntry, Continues

\* A map that continues another finds its entries where they were.
LEMMA ContinuedFinds ==
  ASSUME NEW m \in Seq(Names), NEW ns \in Seq(Names), Continues(ns, m), NEW n, NEW p,
         FirstEntry(ns, n, p)
  PROVE  FirstEntry(m, n, IF p \in DOMAIN m THEN p ELSE 0)
<1>1. /\ DOMAIN m = 1 .. Len(m) /\ Len(m) \in Nat
      /\ DOMAIN ns = 1 .. Len(ns) /\ Len(ns) \in Nat
  OBVIOUS
<1> QED BY <1>1 DEF FirstEntry, Continues

-----------------------------------------------------------------------------
(* The operators on the device. *)

\* A written key is read back.
LEMMA KeyReadBack ==
  ASSUME Device, NEW it \in [raw : Keys, backup : Keys], NEW w \in Objects
  PROVE  nv_read_key(nv_write(it, w), {}) = w
<1>1. w # BAD
  BY BadAssumption
<1> QED BY <1>1 DEF Device, nv_read_key, nv_write, sd_write, nand_write, Both, sd_read, nand_read

\* A write that fails or is cut off leaves the old or the new object.
LEMMA KeyOldOrNew ==
  ASSUME Device, NEW it \in [raw : Keys, backup : Keys], Same(it), NEW w \in Objects,
         NEW x \in FailedWrite(it, w, TornKey, TornKey) \cup CutWrite(it, w, TornKey, TornKey)
  PROVE  nv_read_key(x, {}) \in {nv_read_key(it, {}), w}
<1>1. w # BAD
  BY BadAssumption
<1>2. CASE Flash = "SD"
  <2>1. it = [raw |-> it.raw, backup |-> it.raw]
    BY <1>2 DEF Same
  <2>2. x = [raw |-> x.raw, backup |-> x.backup]
    BY <1>2 DEF FailedWrite, CutWrite
  <2>3. \/ x.raw = BAD /\ x.backup \in {it.raw, w}
        \/ x.raw = it.raw /\ x.backup \in {it.raw, w, BAD}
        \/ x.raw = w
    BY <1>2, <2>1 DEF FailedWrite, CutWrite, TornKey
  <2> QED BY <1>1, <1>2, <2>1, <2>3 DEF nv_read_key, sd_read, sd_read_backup
<1>3. CASE Flash = "NAND"
  BY <1>3 DEF FailedWrite, CutWrite, nand_write, nv_read_key, nand_read
<1> QED BY <1>2, <1>3 DEF Device

\* A write whose error is dropped leaves what a power cut may leave.
LEMMA DroppedIsCut ==
  ASSUME NEW it, NEW w, NEW t0, NEW t1
  PROVE  DroppedWrite(it, w, t0, t1) \subseteq CutWrite(it, w, t0, t1)
BY DEF DroppedWrite, CutWrite

\* On a device with two copies it leaves one that can be read.
LEMMA DroppedReads ==
  ASSUME Flash = "SD", NEW it \in [raw : Keys, backup : Keys], NEW w \in Objects,
         NEW x \in DroppedWrite(it, w, TornKey, TornKey)
  PROVE  nv_read_key(x, {}) # BAD
<1>1. w # BAD
  BY BadAssumption
<1>2. x.raw = w \/ x.backup = w
  BY DEF DroppedWrite
<1> QED BY <1>1, <1>2 DEF nv_read_key, sd_read, sd_read_backup

\* With one copy unreadable the other serves, where there are two.
LEMMA KeyReread ==
  ASSUME Flash = "SD", NEW it \in [raw : Keys, backup : Keys], it.raw = it.backup,
         NEW u \in SUBSET Copies, u # Copies
  PROVE  nv_read_key(it, u) = nv_read_key(it, {})
BY DEF nv_read_key, sd_read, sd_read_backup, Copies

\* The map that was saved is read back.
LEMMA MapReadBack ==
  ASSUME Device, NEW it, NEW ns
  PROVE  nv_read_map(nv_write(it, GoodMap(ns)), {}) = {Loaded(ns)}
BY DEF Device, nv_read_map, sd_read_map, nv_write, sd_write, nand_write, Both, GoodMap, sd_read,
       nand_read

\* The raw copy of a map with magic, or the only one, is read.
LEMMA MapRead ==
  ASSUME Device, NEW it \in [raw : FitMaps, backup : FitMaps], Same(it), it.raw.st # "badcrc"
  PROVE  nv_read_map(it, {}) = {Loaded(it.raw.names)}
BY DEF Device, Same, nv_read_map, sd_read_map, sd_read, sd_read_backup, nand_read, FitMaps, Maps

\* A read hands out one map, unless it is one of the heap's.
LEMMA MapUnique ==
  ASSUME NEW it, NEW m \in nv_read_map(it, {}), NEW r \in nv_read_map(it, {}), ~m.wild, ~r.wild
  PROVE  m = r
<1>1. CASE Flash = "SD"
  BY <1>1 DEF nv_read_map, sd_read_map
<1>2. CASE Flash # "SD"
  BY <1>2 DEF nv_read_map
<1> QED BY <1>1, <1>2

\* With copies unreadable the same map is read, or none, or one of the heap's.
LEMMA MapReread ==
  ASSUME Device, NEW it \in [raw : FitMaps, backup : FitMaps], Same(it), it.raw.st # "badcrc",
         NEW u \in SUBSET Copies, NEW m \in nv_read_map(it, u), ~m.wild
  PROVE  m = Loaded(it.raw.names)
<1>1. CASE Flash = "SD"
  <2>1. it.backup = it.raw
    BY <1>1 DEF Same
  <2>2. CASE sd_read(u)
    BY <1>1, <2>1, <2>2 DEF nv_read_map, sd_read_map
  <2>3. CASE ~sd_read(u)
    BY <1>1, <2>1, <2>3 DEF nv_read_map, sd_read_map, CorruptMap
  <2> QED BY <2>2, <2>3
<1>2. CASE Flash = "NAND"
  BY <1>2 DEF nv_read_map
<1> QED BY <1>1, <1>2 DEF Device

\* A save that fails or is cut off leaves the old or the new map to be read.
LEMMA MapOldOrNew ==
  ASSUME Device, NEW it \in [raw : FitMaps, backup : FitMaps], Same(it), it.raw.st # "badcrc",
         NEW ns,
         NEW t0, t0 = TornMap(it.raw, GoodMap(ns)), NEW t1, t1 = TornMap(it.backup, GoodMap(ns)),
         NEW x \in FailedWrite(it, GoodMap(ns), t0, t1) \cup CutWrite(it, GoodMap(ns), t0, t1),
         NEW m \in nv_read_map(x, {})
  PROVE  m = Loaded(it.raw.names) \/ m = Loaded(ns)
<1> DEFINE w == GoodMap(ns)
<1>0. w.st = "good" /\ w.names = ns
  BY DEF GoodMap
<1>1. CASE Flash = "SD"
  <2>1. it = [raw |-> it.raw, backup |-> it.raw] /\ t1 = t0
    BY <1>1 DEF Same
  <2>2. PICK c, d : x = [raw |-> c, backup |-> d] /\
          (\/ c \in t0 /\ d \in {it.raw, w}
           \/ c \in {it.raw, w} /\ d \in {it.raw, w} \cup t0)
    BY <1>1, <2>1 DEF FailedWrite, CutWrite
  <2>3. x.raw = c /\ x.backup = d /\ sd_read({}) /\ sd_read_backup({})
    BY <2>2 DEF sd_read, sd_read_backup
  <2> HIDE DEF w
  <2>4. m \in sd_read_map(x, {})
    BY <1>1 DEF nv_read_map
  <2>5. it.raw.st \in {"good", "nomagic"}
    BY DEF FitMaps, Maps
  <2>6. CASE it.raw.st = "good"
    <3>1. \A e \in t0 : e.st = "badcrc"
      BY <2>6 DEF TornMap, CorruptMap
    <3> QED BY <2>2, <2>3, <2>4, <2>6, <3>1, <1>0 DEF sd_read_map
  <2>7. CASE it.raw.st = "nomagic"
    <3>1. \A e \in t0 : e.st = "nomagic" /\ e.names = ns
      BY <2>7 DEF TornMap, PlainMap, GoodMap
    <3> QED BY <2>2, <2>3, <2>4, <2>7, <3>1, <1>0 DEF sd_read_map
  <2> QED BY <2>5, <2>6, <2>7
<1>2. CASE Flash = "NAND"
  <2>1. x.raw \in {it.raw, w}
    BY <1>2 DEF FailedWrite, CutWrite, nand_write
  <2>2. m = Loaded(x.raw.names)
    BY <1>2 DEF nv_read_map
  <2> QED BY <2>1, <2>2, <1>0
<1> QED BY <1>1, <1>2 DEF Device

-----------------------------------------------------------------------------
(* Every step keeps the invariant of the map. *)

\* A device that is sound after a step was sound before: faults are not forgotten.
LEMMA SoundBefore ==
  ASSUME TypeInv, [Next]_vars, Sound'
  PROVE  Sound /\ faults <= faults'
<1> DEFINE Grows == faults <= faults' /\ (wild => wild')
<1>1. faults \in Nat /\ faults' \in Nat /\ \A u \in SUBSET Copies : Cardinality(u) \in Nat
  <2>1. TypeInv'
    BY NextTypes
  <2>2. faults \in Nat
    BY ConstantTypes DEF TypeInv, TypeOK
  <2>3. faults' \in Nat
    BY <2>1, ConstantTypes DEF TypeInv, TypeOK
  <2> QED BY <2>2, <2>3, CopiesCount
<1>2. CASE UNCHANGED vars
  BY <1>1, <1>2 DEF vars, Sound
<1>3. ASSUME NEW t \in Threads, Call(t) PROVE Grows
  BY <1>1, <1>3 DEF Call
<1>4. ASSUME NEW t \in Threads, sunxi_secure_storage_init(t) PROVE Grows
  <2>1. CASE InitLoaded(t)
    BY <1>1, <2>1 DEF InitLoaded
  <2>2. CASE InitLoads(t)
    <3>1. \E u \in SUBSET Copies : faults' = faults + Cardinality(u)
      BY <2>2, Zenon DEF InitLoads
    <3>2. wild => wild'
      BY <2>2, Zenon DEF InitLoads
    <3> QED BY <1>1, <3>1, <3>2
  <2>3. CASE InitFails(t)
    BY <1>1, <2>3 DEF InitFails
  <2> QED BY <1>4, <2>1, <2>2, <2>3 DEF sunxi_secure_storage_init
<1>5. ASSUME NEW t \in Threads, sunxi_secure_object_write(t) PROVE Grows
  BY <1>1, <1>5 DEF sunxi_secure_object_write
<1>6. ASSUME NEW t \in Threads, KeyWritten(t) \/ KeyWriteDropped(t) \/ KeyWriteFails(t) PROVE Grows
  <2>1. faults' \in {faults, faults + 1} /\ wild' = wild
    <3>1. CASE KeyWritten(t)
      BY <3>1 DEF KeyWritten, WroteKey
    <3>2. CASE KeyWriteFails(t)
      BY <3>2 DEF KeyWriteFails
    <3>3. CASE KeyWriteDropped(t)
      BY <3>3 DEF KeyWriteDropped, WroteKey
    <3> QED BY <1>6, <3>1, <3>2, <3>3
  <2> QED BY <1>1, <2>1
<1>7. ASSUME NEW t \in Threads, sunxi_secure_object_read(t) PROVE Grows
  BY <1>1, <1>7 DEF sunxi_secure_object_read
<1>8. ASSUME NEW t \in Threads, sunxi_secure_object_erase(t) PROVE Grows
  BY <1>1, <1>8 DEF sunxi_secure_object_erase
<1>9. ASSUME NEW t \in Threads, sunxi_secure_object_list(t) PROVE Grows
  BY <1>1, <1>9 DEF sunxi_secure_object_list
<1>10. ASSUME NEW t \in Threads, sunxi_secure_storage_exit(t) PROVE Grows
  <2>1. faults' \in {faults, faults + 1} /\ wild' = wild
    BY <1>10 DEF sunxi_secure_storage_exit, ExitClean, ExitSaves, ExitDropped, ExitFails
  <2> QED BY <1>1, <2>1
<1>11. CASE Restart \/ \E t \in Threads : CutKeyWrite(t) \/ CutMapWrite(t)
  <2>1. faults' \in {faults, faults + 1} /\ wild' = wild
    BY <1>11 DEF Restart, CutKeyWrite, CutMapWrite, Reboot
  <2> QED BY <1>1, <2>1 DEF Sound
<1>12. ASSUME NEW t \in Threads, Call(t) \/ Step(t) PROVE Grows
  BY <1>3, <1>4, <1>5, <1>6, <1>7, <1>8, <1>9, <1>10, <1>12 DEF Step
<1>13. CASE \E t \in Threads : Call(t) \/ Step(t)
  <2>1. Grows
    BY <1>12, <1>13
  <2> QED BY <1>1, <2>1 DEF Sound
<1> QED BY <1>2, <1>11, <1>13 DEF Next

\* The types the proofs below use again and again.
LEMMA Types ==
  ASSUME TypeInv
  PROVE  /\ pc \in [Threads -> PCs] /\ stage \in [Threads -> {"support", "main"}]
         /\ op \in [Threads -> Kinds \cup {"none"}]
         /\ todo \in [Threads -> Seq([name : Names, val : Values \cup {BAD}])]
         /\ at \in [Threads -> Nat \ {0}] /\ idx \in [Threads -> Items \cup {0}]
         /\ bad \in [Threads -> BOOLEAN]
         /\ faults \in Nat /\ ram \in Seq(Names) /\ DOMAIN ram \subseteq Items
         /\ mapItem \in [raw : FitMaps, backup : FitMaps]
         /\ keyItem \in [Items -> [raw : Keys, backup : Keys]]
<1>1. DOMAIN ram \subseteq Items
  BY ConstantTypes DEF TypeInv, TypeOK, Bounded, Items
<1>2. faults \in Nat
  BY ConstantTypes DEF TypeInv, TypeOK
<1> QED BY <1>1, <1>2 DEF TypeInv, TypeOK, Bounded, Keys

\* Two threads are never inside together.
LEMMA AloneInside ==
  ASSUME MapInv, NEW s \in Threads, NEW t \in Threads, pc[s] \in Inside, pc[t] \in Inside
  PROVE  s = t
BY DEF MapInv, CallOf

\* A step of t that is not a write of its own leaves the other threads alone.
Others(t) ==
  \A s \in Threads \ {t} :
    /\ pc'[s] = pc[s] /\ stage'[s] = stage[s] /\ op'[s] = op[s] /\ todo'[s] = todo[s]
    /\ at'[s] = at[s] /\ idx'[s] = idx[s] /\ bad'[s] = bad[s]

\* A step that changes neither the maps nor the items.
Still == UNCHANGED <<mapItem, keyItem, inited, dirty, ram, lost>>

\* Such a step of a thread that is not writing a key keeps what is said of the maps.
LEMMA StillKeeps ==
  ASSUME TypeInv, MapInv, NEW t \in Threads, Still, Others(t), Sound' => Sound,
         faults' \in Nat, faults <= faults',
         pc[t] \notin {"wkey", "exit"}, Erased => Erased'
  PROVE  Sound' => CopiesAgree' /\ DeviceOwns' /\ (inited' => RamOwns' /\ RamAhead')
<1> SUFFICES ASSUME Sound' PROVE CopiesAgree' /\ DeviceOwns' /\ (inited' => RamOwns' /\ RamAhead')
  OBVIOUS
<1>1. Sound /\ CopiesAgree /\ DeviceOwns /\ (inited => RamOwns /\ RamAhead)
  BY DEF MapInv
<1>2. CopiesAgree'
  BY <1>1, Types DEF Still, CopiesAgree, Same
<1>3. Readable' = Readable /\ \A p : Item(p)' = Item(p)
  BY DEF Still, Readable, Item
<1>4. DeviceOwns'
  BY <1>1, <1>3 DEF DeviceOwns, Owns, Still
<1>5. ASSUME inited' PROVE RamOwns'
  <2> SUFFICES ASSUME NEW p \in DOMAIN ram PROVE Owns(ram, p)' \/ \E s \in Threads : Unwritten(s, p)'
    BY DEF RamOwns, Still
  <2>1. CASE Owns(ram, p)
    BY <2>1, <1>3 DEF Owns, Still
  <2>2. ASSUME NEW s \in Threads, Unwritten(s, p) PROVE Unwritten(s, p)'
    <3>1. s # t
      BY <2>2 DEF Unwritten
    <3> QED BY <3>1, <2>2 DEF Unwritten, Others, NeedsSave, ExitMode, Still
  <2> QED BY <2>1, <2>2, <1>1, <1>5 DEF RamOwns, Still
<1>6. ASSUME inited' PROVE RamAhead'
  <2>1. CASE Erased
    BY <2>1 DEF RamAhead
  <2>2. CASE \A m \in Readable : Continues(ram, m.names)
    BY <2>2, <1>3 DEF RamAhead, Still
  <2> QED BY <2>1, <2>2, <1>1, <1>6 DEF RamAhead, Still
<1> QED BY <1>2, <1>4, <1>5, <1>6

\* A thread starts a call.
LEMMA CallKeeps ==
  ASSUME Regime, TypeInv, TypeInv', Sound' => Sound, MapInv, NEW t \in Threads, Call(t)
  PROVE  MapInv'
<1>0. PICK k \in Kinds : \E args \in Arguments(k) :
        /\ op' = [op EXCEPT ![t] = k] /\ todo' = [todo EXCEPT ![t] = args]
        /\ stage' = [stage EXCEPT ![t] = IF k \in {"erase", "list"} THEN "main" ELSE "support"]
  BY DEF Call
<1>1. PICK args \in Arguments(k) :
        /\ op' = [op EXCEPT ![t] = k] /\ todo' = [todo EXCEPT ![t] = args]
        /\ stage' = [stage EXCEPT ![t] = IF k \in {"erase", "list"} THEN "main" ELSE "support"]
  BY <1>0
<1>2. /\ Still /\ mutex' = mutex /\ UNCHANGED <<at, idx, bad, faults, wild>>
      /\ pc[t] = "idle" /\ pc' = [pc EXCEPT ![t] = "init"]
  BY DEF Call, Still, disk, memory
<1>3. Others(t) /\ op'[t] = k /\ todo'[t] = args /\ pc'[t] = "init"
      /\ (k \in Writers => stage'[t] = "support")
  BY <1>1, <1>2, Types DEF Others, Writers
<1>4. \A s \in Threads : CallOf(s)'
  <2> SUFFICES ASSUME NEW s \in Threads PROVE CallOf(s)'
    OBVIOUS
  <2>0. CallOf(s)
    BY DEF MapInv
  <2>1. CASE s = t
    <3>1. k = "write" => Len(args) = 1
      BY DEF Arguments
    <3> QED BY <3>1, <2>1, <1>3 DEF CallOf, Inside
  <2>2. CASE s # t
    BY <2>0, <2>2, <1>2, <1>3 DEF CallOf, Others, Still
  <2> QED BY <2>1, <2>2
<1>5. DirtyInside'
  BY <1>2, <1>3 DEF MapInv, DirtyInside, Still, Others, Inside
<1>6. Erased => Erased'
  BY <1>2, <1>3 DEF Erased, Still, Others
<1>7. Sound' => CopiesAgree' /\ DeviceOwns' /\ (inited' => RamOwns' /\ RamAhead')
  <2>1. faults' \in Nat /\ faults <= faults' /\ pc[t] \notin {"wkey", "exit"}
    BY <1>2, Types
  <2> QED BY <2>1, <1>2, <1>3, <1>6, StillKeeps
<1> QED BY <1>2, <1>4, <1>5, <1>7 DEF MapInv, Still

\* sunxi_secure_storage_init finds a map that is already loaded.
LEMMA InitLoadedKeeps ==
  ASSUME Regime, TypeInv, TypeInv', Sound' => Sound, MapInv, NEW t \in Threads, InitLoaded(t)
  PROVE  MapInv'
<1> DEFINE loc == IF stage[t] = "support" THEN "exit" ELSE "body"
<1>2. /\ Still /\ UNCHANGED <<stage, op, todo, at, idx, bad, faults, wild>>
      /\ pc[t] = "init" /\ pc' = [pc EXCEPT ![t] = loc] /\ mutex = NoThread /\ mutex' = t /\ inited
  BY DEF InitLoaded, InitDone, CanLock, Still, disk
<1>3. Others(t) /\ pc'[t] = loc
  BY <1>2, Types DEF Others
<1>4. \A s \in Threads : pc[s] \notin Inside
  BY <1>2, ConstantTypes DEF MapInv, CallOf
<1>5. \A s \in Threads : CallOf(s)'
  <2> SUFFICES ASSUME NEW s \in Threads PROVE CallOf(s)'
    OBVIOUS
  <2>0. CallOf(s)
    BY DEF MapInv
  <2>1. CASE s = t
    <3>1. faults = 0 => ~dirty
      BY <1>4 DEF MapInv, DirtyInside
    <3>2. stage[t] \in {"support", "main"}
      BY Types
    <3> QED BY <3>1, <3>2, <2>0, <2>1, <1>2, <1>3 DEF CallOf, Inside, Still
  <2>2. CASE s # t
    BY <2>0, <2>2, <1>2, <1>3, <1>4 DEF CallOf, Others, Still, Inside
  <2> QED BY <2>1, <2>2
<1>6. DirtyInside'
  BY <1>2, <1>4 DEF MapInv, DirtyInside, Still
<1>7. Erased => Erased'
  BY <1>2, <1>3 DEF Erased, Still, Others
<1>8. Sound' => CopiesAgree' /\ DeviceOwns' /\ (inited' => RamOwns' /\ RamAhead')
  <2>1. faults' \in Nat /\ faults <= faults' /\ pc[t] \notin {"wkey", "exit"}
    BY <1>2, Types
  <2> QED BY <2>1, <1>2, <1>3, <1>7, StillKeeps
<1> QED BY <1>2, <1>5, <1>6, <1>8 DEF MapInv, Still

\* A step that only takes t out of init or of a body that has written nothing.
LEMMA QuietKeeps ==
  ASSUME TypeInv, TypeInv', Sound' => Sound, MapInv, NEW t \in Threads,
         Still, mutex' = mutex, UNCHANGED <<op, todo, wild>>, Others(t), faults <= faults',
         stage'[t] = stage[t],
         \/ pc[t] = "init" /\ pc'[t] = "idle"
         \/ pc[t] = "body" /\ op[t] \notin Writers \cup {"erase"} /\ pc'[t] \in {"idle", "exit"}
  PROVE  MapInv'
<1>1. \A s \in Threads : CallOf(s)'
  <2> SUFFICES ASSUME NEW s \in Threads PROVE CallOf(s)'
    OBVIOUS
  <2>0. CallOf(s)
    BY DEF MapInv
  <2>1. CASE s = t
    BY <2>0, <2>1 DEF CallOf, Inside, Still
  <2>2. CASE s # t
    <3>1. faults' = 0 => faults = 0
      BY Types
    <3> QED BY <2>0, <2>2, <3>1 DEF CallOf, Others, Still
  <2> QED BY <2>1, <2>2
<1>2. DirtyInside'
  <2>1. (dirty => inited)'
    BY DEF MapInv, DirtyInside, Still
  <2>2. ASSUME faults' = 0, dirty'
        PROVE  \E s \in Threads : /\ pc'[s] \in Inside /\ stage'[s] = "main"
                                  /\ op'[s] \in Writers \cup {"erase"}
    <3>1. faults = 0 /\ dirty
      BY <2>2, Types DEF Still
    <3>2. PICK s \in Threads : /\ pc[s] \in Inside /\ stage[s] = "main"
                               /\ op[s] \in Writers \cup {"erase"}
      BY <3>1 DEF MapInv, DirtyInside
    <3>3. s # t
      BY <3>2 DEF Inside
    <3> QED BY <3>2, <3>3 DEF Others
  <2> QED BY <2>1, <2>2 DEF DirtyInside
<1>3. Erased => Erased'
  BY DEF Erased, Still, Others
<1>4. faults' \in Nat /\ pc[t] \notin {"wkey", "exit"}
  BY ConstantTypes DEF TypeInv, TypeOK
<1>5. Sound' => CopiesAgree' /\ DeviceOwns' /\ (inited' => RamOwns' /\ RamAhead')
  BY <1>3, <1>4, StillKeeps
<1> QED BY <1>1, <1>2, <1>5 DEF MapInv, Still

\* What Return does to the threads.
LEMMA ReturnMoves ==
  ASSUME TypeInv, NEW t \in Threads, NEW r, Return(t, r), UNCHANGED <<op, todo>>
  PROVE  Others(t) /\ pc'[t] = "idle" /\ stage' = stage
BY Types DEF Return, Others

\* sunxi_secure_storage_init fails, a key is read, the keys are listed.
LEMMA NothingWrittenKeeps ==
  ASSUME TypeInv, TypeInv', Sound' => Sound, faults <= faults', MapInv, NEW t \in Threads,
         InitFails(t) \/ sunxi_secure_object_read(t) \/ sunxi_secure_object_list(t)
  PROVE  MapInv'
<1>1. CASE InitFails(t)
  <2>1. /\ pc[t] = "init" /\ Still /\ mutex' = mutex /\ UNCHANGED <<op, todo, wild>>
        /\ Return(t, InitFailure(t))
    BY <1>1 DEF InitFails, Still, disk, memory
  <2>2. Others(t) /\ pc'[t] = "idle" /\ stage'[t] = stage[t]
    BY <2>1, ReturnMoves
  <2> QED BY <2>1, <2>2, QuietKeeps
<1>2. CASE sunxi_secure_object_read(t)
  <2>1. /\ pc[t] = "body" /\ op[t] = "read" /\ Still /\ mutex' = mutex
        /\ UNCHANGED <<op, todo, stage, at, idx, wild>>
        /\ pc' = [pc EXCEPT ![t] = "exit"] /\ bad' = [bad EXCEPT ![t] = got'[t] = BAD]
    BY <1>2 DEF sunxi_secure_object_read, Still, disk, memory
  <2>2. Others(t) /\ pc'[t] = "exit" /\ stage'[t] = stage[t] /\ op[t] \notin Writers \cup {"erase"}
    BY <2>1, Types DEF Others, Writers
  <2> QED BY <2>1, <2>2, QuietKeeps
<1>3. CASE sunxi_secure_object_list(t)
  <2>1. /\ pc[t] = "body" /\ op[t] = "list" /\ Still /\ mutex' = mutex
        /\ UNCHANGED <<op, todo, wild>>
    BY <1>3 DEF sunxi_secure_object_list, Still, disk, memory
  <2>2. \/ pc' = [pc EXCEPT ![t] = "exit"] /\ UNCHANGED <<stage, at, idx, bad>>
        \/ Return(t, "fail")
    BY <1>3 DEF sunxi_secure_object_list
  <2>3. Others(t) /\ pc'[t] \in {"idle", "exit"} /\ stage'[t] = stage[t]
    BY <2>1, <2>2, ReturnMoves, Types DEF Others
  <2>4. op[t] \notin Writers \cup {"erase"}
    BY <2>1 DEF Writers
  <2> QED BY <2>1, <2>3, <2>4, QuietKeeps
<1> QED BY <1>1, <1>2, <1>3

\* One unreadable copy is at least one fault, and two are two.
LEMMA FaultCount ==
  ASSUME NEW u \in SUBSET Copies
  PROVE  /\ Cardinality(u) \in Nat
         /\ u # {} => Cardinality(u) # 0
         /\ u = Copies => Cardinality(u) = 2
<1>1. IsFiniteSet({"raw"}) /\ Cardinality({"raw"}) = 1
  BY FS_Singleton
<1>2. "backup" \notin {"raw"} /\ Copies = {"raw"} \cup {"backup"}
  BY DEF Copies
<1>3. IsFiniteSet(Copies) /\ Cardinality(Copies) = 2
  BY <1>1, <1>2, FS_AddElement
<1>4. IsFiniteSet(u)
  BY <1>3, FS_Subset
<1> QED BY <1>3, <1>4, FS_EmptySet, FS_CardinalityType

\* The reads count their faults.
LEMMA QuietFaults ==
  ASSUME TypeInv, NEW t \in Threads,
         InitFails(t) \/ sunxi_secure_object_read(t) \/ sunxi_secure_object_list(t)
  PROVE  faults <= faults'
<1>1. \E u \in SUBSET Copies : faults' = faults + Cardinality(u)
  BY Zenon DEF InitFails, sunxi_secure_object_read, sunxi_secure_object_list
<1>2. faults \in Nat /\ \A u \in SUBSET Copies : Cardinality(u) \in Nat
  BY Types, FaultCount
<1> QED BY <1>1, <1>2

\* sunxi_secure_storage_init loads the map: it is the one a restarted process reads.
LEMMA LoadedIsReadable ==
  ASSUME TypeInv, Sound, CopiesAgree, NEW u \in SUBSET Copies, NEW m \in nv_read_map(mapItem, u),
         faults + Cardinality(u) <= 1, ~m.wild
  PROVE  Device /\ m \in Readable /\ \A r \in Readable : r.names = m.names
<1>1. Device
  BY DEF nv_read_map, Device
<1>2. CASE u = {}
  BY <1>1, <1>2, MapUnique DEF Readable
<1>3. CASE u # {}
  <2>1. Cardinality(u) # 0 /\ Cardinality(u) \in Nat /\ faults \in Nat
    BY <1>3, FaultCount, Types
  <2>2. faults = 0
    BY <2>1
  <2>3. m = Loaded(mapItem.raw.names) /\ nv_read_map(mapItem, {}) = {Loaded(mapItem.raw.names)}
    BY <1>1, <2>2, MapReread, MapRead, Types DEF CopiesAgree
  <2> QED BY <1>1, <2>3 DEF Readable
<1> QED BY <1>2, <1>3

\* A map continues itself.
LEMMA ContinuesItself ==
  ASSUME NEW m \in Seq(Names)
  PROVE  Continues(m, m)
<1>1. Len(m) \in Nat
  OBVIOUS
<1> QED BY <1>1 DEF Continues

\* sunxi_secure_storage_init loads the map and both maps are the same.
LEMMA InitLoadsKeeps ==
  ASSUME TypeInv, TypeInv', Sound' => Sound, MapInv, NEW t \in Threads, InitLoads(t)
  PROVE  MapInv'
<1> DEFINE loc == IF stage[t] = "support" THEN "exit" ELSE "body"
<1>1. PICK u \in SUBSET Copies :
        /\ faults' = faults + Cardinality(u)
        /\ \E m \in nv_read_map(mapItem, u) : ram' = m.names /\ wild' = (wild \/ m.wild)
  BY DEF InitLoads
<1>2. PICK m \in nv_read_map(mapItem, u) : ram' = m.names /\ wild' = (wild \/ m.wild)
  BY <1>1
<1>3. /\ UNCHANGED <<mapItem, keyItem, dirty, stage, op, todo, at, idx, bad, lost>>
      /\ pc[t] = "init" /\ pc' = [pc EXCEPT ![t] = loc] /\ mutex = NoThread /\ mutex' = t
      /\ ~inited /\ inited' = TRUE
  BY DEF InitLoads, InitDone, CanLock, disk
<1>4. pc'[t] = loc /\ \A s \in Threads \ {t} : pc'[s] = pc[s]
  BY <1>3, Types
<1>5. (\A s \in Threads : pc[s] \notin Inside) /\ ~dirty
  BY <1>3 DEF MapInv, CallOf, DirtyInside
<1>6. \A s \in Threads : CallOf(s)'
  <2> SUFFICES ASSUME NEW s \in Threads PROVE CallOf(s)'
    OBVIOUS
  <2>0. CallOf(s)
    BY DEF MapInv
  <2>1. CASE s = t
    <3>1. stage[t] \in {"support", "main"}
      BY Types
    <3> QED BY <3>1, <2>0, <2>1, <1>3, <1>4, <1>5 DEF CallOf, Inside
  <2>2. CASE s # t
    BY <2>0, <2>2, <1>3, <1>4, <1>5 DEF CallOf, Inside
  <2> QED BY <2>1, <2>2
<1>7. DirtyInside' /\ (inited' => Device')
  BY <1>2, <1>3, <1>5 DEF DirtyInside, Device, nv_read_map
<1>8. ASSUME Sound'
      PROVE  CopiesAgree' /\ DeviceOwns' /\ RamOwns' /\ RamAhead'
  <2>1. Sound /\ CopiesAgree /\ DeviceOwns
    BY <1>8 DEF MapInv
  <2>2. faults' <= 1 /\ ~wild' /\ faults + Cardinality(u) <= 1
    BY <1>8, <1>1 DEF Sound
  <2>3. ~m.wild
    BY <2>2, <1>2, Zenon
  <2>4. m \in Readable /\ \A r \in Readable : r.names = m.names
    BY <2>1, <2>2, <2>3, LoadedIsReadable
  <2>5. Readable' = Readable /\ \A p : Item(p)' = Item(p)
    BY <1>3 DEF Readable, Item
  <2>6. CopiesAgree'
    <3>1. Cardinality(u) \in Nat /\ faults \in Nat
      BY FaultCount, Types
    <3>2. faults' = 0 => faults = 0
      BY <1>1, <3>1
    <3> QED BY <3>2, <2>1, <1>3 DEF CopiesAgree, Same
  <2>7. DeviceOwns'
    BY <2>1, <2>5, <1>3 DEF DeviceOwns, Owns
  <2>8. RamOwns'
    BY <2>1, <2>4, <2>5, <1>2, <1>3 DEF DeviceOwns, RamOwns, Owns
  <2>9. RamAhead'
    <3>1. ram' \in Seq(Names)
      BY DEF TypeInv, TypeOK
    <3>2. Continues(ram', ram')
      BY <3>1, ContinuesItself
    <3> QED BY <3>2, <2>4, <2>5, <1>2 DEF RamAhead
  <2> QED BY <2>6, <2>7, <2>8, <2>9
<1> QED BY <1>6, <1>7, <1>8 DEF MapInv

\* sunxi_secure_object_erase: nobody else is there.
LEMMA EraseKeeps ==
  ASSUME Regime, TypeInv, TypeInv', Sound' => Sound, MapInv, NEW t \in Threads,
         sunxi_secure_object_erase(t)
  PROVE  MapInv'
<1>1. /\ UNCHANGED <<mapItem, keyItem, mutex, inited, stage, op, todo, at, idx, bad, faults, wild,
                   lost>>
      /\ pc[t] = "body" /\ op[t] = "erase" /\ pc' = [pc EXCEPT ![t] = "exit"]
      /\ ram' = <<>> /\ dirty' = TRUE
  BY DEF sunxi_secure_object_erase, disk
<1>2. "erase" \in Kinds /\ \A s \in Threads : s = t
  BY <1>1, Types DEF Regime, EraserAlone
<1>3. pc'[t] = "exit" /\ CallOf(t)
  BY <1>1, Types DEF MapInv
<1>4. CallOf(t)'
  BY <1>1, <1>3 DEF CallOf, Inside
<1>5. DirtyInside' /\ (inited' => Device')
  BY <1>1, <1>3 DEF MapInv, DirtyInside, CallOf, Inside, Device
<1>6. ASSUME Sound'
      PROVE  CopiesAgree' /\ DeviceOwns' /\ RamOwns' /\ RamAhead'
  <2>1. Sound /\ CopiesAgree /\ DeviceOwns
    BY <1>6 DEF MapInv
  <2>2. CopiesAgree'
    BY <2>1, <1>1 DEF CopiesAgree, Same
  <2>3. DeviceOwns'
    BY <2>1, <1>1 DEF DeviceOwns, Owns, Readable, Item
  <2>4. RamOwns'
    BY <1>1 DEF RamOwns
  <2>5. Erased'
    BY <1>1, <1>2 DEF Erased, Writers
  <2> QED BY <2>2, <2>3, <2>4, <2>5 DEF RamAhead
<1> QED BY <1>2, <1>4, <1>5, <1>6 DEF MapInv

\* sunxi_secure_object_write up to the device write.
LEMMA ObjectWriteKeeps ==
  ASSUME Regime, TypeInv, TypeInv', Sound' => Sound, MapInv, NEW t \in Threads,
         sunxi_secure_object_write(t)
  PROVE  MapInv'
<1> DEFINE w == todo[t][at[t]]
           f == fill_name_in_map(ram, w.name)
<1>1. /\ UNCHANGED <<mapItem, keyItem, mutex, inited, dirty, stage, op, todo, at, faults, wild,
                   lost>>
      /\ pc[t] = "body" /\ op[t] \in Writers
  BY DEF sunxi_secure_object_write, disk
<1>2. w.name \in Names
  <2>1. todo[t] \in Seq([name : Names, val : Values]) /\ at[t] \in DOMAIN todo[t]
    BY <1>1 DEF TypeInv, Args, ArgsOf
  <2>2. w \in [name : Names, val : Values]
    BY <2>1, ElementType
  <2> QED BY <2>2
<1>3. CallOf(t) /\ stage[t] = "main" /\ inited
  BY <1>1 DEF MapInv, CallOf, Inside
<1>4. \A s \in Threads \ {t} : pc[s] \notin Inside
  BY <1>1, AloneInside DEF Inside
<1>5. ~Erased
  BY <1>1, <1>3 DEF Erased
<1>6. \/ /\ bad' = [bad EXCEPT ![t] = TRUE] /\ pc' = [pc EXCEPT ![t] = "exit"]
         /\ UNCHANGED <<ram, idx>>
      \/ /\ f.index # 0 /\ ram' = f.map /\ idx' = [idx EXCEPT ![t] = f.index]
         /\ pc' = [pc EXCEPT ![t] = "wkey"] /\ UNCHANGED bad
  BY DEF sunxi_secure_object_write
<1> HIDE DEF f, w
<1>7. (f.index # 0 => (\/ f.map = ram /\ FirstEntry(ram, w.name, f.index)
                       \/ f.map = Append(ram, w.name) /\ f.index = Len(ram) + 1
                          /\ FirstEntry(ram, w.name, 0)))
  BY <1>2, FillFinds, Types DEF Regime, f
<1>8. \A s \in Threads \ {t} : pc'[s] = pc[s] /\ CallOf(s)'
  <2>1. \A s \in Threads \ {t} : pc'[s] = pc[s]
    BY <1>6, Types
  <2> QED BY <2>1, <1>1, <1>4 DEF MapInv, CallOf, Inside
<1>9. Readable' = Readable /\ \A p : Item(p)' = Item(p)
  BY <1>1 DEF Readable, Item
<1>10. Sound' => CopiesAgree' /\ DeviceOwns'
  BY <1>1, <1>9 DEF MapInv, CopiesAgree, Same, DeviceOwns, Owns
<1>11. ASSUME Sound'
       PROVE  /\ \A p \in DOMAIN ram : Owns(ram, p)
              /\ \A m \in Readable : Continues(ram, m.names)
  <2>1. RamOwns /\ RamAhead
    BY <1>3, <1>11 DEF MapInv
  <2>2. \A s \in Threads, p \in DOMAIN ram : ~Unwritten(s, p)
    BY <1>1, <1>4 DEF Unwritten, Inside
  <2> QED BY <2>1, <2>2, <1>5 DEF RamOwns, RamAhead
<1>12. CASE /\ bad' = [bad EXCEPT ![t] = TRUE] /\ pc' = [pc EXCEPT ![t] = "exit"]
            /\ UNCHANGED <<ram, idx>>
  <2>1. pc'[t] = "exit"
    BY <1>12, Types
  <2>2. CallOf(t)'
    BY <2>1, <1>1, <1>3, <1>12 DEF CallOf, Inside
  <2>3. DirtyInside' /\ (inited' => Device')
    BY <2>1, <1>1, <1>3 DEF MapInv, DirtyInside, Inside, Device
  <2>4. Sound' => RamOwns' /\ RamAhead'
    BY <1>1, <1>9, <1>11, <1>12 DEF RamOwns, RamAhead, Owns
  <2> QED BY <2>2, <2>3, <2>4, <1>8, <1>10 DEF MapInv
<1>13. CASE /\ f.index # 0 /\ ram' = f.map /\ idx' = [idx EXCEPT ![t] = f.index]
            /\ pc' = [pc EXCEPT ![t] = "wkey"] /\ UNCHANGED bad
  <2>1. pc'[t] = "wkey" /\ idx'[t] = f.index
    BY <1>13, Types
  <2>2. ram \in Seq(Names) /\ ram' \in Seq(Names)
    BY <1>13, Types DEF TypeInv, TypeOK
  <2>3. /\ FirstEntry(ram', w.name, f.index) /\ Continues(ram', ram)
        /\ \A p \in DOMAIN ram' : p \in DOMAIN ram \/ p = f.index
    <3>1. CASE f.map = ram /\ FirstEntry(ram, w.name, f.index)
      BY <3>1, <2>2, <1>13, ContinuesItself
    <3>2. CASE /\ f.map = Append(ram, w.name) /\ f.index = Len(ram) + 1
               /\ FirstEntry(ram, w.name, 0)
      <4>1. \A p \in DOMAIN Append(ram, w.name) : p \in DOMAIN ram \/ p = Len(ram) + 1
        BY <2>2, <1>2
      <4> QED BY <4>1, <3>2, <2>2, <1>2, <1>13, AppendFinds
    <3> QED BY <3>1, <3>2, <1>7, <1>13
  <2>4. f.index = probe_name_in_map(ram', w.name)
    BY <2>2, <2>3, ProbeFinds, FirstEntryUnique DEF Regime
  <2>5. CallOf(t)'
    <3>1. todo'[t][at'[t]] = w
      BY <1>1 DEF w
    <3> QED BY <2>1, <2>4, <3>1, <1>1, <1>3, <1>13 DEF CallOf, Inside
  <2>6. DirtyInside' /\ (inited' => Device')
    BY <2>1, <1>1, <1>3 DEF MapInv, DirtyInside, Inside, Device
  <2>7. ASSUME Sound' PROVE RamOwns' /\ RamAhead'
    <3>1. RamOwns'
      <4> SUFFICES ASSUME NEW p \in DOMAIN ram'
                   PROVE  Owns(ram, p)' \/ Unwritten(t, p)'
        BY DEF RamOwns
      <4>1. CASE p \in DOMAIN ram
        <5>1. ram'[p] = ram[p] /\ Owns(ram, p)
          BY <4>1, <2>3, <2>7, <1>11 DEF Continues
        <5> QED BY <5>1, <1>1, <1>9 DEF Owns
      <4>2. CASE p = f.index
        BY <4>2, <2>1 DEF Unwritten
      <4> QED BY <4>1, <4>2, <2>3
    <3>2. \A m \in Readable : Continues(ram', m.names)
      <4> SUFFICES ASSUME NEW m \in Readable PROVE Continues(ram', m.names)
        OBVIOUS
      <4>1. m.names \in Seq(Names) /\ Continues(ram, m.names)
        BY <2>7, <1>11, ReadMapType, Types DEF Readable
      <4>2. Len(m.names) \in Nat /\ Len(ram) \in Nat /\ Len(ram') \in Nat
            /\ DOMAIN m.names = 1 .. Len(m.names) /\ DOMAIN ram = 1 .. Len(ram)
        BY <4>1, <2>2
      <4> QED BY <4>1, <4>2, <2>3 DEF Continues
    <3> QED BY <3>1, <3>2, <1>9 DEF RamAhead
  <2> QED BY <2>5, <2>6, <2>7, <1>8, <1>10 DEF MapInv
<1> QED BY <1>6, <1>12, <1>13

\* The thread that writes a key writes the item the map in memory gives that key.
LEMMA WritesOwnItem ==
  ASSUME Regime, TypeInv, MapInv, NEW t \in Threads, pc[t] = "wkey"
  PROVE  /\ Wrapped(t) \in Objects /\ Wrapped(t).name = todo[t][at[t]].name
         /\ idx[t] \in DOMAIN ram /\ ram[idx[t]] = Wrapped(t).name
         /\ FirstEntry(ram, Wrapped(t).name, idx[t])
         /\ stage[t] = "main" /\ op[t] \in Writers /\ mutex = t /\ inited /\ Device /\ ~Erased
         /\ \A s \in Threads \ {t} : pc[s] \notin Inside
<1>1. CallOf(t) /\ ArgsOf(t)
  BY DEF MapInv, TypeInv, Args
<1>2. op[t] \in Writers /\ stage[t] = "main" /\ mutex = t /\ inited /\ Device /\ ~Erased
  BY <1>1 DEF CallOf, ArgsOf, MapInv, Erased, Inside
<1>3. Wrapped(t) \in Objects /\ Wrapped(t).name = todo[t][at[t]].name
  <2>1. todo[t] \in Seq([name : Names, val : Values]) /\ at[t] \in DOMAIN todo[t]
    BY <1>1, <1>2 DEF ArgsOf
  <2>2. todo[t][at[t]] \in [name : Names, val : Values]
    BY <2>1, ElementType
  <2> QED BY <2>2 DEF Wrapped, Object, Objects
<1>4. FirstEntry(ram, Wrapped(t).name, idx[t]) /\ idx[t] # 0
  BY <1>1, <1>3, ProbeFinds, Types DEF CallOf, Regime
<1>5. idx[t] \in DOMAIN ram /\ ram[idx[t]] = Wrapped(t).name
  BY <1>4 DEF FirstEntry
<1>6. \A s \in Threads \ {t} : pc[s] \notin Inside
  BY AloneInside DEF Inside
<1> QED BY <1>2, <1>3, <1>4, <1>5, <1>6

\* A write of the key, whether it succeeds, fails or is cut off, takes its item from
\* no entry of a map.
LEMMA WriteTakesNoItem ==
  ASSUME Regime, TypeInv, MapInv, Sound, NEW t \in Threads, pc[t] = "wkey",
         NEW x, keyItem' = [keyItem EXCEPT ![idx[t]] = x], mapItem' = mapItem,
         lost \subseteq lost',
         nv_read_key(x, {}) \in {Item(idx[t]), Wrapped(t)}
  PROVE  /\ DeviceOwns'
         /\ \A p \in DOMAIN ram \ {idx[t]} : Item(p)' = Item(p) /\ Owns(ram, p)
         /\ \A p \in Items : Item(p)' = IF p = idx[t] THEN nv_read_key(x, {}) ELSE Item(p)
         /\ \A m \in Readable : Continues(ram, m.names)
<1>1. idx[t] \in Items
  BY WritesOwnItem, Types
<1>2. \A p \in Items : Item(p)' = IF p = idx[t] THEN nv_read_key(x, {}) ELSE Item(p)
  BY <1>1, Types DEF Item
<1>3. \A m \in Readable : Continues(ram, m.names)
  BY WritesOwnItem DEF MapInv, RamAhead
<1>4. Readable' = Readable
  BY DEF Readable
<1>5. DeviceOwns'
  <2> SUFFICES ASSUME NEW m \in Readable, NEW p \in DOMAIN m.names
               PROVE  \/ Item(p)' # BAD /\ Item(p)'.name = m.names[p]
                      \/ m.names[p] \in lost' /\ (Flash = "SD" => Item(p)' # BAD)
    BY <1>4 DEF DeviceOwns, Owns
  <2>1. Owns(m.names, p)
    BY DEF MapInv, DeviceOwns
  <2>2. p \in DOMAIN ram /\ ram[p] = m.names[p]
    <3>1. m.names \in Seq(Names) /\ ram \in Seq(Names)
      BY ReadMapType, Types DEF Readable
    <3> QED BY <3>1, <1>3 DEF Continues
  <2>3. p \in Items
    BY <2>2, Types
  <2>4. CASE p = idx[t]
    <3>1. Wrapped(t) # BAD /\ Wrapped(t).name = m.names[p]
      BY <2>2, <2>4, WritesOwnItem, BadAssumption
    <3> QED BY <3>1, <2>1, <2>3, <2>4, <1>2 DEF Owns
  <2>5. CASE p # idx[t]
    BY <2>1, <2>3, <2>5, <1>2 DEF Owns
  <2> QED BY <2>4, <2>5
<1>6. ASSUME NEW p \in DOMAIN ram \ {idx[t]} PROVE Item(p)' = Item(p) /\ Owns(ram, p)
  <2>1. \A s \in Threads : ~Unwritten(s, p)
    BY WritesOwnItem DEF Unwritten, Inside
  <2>2. Owns(ram, p)
    BY <2>1, WritesOwnItem DEF MapInv, RamOwns
  <2>3. p \in Items /\ p # idx[t]
    BY Types
  <2> QED BY <2>2, <2>3, <1>2
<1> QED BY <1>1, <1>2, <1>3, <1>5, <1>6

\* The item the thread has written holds the new object, or the old one and the key is
\* among the ones lost.
Taken(t, x, gone) ==
  \/ nv_read_key(x, {}) = Wrapped(t)
  \/ /\ nv_read_key(x, {}) = Item(idx[t]) /\ Wrapped(t).name \in gone
     /\ Flash = "SD" => nv_read_key(x, {}) # BAD

\* The write of the key has reported success.
LEMMA WroteKeyKeeps ==
  ASSUME Regime, TypeInv, TypeInv', Sound' => Sound, MapInv, NEW t \in Threads, WroteKey(t),
         faults <= faults', lost \subseteq lost',
         NEW x, keyItem' = [keyItem EXCEPT ![idx[t]] = x],
         Sound' => CopiesAgree' /\ Taken(t, x, lost')
  PROVE  MapInv'
<1>1. /\ UNCHANGED <<mapItem, mutex, inited, ram, stage, op, todo, idx, bad, wild>>
      /\ pc[t] = "wkey" /\ dirty' = TRUE
  BY DEF WroteKey, MarkDirty
<1>2. /\ \/ at[t] < Len(todo[t]) /\ pc' = [pc EXCEPT ![t] = "body"]
         \/ pc' = [pc EXCEPT ![t] = "exit"]
      /\ \/ at' = [at EXCEPT ![t] = @ + 1]
         \/ at' = at
  BY DEF WroteKey
<1>3. idx[t] \in Items /\ keyItem[idx[t]] \in [raw : Keys, backup : Keys]
  BY <1>1, WritesOwnItem, Types
<1>4. faults' = 0 => faults = 0
  BY Types DEF TypeInv, TypeOK
<1>5. \A s \in Threads : CallOf(s)'
  <2> SUFFICES ASSUME NEW s \in Threads PROVE CallOf(s)'
    OBVIOUS
  <2>0. CallOf(s)
    BY DEF MapInv
  <2>1. CASE s = t
    <3>1. pc'[t] \in {"body", "exit"} /\ (pc'[t] = "body" => at[t] < Len(todo[t]))
      BY <1>2, Types
    <3>2. pc'[t] = "body" => op[t] # "write"
      <4> SUFFICES ASSUME pc'[t] = "body", op[t] = "write" PROVE FALSE
        OBVIOUS
      <4>1. at[t] \in Nat \ {0}
        BY Types
      <4>2. Len(todo[t]) = 1
        BY <2>0, <2>1 DEF CallOf
      <4>3. at[t] < 1
        BY <3>1, <4>2
      <4> QED BY <4>1, <4>3
    <3>3. stage[t] = "main" /\ mutex = t /\ inited
      BY <1>1, WritesOwnItem
    <3> QED BY <2>0, <2>1, <3>1, <3>2, <3>3, <1>1, <1>4 DEF CallOf
  <2>2. CASE s # t
    <3>1. pc[s] \notin Inside /\ pc'[s] = pc[s]
      BY <2>2, <1>1, <1>2, WritesOwnItem, Types
    <3> QED BY <2>0, <2>2, <3>1, <1>1, <1>4 DEF CallOf, Inside
  <2> QED BY <2>1, <2>2
<1>6. DirtyInside' /\ (inited' => Device')
  <2>1. pc'[t] \in Inside /\ stage'[t] = "main" /\ op'[t] \in Writers /\ inited /\ Device
    BY <1>1, <1>2, WritesOwnItem, Types DEF Inside
  <2> QED BY <2>1, <1>1 DEF DirtyInside, Device
<1>7. ASSUME Sound' PROVE CopiesAgree' /\ DeviceOwns' /\ RamOwns' /\ RamAhead'
  <2>1. CopiesAgree' /\ nv_read_key(x, {}) \in {Item(idx[t]), Wrapped(t)} /\ Taken(t, x, lost')
    BY <1>7 DEF Taken
  <2>2. /\ DeviceOwns'
        /\ \A p \in DOMAIN ram \ {idx[t]} : Item(p)' = Item(p) /\ Owns(ram, p)
        /\ \A p \in Items : p = idx[t] => Item(p)' = nv_read_key(x, {})
        /\ \A m \in Readable : Continues(ram, m.names)
    BY <2>1, <1>1, <1>7, WriteTakesNoItem
  <2>3. RamOwns'
    <3> SUFFICES ASSUME NEW p \in DOMAIN ram PROVE Owns(ram, p)'
      BY <1>1 DEF RamOwns
    <3>1. CASE p = idx[t]
      BY <3>1, <2>1, <2>2, <1>1, <1>3, WritesOwnItem, BadAssumption DEF Owns, Taken
    <3>2. CASE p # idx[t]
      BY <3>2, <2>2, <1>1 DEF Owns
    <3> QED BY <3>1, <3>2
  <2>4. RamAhead'
    BY <2>2, <1>1 DEF RamAhead, Readable
  <2> QED BY <2>1, <2>2, <2>3, <2>4
<1> QED BY <1>5, <1>6, <1>7 DEF MapInv

\* The key is on the device.
LEMMA KeyWrittenKeeps ==
  ASSUME Regime, TypeInv, TypeInv', Sound' => Sound, MapInv, NEW t \in Threads, KeyWritten(t)
  PROVE  MapInv'
<1>1. PICK x : x = nv_write(keyItem[idx[t]], Wrapped(t))
  OBVIOUS
<1>2. /\ WroteKey(t) /\ pc[t] = "wkey" /\ mapItem' = mapItem
      /\ keyItem' = [keyItem EXCEPT ![idx[t]] = x] /\ faults' = faults /\ lost' = lost
  BY <1>1 DEF KeyWritten, WroteKey
<1>3. idx[t] \in Items /\ keyItem[idx[t]] \in [raw : Keys, backup : Keys] /\ faults \in Nat
  BY <1>2, WritesOwnItem, Types
<1>4. nv_read_key(x, {}) = Wrapped(t) /\ Same(x)
  BY <1>1, <1>2, <1>3, WritesOwnItem, KeyReadBack DEF Same, nv_write, sd_write, Both
<1>5. ASSUME Sound' PROVE CopiesAgree'
  <2>1. CopiesAgree
    BY <1>5 DEF MapInv
  <2>2. ASSUME faults' = 0, NEW i \in Items PROVE Same(keyItem'[i])
    <3>1. Same(keyItem[i])
      BY <2>1, <2>2, <1>2 DEF CopiesAgree
    <3>2. keyItem'[i] = IF i = idx[t] THEN x ELSE keyItem[i]
      BY <1>2, Types
    <3> QED BY <3>1, <3>2, <1>4
  <2> QED BY <2>1, <2>2, <1>2 DEF CopiesAgree, Same
<1>6. faults <= faults' /\ lost \subseteq lost' /\ Taken(t, x, lost')
  BY <1>2, <1>3, <1>4 DEF Taken
<1> QED BY <1>2, <1>5, <1>6, WroteKeyKeeps

\* An error is dropped before another: the key is on the device, or lost.
LEMMA DroppedTaken ==
  ASSUME Regime, TypeInv, Sound' => Sound, MapInv, NEW t \in Threads, KeyWriteDropped(t), Sound',
         NEW x \in DroppedWrite(keyItem[idx[t]], Wrapped(t), TornKey, TornKey),
         lost' = IF nv_read_key(x, {}) = Wrapped(t) THEN lost
                 ELSE lost \cup {todo[t][at[t]].name}
  PROVE  Taken(t, x, lost')
<1>1. pc[t] = "wkey" /\ faults' = faults + 1
  BY DEF KeyWriteDropped, WroteKey
<1>2. faults = 0 /\ CopiesAgree
  BY <1>1, Types DEF Sound, MapInv
<1>3. idx[t] \in Items /\ keyItem[idx[t]] \in [raw : Keys, backup : Keys] /\ Same(keyItem[idx[t]])
  BY <1>1, <1>2, WritesOwnItem, Types DEF CopiesAgree
<1>4. Device /\ Wrapped(t) \in Objects /\ Wrapped(t).name = todo[t][at[t]].name
  BY <1>1, WritesOwnItem
<1>5. x \in CutWrite(keyItem[idx[t]], Wrapped(t), TornKey, TornKey)
  BY DroppedIsCut
<1>6. nv_read_key(x, {}) \in {Item(idx[t]), Wrapped(t)}
  BY <1>3, <1>4, <1>5, KeyOldOrNew DEF Item
<1>7. Flash = "SD" => nv_read_key(x, {}) # BAD
  BY <1>3, <1>4, DroppedReads
<1> QED BY <1>4, <1>6, <1>7 DEF Taken

\* The write of the key reports success, and an error has been dropped.
LEMMA KeyWriteDroppedKeeps ==
  ASSUME Regime, TypeInv, TypeInv', Sound' => Sound, MapInv, NEW t \in Threads, KeyWriteDropped(t)
  PROVE  MapInv'
<1>1. PICK x \in DroppedWrite(keyItem[idx[t]], Wrapped(t), TornKey, TornKey) :
        /\ keyItem' = [keyItem EXCEPT ![idx[t]] = x]
        /\ lost' = IF nv_read_key(x, {}) = Wrapped(t) THEN lost
                   ELSE lost \cup {todo[t][at[t]].name}
  BY DEF KeyWriteDropped
<1>2. WroteKey(t) /\ faults' = faults + 1 /\ faults \in Nat
  BY Types DEF KeyWriteDropped
<1>3. faults <= faults' /\ lost \subseteq lost' /\ faults' # 0
  BY <1>1, <1>2
<1>4. Sound' => Taken(t, x, lost')
  BY <1>1, DroppedTaken
<1>5. CopiesAgree'
  BY <1>3 DEF CopiesAgree
<1> QED BY <1>1, <1>2, <1>3, <1>4, <1>5, WroteKeyKeeps

\* The write of the key fails: it was the only fault, and the map is not dirty.
LEMMA KeyWriteFailsKeeps ==
  ASSUME Regime, TypeInv, TypeInv', Sound' => Sound, MapInv, NEW t \in Threads, KeyWriteFails(t)
  PROVE  MapInv'
<1>0. PICK x \in FailedWrite(keyItem[idx[t]], Wrapped(t), TornKey, TornKey) :
        keyItem' = [keyItem EXCEPT ![idx[t]] = x]
  BY DEF KeyWriteFails
<1>1. /\ UNCHANGED <<mapItem, mutex, inited, ram, stage, op, todo, at, idx, wild, lost>>
      /\ pc[t] = "wkey" /\ faults < MaxFaults /\ faults' = faults + 1
      /\ dirty' = (dirty \/ FALSE)
      /\ bad' = [bad EXCEPT ![t] = TRUE] /\ pc' = [pc EXCEPT ![t] = "exit"]
  BY DEF KeyWriteFails, MarkDirty
<1>2. pc'[t] = "exit" /\ bad'[t] = TRUE /\ \A s \in Threads \ {t} : pc'[s] = pc[s]
  BY <1>1, Types
<1>3. dirty' = dirty
  BY <1>1 DEF TypeInv, TypeOK
<1>4. \A s \in Threads : CallOf(s)'
  <2> SUFFICES ASSUME NEW s \in Threads PROVE CallOf(s)'
    OBVIOUS
  <2>0. CallOf(s)
    BY DEF MapInv
  <2>1. CASE s = t
    BY <2>0, <2>1, <1>1, <1>2, WritesOwnItem DEF CallOf
  <2>2. CASE s # t
    BY <2>0, <2>2, <1>1, <1>2, WritesOwnItem DEF CallOf, Inside
  <2> QED BY <2>1, <2>2
<1>5. DirtyInside' /\ (inited' => Device')
  BY <1>1, <1>3, Types DEF MapInv, DirtyInside, Device
<1>6. ASSUME Sound' PROVE CopiesAgree' /\ DeviceOwns' /\ RamOwns' /\ RamAhead'
  <2>0. faults = 0 /\ Sound /\ CopiesAgree
    BY <1>1, <1>6, Types DEF MapInv, Sound
  <2>1. ~dirty
    <3>1. "batch" \notin Kinds
      BY <2>0, <1>1 DEF Regime, BatchUndisturbed
    <3>2. op[t] = "write"
      BY <3>1, <1>1, WritesOwnItem, Types DEF Writers
    <3> QED BY <3>2, <2>0, <1>1 DEF MapInv, CallOf
  <2>2. idx[t] \in Items /\ keyItem[idx[t]] \in [raw : Keys, backup : Keys] /\ Same(keyItem[idx[t]])
    BY <2>0, <1>1, WritesOwnItem, Types DEF CopiesAgree
  <2>3. nv_read_key(x, {}) \in {Item(idx[t]), Wrapped(t)}
    BY <2>2, <1>0, <1>1, WritesOwnItem, KeyOldOrNew DEF Item
  <2>4. /\ DeviceOwns'
        /\ \A p \in DOMAIN ram \ {idx[t]} : Item(p)' = Item(p) /\ Owns(ram, p)
        /\ \A m \in Readable : Continues(ram, m.names)
    BY <2>0, <2>3, <1>0, <1>1, WriteTakesNoItem
  <2>5. RamOwns'
    <3> SUFFICES ASSUME NEW p \in DOMAIN ram PROVE Owns(ram, p)' \/ Unwritten(t, p)'
      BY <1>1 DEF RamOwns
    <3>1. CASE p = idx[t]
      BY <3>1, <2>1, <1>1, <1>2, <1>3 DEF Unwritten, NeedsSave, ExitMode
    <3>2. CASE p # idx[t]
      BY <3>2, <2>4, <1>1 DEF Owns
    <3> QED BY <3>1, <3>2
  <2>6. CopiesAgree' /\ RamAhead'
    BY <2>0, <2>4, <1>1 DEF CopiesAgree, RamAhead, Readable
  <2> QED BY <2>4, <2>5, <2>6
<1> QED BY <1>4, <1>5, <1>6 DEF MapInv

\* What sunxi_secure_storage_exit does to the threads.
LEMMA LeaveMoves ==
  ASSUME TypeInv, NEW t \in Threads, NEW saved \in BOOLEAN, Leave(t, saved), UNCHANGED <<op, todo>>
  PROVE  /\ Others(t) /\ mutex' = NoThread
         /\ inited' = (inited /\ ~saved) /\ dirty' = (dirty /\ ~saved)
         /\ stage'[t] = "main" /\ pc'[t] = IF stage[t] = "support" THEN "init" ELSE "idle"
<1>1. mutex' = NoThread /\ inited' = (inited /\ ~saved) /\ dirty' = (dirty /\ ~saved)
  BY DEF Leave, Unload, Unlock
<1>2. CASE stage[t] = "support"
  BY <1>1, <1>2, Types DEF Leave, AfterExit, Others
<1>3. CASE stage[t] # "support"
  <2>1. \E r \in {"ok", "fail"} : Return(t, r)
    BY <1>3 DEF Leave, AfterExit
  <2>2. Others(t) /\ pc'[t] = "idle" /\ stage' = stage
    BY <2>1, ReturnMoves
  <2>3. stage[t] = "main"
    BY <1>3, Types
  <2> QED BY <1>1, <1>3, <2>2, <2>3
<1> QED BY <1>2, <1>3

\* Nobody is inside any more.
LEMMA LeaveCalls ==
  ASSUME TypeInv, MapInv, NEW t \in Threads, pc[t] = "exit", Others(t), pc'[t] \in {"init", "idle"},
         UNCHANGED <<op, todo>>
  PROVE  \A s \in Threads : CallOf(s)'
<1> SUFFICES ASSUME NEW s \in Threads PROVE CallOf(s)'
  OBVIOUS
<1>1. CallOf(s)
  BY DEF MapInv
<1>2. pc'[s] \notin Inside
  <2>1. CASE s = t
    BY <2>1 DEF Inside
  <2>2. CASE s # t
    BY <2>2, AloneInside DEF Inside, Others
  <2> QED BY <2>1, <2>2
<1> QED BY <1>1, <1>2 DEF CallOf, Inside

\* A thread that is about to save the map has written every key in it.
LEMMA SavesOwned ==
  ASSUME TypeInv, MapInv, Sound, NEW t \in Threads, pc[t] = "exit", NeedsSave(t)
  PROVE  inited /\ Device /\ \A p \in DOMAIN ram : Owns(ram, p)
<1>1. inited /\ Device /\ RamOwns
  BY DEF MapInv, CallOf, Inside
<1>2. \A s \in Threads, p \in DOMAIN ram : ~Unwritten(s, p)
  <2> SUFFICES ASSUME NEW s \in Threads, NEW p \in DOMAIN ram PROVE ~Unwritten(s, p)
    OBVIOUS
  <2>1. CASE s = t
    BY <2>1 DEF Unwritten
  <2>2. CASE s # t
    <3>1. pc[s] \notin Inside
      BY <2>2, AloneInside DEF Inside
    <3> QED BY <3>1 DEF Unwritten, Inside
  <2> QED BY <2>1, <2>2
<1> QED BY <1>1, <1>2 DEF RamOwns

\* There is nothing to save, or the map is saved.
LEMMA ExitKeeps ==
  ASSUME TypeInv, TypeInv', Sound' => Sound, MapInv, NEW t \in Threads, ExitClean(t) \/ ExitSaves(t)
  PROVE  MapInv'
<1>1. /\ UNCHANGED <<keyItem, ram, op, todo, faults, wild, lost>>
      /\ pc[t] = "exit" /\ Leave(t, TRUE)
  BY DEF ExitClean, ExitSaves, disk
<1>2. Others(t) /\ pc'[t] \in {"init", "idle"} /\ ~inited' /\ ~dirty'
  BY <1>1, LeaveMoves
<1>3. \A s \in Threads : CallOf(s)'
  BY <1>1, <1>2, LeaveCalls
<1>4. DirtyInside'
  BY <1>2 DEF DirtyInside
<1>5. ASSUME Sound' PROVE CopiesAgree' /\ DeviceOwns'
  <2>1. Sound /\ CopiesAgree /\ DeviceOwns
    BY <1>5 DEF MapInv
  <2>2. CASE ExitClean(t)
    <3>1. mapItem' = mapItem
      BY <2>2 DEF ExitClean, disk
    <3> QED BY <3>1, <2>1, <1>1 DEF CopiesAgree, DeviceOwns, Owns, Readable, Item
  <2>3. CASE ExitSaves(t)
    <3>1. mapItem' = nv_write(mapItem, GoodMap(ram)) /\ NeedsSave(t)
      BY <2>3 DEF ExitSaves
    <3>2. Device /\ \A p \in DOMAIN ram : Owns(ram, p)
      BY <3>1, <2>1, <1>1, SavesOwned
    <3>3. nv_read_map(mapItem', {}) = {Loaded(ram)}
      BY <3>1, <3>2, MapReadBack
    <3>4. \A m \in Readable' : m.names = ram
      BY <3>3 DEF Readable, Loaded
    <3>5. DeviceOwns'
      BY <3>2, <3>4, <1>1 DEF DeviceOwns, Owns, Item
    <3>6. (Same(mapItem) /\ mapItem.raw.st # "badcrc")'
      BY <3>1, Types DEF Same, nv_write, sd_write, nand_write, Both, GoodMap
    <3> QED BY <3>5, <3>6, <2>1, <1>1 DEF CopiesAgree
  <2> QED BY <2>2, <2>3, <1>1
<1> QED BY <1>2, <1>3, <1>4, <1>5 DEF MapInv

\* A save that fails or is cut off leaves the old or the new map, and its items.
LEMMA SaveOldOrNew ==
  ASSUME TypeInv, MapInv, Sound, faults = 0, NEW t \in Threads, pc[t] = "exit", NeedsSave(t),
         keyItem' = keyItem, lost \subseteq lost',
         mapItem' \in
           FailedWrite(mapItem, GoodMap(ram), TornMap(mapItem.raw, GoodMap(ram)),
                       TornMap(mapItem.backup, GoodMap(ram)))
           \cup
           CutWrite(mapItem, GoodMap(ram), TornMap(mapItem.raw, GoodMap(ram)),
                    TornMap(mapItem.backup, GoodMap(ram)))
  PROVE  DeviceOwns' /\ \A m \in Readable' : m \in Readable \/ m = Loaded(ram)
<1>1. /\ Device /\ Same(mapItem) /\ mapItem.raw.st # "badcrc" /\ DeviceOwns
      /\ \A p \in DOMAIN ram : Owns(ram, p)
  BY SavesOwned DEF MapInv, CopiesAgree
<1>2. nv_read_map(mapItem, {}) = {Loaded(mapItem.raw.names)}
  BY <1>1, MapRead, Types
<1>3. \A m \in Readable' : m \in Readable \/ m = Loaded(ram)
  <2> SUFFICES ASSUME NEW m \in Readable' PROVE m \in Readable \/ m = Loaded(ram)
    OBVIOUS
  <2>1. m \in nv_read_map(mapItem', {})
    BY DEF Readable
  <2>2. m = Loaded(mapItem.raw.names) \/ m = Loaded(ram)
    <3> DEFINE t0 == TornMap(mapItem.raw, GoodMap(ram))
               t1 == TornMap(mapItem.backup, GoodMap(ram))
               x  == mapItem'
    <3>1. x \in FailedWrite(mapItem, GoodMap(ram), t0, t1) \cup CutWrite(mapItem, GoodMap(ram), t0, t1)
      OBVIOUS
    <3>2. m \in nv_read_map(x, {}) /\ mapItem \in [raw : FitMaps, backup : FitMaps]
      BY <2>1, Types
    <3>3. t0 = TornMap(mapItem.raw, GoodMap(ram)) /\ t1 = TornMap(mapItem.backup, GoodMap(ram))
      OBVIOUS
    <3> HIDE DEF t0, t1, x
    <3> QED BY <3>1, <3>2, <3>3, <1>1, MapOldOrNew
  <2> QED BY <2>2, <1>2 DEF Readable, Loaded
<1>4. DeviceOwns'
  <2> SUFFICES ASSUME NEW m \in Readable', NEW p \in DOMAIN m.names PROVE Owns(m.names, p)'
    BY DEF DeviceOwns
  <2>1. Owns(m.names, p)
    <3>1. CASE m \in Readable
      BY <3>1, <1>1 DEF DeviceOwns
    <3>2. CASE m = Loaded(ram)
      BY <3>2, <1>1 DEF Loaded
    <3> QED BY <3>1, <3>2, <1>3
  <2> QED BY <2>1 DEF Owns, Item
<1> QED BY <1>3, <1>4

\* The save fails: it was the only fault, and the map stays loaded.
LEMMA ExitFailsKeeps ==
  ASSUME TypeInv, TypeInv', Sound' => Sound, MapInv, NEW t \in Threads, ExitFails(t)
  PROVE  MapInv'
<1>1. /\ UNCHANGED <<keyItem, ram, op, todo, wild, lost>>
      /\ pc[t] = "exit" /\ NeedsSave(t) /\ faults' = faults + 1 /\ Leave(t, FALSE)
      /\ mapItem' \in FailedWrite(mapItem, GoodMap(ram), TornMap(mapItem.raw, GoodMap(ram)),
                                  TornMap(mapItem.backup, GoodMap(ram)))
  BY DEF ExitFails
<1>2. /\ Others(t) /\ inited' = inited /\ dirty' = dirty
      /\ pc'[t] = IF stage[t] = "support" THEN "init" ELSE "idle"
  <2>1. /\ Others(t) /\ inited' = (inited /\ ~FALSE) /\ dirty' = (dirty /\ ~FALSE)
        /\ pc'[t] = IF stage[t] = "support" THEN "init" ELSE "idle"
    BY <1>1, LeaveMoves
  <2> QED BY <2>1 DEF TypeInv, TypeOK
<1>3. \A s \in Threads : CallOf(s)'
  BY <1>1, <1>2, LeaveCalls
<1>4. DirtyInside' /\ (inited' => Device')
  BY <1>1, <1>2, Types DEF MapInv, DirtyInside, Device
<1>5. ASSUME Sound' PROVE CopiesAgree' /\ DeviceOwns' /\ RamOwns' /\ RamAhead'
  <2>1. faults = 0 /\ Sound
    BY <1>1, <1>5, Types DEF Sound
  <2>2. DeviceOwns' /\ \A m \in Readable' : m \in Readable \/ m = Loaded(ram)
    BY <2>1, <1>1, SaveOldOrNew
  <2>3. inited /\ RamAhead /\ \A p \in DOMAIN ram : Owns(ram, p)
    BY <2>1, <1>1, SavesOwned DEF MapInv
  <2>4. RamOwns'
    BY <2>3, <1>1 DEF RamOwns, Owns, Item
  <2>5. stage[t] # "support"
    <3>1. CASE ExitMode(t)
      BY <3>1 DEF ExitMode
    <3>2. CASE dirty
      BY <3>2, <2>1, <1>1, AloneInside DEF MapInv, DirtyInside, Inside
    <3> QED BY <3>1, <3>2, <1>1 DEF NeedsSave
  <2>6. RamAhead'
    <3>1. CASE Erased
      <4>1. Erased'
        BY <3>1, <2>5, <1>1, <1>2 DEF Erased, Others
      <4> QED BY <4>1 DEF RamAhead
    <3>2. CASE \A m \in Readable : Continues(ram, m.names)
      <4>1. Continues(ram, ram)
        BY ContinuesItself, Types
      <4>2. \A m \in Readable' : Continues(ram', m.names)
        BY <4>1, <3>2, <2>2, <1>1 DEF Loaded
      <4> QED BY <4>2 DEF RamAhead
    <3> QED BY <3>1, <3>2, <2>3 DEF RamAhead
  <2>7. CopiesAgree'
    BY <2>1, <1>1 DEF CopiesAgree
  <2> QED BY <2>2, <2>4, <2>6, <2>7
<1> QED BY <1>3, <1>4, <1>5 DEF MapInv

\* An error is dropped when the map is saved: the device has the old or the new one.
LEMMA ExitDroppedKeeps ==
  ASSUME TypeInv, TypeInv', Sound' => Sound, MapInv, NEW t \in Threads, ExitDropped(t)
  PROVE  MapInv'
<1>1. /\ UNCHANGED <<keyItem, ram, op, todo, wild>> /\ lost \subseteq lost'
      /\ pc[t] = "exit" /\ NeedsSave(t) /\ faults' = faults + 1 /\ Leave(t, TRUE)
      /\ mapItem' \in DroppedWrite(mapItem, GoodMap(ram), TornMap(mapItem.raw, GoodMap(ram)),
                                   TornMap(mapItem.backup, GoodMap(ram)))
  BY DEF ExitDropped
<1>2. mapItem' \in CutWrite(mapItem, GoodMap(ram), TornMap(mapItem.raw, GoodMap(ram)),
                           TornMap(mapItem.backup, GoodMap(ram)))
  BY <1>1, DroppedIsCut
<1>3. Others(t) /\ pc'[t] \in {"init", "idle"} /\ ~inited' /\ ~dirty'
  BY <1>1, LeaveMoves
<1>4. \A s \in Threads : CallOf(s)'
  BY <1>1, <1>3, LeaveCalls
<1>5. DirtyInside'
  BY <1>3 DEF DirtyInside
<1>6. ASSUME Sound' PROVE CopiesAgree' /\ DeviceOwns'
  <2>1. faults = 0 /\ Sound /\ faults' # 0
    BY <1>1, <1>6, Types DEF Sound
  <2>2. DeviceOwns'
    BY <2>1, <1>1, <1>2, SaveOldOrNew
  <2> QED BY <2>1, <2>2 DEF CopiesAgree
<1> QED BY <1>3, <1>4, <1>5, <1>6 DEF MapInv

\* The process ends, between two writes, during that of a key or that of the map.
LEMMA CrashKeeps ==
  ASSUME Regime, TypeInv, TypeInv', Sound' => Sound, MapInv,
         Restart \/ \E t \in Threads : CutKeyWrite(t) \/ CutMapWrite(t)
  PROVE  MapInv'
<1>1. Reboot
  BY DEF Restart, CutKeyWrite, CutMapWrite
<1>0. lost' = lost
  BY <1>1 DEF Reboot
<1>2. DirtyInside' /\ ~inited' /\ \A s \in Threads : CallOf(s)'
  BY <1>1 DEF Reboot, DirtyInside, CallOf, Inside
<1>3. ASSUME Sound' PROVE CopiesAgree' /\ DeviceOwns'
  <2>1. Sound /\ CopiesAgree /\ DeviceOwns
    BY <1>3 DEF MapInv
  <2>2. CASE Restart
    BY <1>0, <2>1, <2>2 DEF Restart, disk, CopiesAgree, Same, DeviceOwns, Owns, Readable, Item
  <2>3. ASSUME NEW t \in Threads, CutKeyWrite(t) PROVE CopiesAgree' /\ DeviceOwns'
    <3>1. PICK x \in CutWrite(keyItem[idx[t]], Wrapped(t), TornKey, TornKey) :
            keyItem' = [keyItem EXCEPT ![idx[t]] = x]
      BY <2>3 DEF CutKeyWrite
    <3>2. pc[t] = "wkey" /\ faults' = faults + 1 /\ mapItem' = mapItem
      BY <2>3 DEF CutKeyWrite
    <3>3. faults = 0
      BY <3>2, <1>3, Types DEF Sound
    <3>4. /\ idx[t] \in Items /\ keyItem[idx[t]] \in [raw : Keys, backup : Keys]
          /\ Same(keyItem[idx[t]])
      BY <3>2, <3>3, <2>1, WritesOwnItem, Types DEF CopiesAgree
    <3>5. nv_read_key(x, {}) \in {Item(idx[t]), Wrapped(t)}
      BY <3>1, <3>2, <3>4, WritesOwnItem, KeyOldOrNew DEF Item
    <3>6. DeviceOwns'
      BY <3>1, <3>2, <3>5, <2>1, <1>0, WriteTakesNoItem
    <3> QED BY <3>2, <3>3, <3>6 DEF CopiesAgree
  <2>4. ASSUME NEW t \in Threads, CutMapWrite(t) PROVE CopiesAgree' /\ DeviceOwns'
    <3>1. /\ pc[t] = "exit" /\ NeedsSave(t) /\ faults' = faults + 1 /\ keyItem' = keyItem
          /\ mapItem' \in CutWrite(mapItem, GoodMap(ram), TornMap(mapItem.raw, GoodMap(ram)),
                                   TornMap(mapItem.backup, GoodMap(ram)))
      BY <2>4 DEF CutMapWrite
    <3>2. faults = 0
      BY <3>1, <1>3, Types DEF Sound
    <3>3. DeviceOwns'
      BY <3>1, <3>2, <2>1, <1>0, SaveOldOrNew
    <3> QED BY <3>1, <3>2, <3>3 DEF CopiesAgree
  <2> QED BY <2>2, <2>3, <2>4
<1> QED BY <1>2, <1>3 DEF MapInv

\* A device as it leaves the factory.
LEMMA InitKeeps == Init => MapInv
<1> SUFFICES ASSUME Init PROVE MapInv
  OBVIOUS
<1>1. PICK m \in Factory, v \in Values \ BigValues : Provisioned(m, v)
  BY DEF Init
<1>2. /\ mapItem = Both(m) /\ m \in [st : {"good", "nomagic"}, names : Seq(Names)]
      /\ Len(m.names) < MaxItem
      /\ keyItem = [i \in Items |->
           IF i \in DOMAIN m.names THEN Both(Object(m.names[i], v, FactoryWP)) ELSE Both(BAD)]
  BY <1>1, FactoryAssumption DEF Provisioned
<1>3. DirtyInside /\ ~inited /\ \A s \in Threads : CallOf(s)
  BY DEF Init, DirtyInside, CallOf, Inside
<1>4. CopiesAgree
  BY <1>2 DEF Init, CopiesAgree, Same, Both
<1>5. DeviceOwns
  <2> SUFFICES ASSUME NEW r \in Readable, NEW p \in DOMAIN r.names PROVE Owns(r.names, p)
    BY DEF DeviceOwns
  <2>1. Device
    BY DEF Readable, nv_read_map, Device
  <2>2. r = Loaded(m.names)
    <3>1. TypeInv
      BY InitTypeInv
    <3>2. nv_read_map(mapItem, {}) = {Loaded(mapItem.raw.names)}
      BY <3>1, <2>1, <1>2, MapRead, Types DEF Same, Both
    <3> QED BY <3>2, <1>2 DEF Readable, Both
  <2>3. p \in DOMAIN m.names /\ r.names[p] = m.names[p] /\ m.names[p] \in Names
    BY <2>2, <1>2 DEF Loaded
  <2>4. p \in Items
    <3>1. p \in 1 .. Len(m.names) /\ Len(m.names) \in Nat
      BY <2>3, <1>2
    <3> QED BY <3>1, <1>2, ConstantTypes DEF Items
  <2>5. Object(m.names[p], v, FactoryWP) \in Objects
    BY <2>3, ConstantsAssumption DEF Object, Objects
  <2>6. keyItem[p] = Both(Object(m.names[p], v, FactoryWP))
    BY <2>3, <2>4, <1>2
  <2>7. Item(p) = Object(m.names[p], v, FactoryWP)
    BY <2>1, <2>5, <2>6, BadAssumption DEF Item, nv_read_key, Device, Both, sd_read, nand_read
  <2> QED BY <2>3, <2>5, <2>7, BadAssumption DEF Owns, Object
<1> QED BY <1>3, <1>4, <1>5 DEF MapInv

\* Every step keeps the invariant of the map.
LEMMA NextKeeps ==
  ASSUME Regime, TypeInv, MapInv, [Next]_vars
  PROVE  MapInv'
<1>1. TypeInv' /\ (Sound' => Sound)
  BY NextTypes, SoundBefore
<1>2. CASE UNCHANGED vars
  BY <1>2 DEF vars, MapInv, CallOf, DirtyInside, Device, Sound, CopiesAgree, Same, DeviceOwns, Owns,
       Readable, Item, RamOwns, RamAhead, Erased, Unwritten, NeedsSave, ExitMode
<1>3. CASE Restart \/ \E t \in Threads : CutKeyWrite(t) \/ CutMapWrite(t)
  BY <1>1, <1>3, CrashKeeps
<1>4. ASSUME NEW t \in Threads, Call(t) \/ Step(t) PROVE MapInv'
  <2>1. CASE Call(t)
    BY <2>1, <1>1, CallKeeps
  <2>2. CASE InitLoaded(t) \/ InitLoads(t)
    BY <2>2, <1>1, InitLoadedKeeps, InitLoadsKeeps
  <2>3. CASE InitFails(t) \/ sunxi_secure_object_read(t) \/ sunxi_secure_object_list(t)
    <3>1. faults <= faults'
      BY <2>3, <1>1, QuietFaults
    <3> QED BY <3>1, <2>3, <1>1, NothingWrittenKeeps
  <2>4. CASE sunxi_secure_object_write(t) \/ sunxi_secure_object_erase(t)
    BY <2>4, <1>1, ObjectWriteKeeps, EraseKeeps
  <2>5. CASE KeyWritten(t) \/ KeyWriteDropped(t) \/ KeyWriteFails(t)
    BY <2>5, <1>1, KeyWrittenKeeps, KeyWriteDroppedKeeps, KeyWriteFailsKeeps
  <2>6. CASE ExitClean(t) \/ ExitSaves(t) \/ ExitDropped(t) \/ ExitFails(t)
    BY <2>6, <1>1, ExitKeeps, ExitDroppedKeeps, ExitFailsKeeps
  <2> QED BY <2>1, <2>2, <2>3, <2>4, <2>5, <2>6, <1>4
       DEF Step, sunxi_secure_storage_init, sunxi_secure_storage_exit
<1> QED BY <1>2, <1>3, <1>4 DEF Next

\* While at most one fault has hit the device, every entry of the map on it belongs to
\* an item that holds a valid object with the entry's name, however the calls of the
\* threads, the failures of writes and reads and the power cuts follow each other: the
\* item is written before the map that lists it is saved.  Only the keys of the call whose
\* write error was dropped (secure_storage.c:550) are excepted.
THEOREM KeysOwnItems == Regime => (Spec => []MapNamesOwnItems)
<1> SUFFICES ASSUME Regime PROVE Spec => []MapNamesOwnItems
  OBVIOUS
<1>1. Init => TypeInv /\ MapInv
  BY InitTypeInv, InitKeeps
<1>2. TypeInv /\ MapInv /\ [Next]_vars => (TypeInv /\ MapInv)'
  BY NextTypes, NextKeeps
<1>3. TypeInv /\ MapInv => MapNamesOwnItems
  BY DEF MapInv, DeviceOwns, Owns, Readable, Item, MapNamesOwnItems
<1> QED BY <1>1, <1>2, <1>3, PTL DEF Spec

-----------------------------------------------------------------------------
(* Every step keeps the invariant of the values. *)

\* Fetch reads the item of the key's first entry.
LEMMA FetchIs ==
  ASSUME NamesApart, NEW m \in Seq(Names), NEW n, NEW p, FirstEntry(m, n, p), NEW items
  PROVE  Fetch(items, m, n) = IF p = 0 THEN BAD ELSE Val(nv_read_key(items[p], {}))
<1>1. probe_name_in_map(m, n) = p
  BY ProbeFinds, FirstEntryUnique
<1> QED BY <1>1 DEF Fetch

\* Under a map that another continues a key is as under that one, or absent.
LEMMA FetchBehind ==
  ASSUME NamesApart, NEW m \in Seq(Names), NEW ns \in Seq(Names), Continues(ns, m), NEW n, NEW items
  PROVE  \/ /\ \E p \in DOMAIN m : m[p] = n
            /\ Fetch(items, m, n) = Fetch(items, ns, n)
         \/ /\ \A p \in DOMAIN m : m[p] # n
            /\ Fetch(items, m, n) = BAD
<1> DEFINE p == probe_name_in_map(ns, n)
<1>1. FirstEntry(ns, n, p)
  BY ProbeFinds
<1> HIDE DEF p
<1>2. FirstEntry(m, n, IF p \in DOMAIN m THEN p ELSE 0)
  BY <1>1, ContinuedFinds
<1>3. Fetch(items, ns, n) = IF p = 0 THEN BAD ELSE Val(nv_read_key(items[p], {}))
  BY <1>1, FetchIs
<1>4. CASE p \in DOMAIN m
  <2>1. FirstEntry(m, n, p) /\ p # 0
    BY <1>2, <1>4
  <2> QED BY <1>3, <1>4, <2>1, FetchIs DEF FirstEntry
<1>5. CASE p \notin DOMAIN m
  <2>1. FirstEntry(m, n, 0) /\ 0 \notin DOMAIN m
    BY <1>2, <1>5
  <2>2. Fetch(items, m, n) = BAD
    BY <2>1, FetchIs
  <2> QED BY <2>1, <2>2 DEF FirstEntry
<1> QED BY <1>4, <1>5

\* An appended entry changes what is fetched for its own name only.
LEMMA FetchAppend ==
  ASSUME NamesApart, NEW m \in Seq(Names), NEW n \in Names, FirstEntry(m, n, 0), NEW k, k # n,
         NEW items
  PROVE  Fetch(items, Append(m, n), k) = Fetch(items, m, k) /\ Fetch(items, m, n) = BAD
<1> DEFINE p == probe_name_in_map(m, k)
<1>1. FirstEntry(m, k, p)
  BY ProbeFinds
<1> HIDE DEF p
<1>2. FirstEntry(Append(m, n), k, p) /\ Append(m, n) \in Seq(Names)
  BY <1>1, AppendFinds
<1>3. Fetch(items, m, k) = IF p = 0 THEN BAD ELSE Val(nv_read_key(items[p], {}))
  BY <1>1, FetchIs
<1>4. Fetch(items, Append(m, n), k) = IF p = 0 THEN BAD ELSE Val(nv_read_key(items[p], {}))
  BY <1>2, FetchIs
<1>5. Fetch(items, m, n) = BAD
  BY FetchIs
<1> QED BY <1>3, <1>4, <1>5

\* A written item changes what is fetched for the names its entry has.
LEMMA FetchOther ==
  ASSUME NamesApart, NEW m \in Seq(Names), NEW n, NEW q, NEW items, NEW new,
         DOMAIN m \subseteq Items, \A p \in Items : p # q => new[p] = items[p],
         q \in DOMAIN m => m[q] # n
  PROVE  Fetch(new, m, n) = Fetch(items, m, n)
<1> DEFINE p == probe_name_in_map(m, n)
<1>1. FirstEntry(m, n, p)
  BY ProbeFinds
<1> HIDE DEF p
<1>2. p # 0 => new[p] = items[p]
  <2>1. p # 0 => p \in Items /\ p # q
    BY <1>1 DEF FirstEntry
  <2> QED BY <2>1
<1>3. Fetch(items, m, n) = IF p = 0 THEN BAD ELSE Val(nv_read_key(items[p], {}))
  BY <1>1, FetchIs
<1>4. Fetch(new, m, n) = IF p = 0 THEN BAD ELSE Val(nv_read_key(new[p], {}))
  BY <1>1, FetchIs
<1> QED BY <1>2, <1>3, <1>4

\* Of an empty map nothing is fetched.
LEMMA FetchEmpty ==
  ASSUME NamesApart, NEW n, NEW items
  PROVE  Fetch(items, <<>>, n) = BAD
<1>1. <<>> \in Seq(Names) /\ FirstEntry(<<>>, n, 0)
  BY DEF FirstEntry
<1> QED BY <1>1, FetchIs

\* A save that fails or is cut off leaves a map that can be read.
LEMMA MapStaysReadable ==
  ASSUME Device, NEW it \in [raw : FitMaps, backup : FitMaps], Same(it), it.raw.st # "badcrc",
         NEW ns,
         NEW t0, t0 = TornMap(it.raw, GoodMap(ns)), NEW t1, t1 = TornMap(it.backup, GoodMap(ns)),
         NEW x \in FailedWrite(it, GoodMap(ns), t0, t1) \cup CutWrite(it, GoodMap(ns), t0, t1)
  PROVE  nv_read_map(x, {}) # {}
<1> DEFINE w == GoodMap(ns)
<1>0. w.st = "good" /\ w.names = ns
  BY DEF GoodMap
<1>1. CASE Flash = "SD"
  <2>1. it = [raw |-> it.raw, backup |-> it.raw] /\ t1 = t0
    BY <1>1 DEF Same
  <2>2. PICK c, d : x = [raw |-> c, backup |-> d] /\
          (\/ c \in t0 /\ d \in {it.raw, w}
           \/ c \in {it.raw, w} /\ d \in {it.raw, w} \cup t0)
    BY <1>1, <2>1 DEF FailedWrite, CutWrite
  <2>3. x.raw = c /\ x.backup = d /\ sd_read({}) /\ sd_read_backup({})
    BY <2>2 DEF sd_read, sd_read_backup
  <2> HIDE DEF w
  <2>4. nv_read_map(x, {}) = sd_read_map(x, {})
    BY <1>1 DEF nv_read_map
  <2>5. it.raw.st \in {"good", "nomagic"}
    BY DEF FitMaps, Maps
  <2>6. CASE it.raw.st = "good"
    <3>1. \A e \in t0 : e.st = "badcrc"
      BY <2>6 DEF TornMap, CorruptMap
    <3> QED BY <2>2, <2>3, <2>4, <2>6, <3>1, <1>0 DEF sd_read_map
  <2>7. CASE it.raw.st = "nomagic"
    <3>1. \A e \in t0 : e.st = "nomagic" /\ e.names = ns
      BY <2>7 DEF TornMap, PlainMap, GoodMap
    <3> QED BY <2>2, <2>3, <2>4, <2>7, <3>1, <1>0 DEF sd_read_map
  <2> QED BY <2>5, <2>6, <2>7
<1>2. CASE Flash = "NAND"
  BY <1>2 DEF nv_read_map, nand_read
<1> QED BY <1>1, <1>2 DEF Device

\* What Effect says of each kind of call.
LEMMA EffectIs ==
  ASSUME NEW k, NEW args, NEW n
  PROVE  /\ k \in Writers => \A v : v \in Effect(k, args, n) <=>
                                      \E i \in DOMAIN args : args[i].name = n /\ v = args[i].val
         /\ k = "erase" => Effect(k, args, n) = {BAD}
         /\ k \notin Writers \cup {"erase"} => Effect(k, args, n) = {}
BY DEF Effect, Writers

\* A thread that takes no step keeps what is said of it.
LEMMA OtherKeeps ==
  ASSUME TypeInv, ValueInv, Sound' => Sound, NEW t \in Threads, Others(t), NEW s \in Threads \ {t},
         pc[s] \notin Inside \/ UNCHANGED <<keyItem, ram, dirty, lost>>,
         pc[s] # "idle" => \A n \in Names : Effect(op[s], todo[s], n) \subseteq allowed'[n]
  PROVE  EffectOf(s)' /\ ShapeOf(s)' /\ DoneOf(s)'
<1>1. EffectOf(s) /\ ShapeOf(s) /\ DoneOf(s)
  BY DEF ValueInv
<1>2. /\ pc'[s] = pc[s] /\ stage'[s] = stage[s] /\ op'[s] = op[s] /\ todo'[s] = todo[s]
      /\ at'[s] = at[s] /\ bad'[s] = bad[s]
  BY DEF Others
<1>3. EffectOf(s)'
  BY <1>2 DEF EffectOf
<1>4. ShapeOf(s)'
  BY <1>1, <1>2 DEF ShapeOf
<1>5. DoneOf(s)'
  BY <1>1, <1>2 DEF DoneOf, InPlace, Inside
<1> QED BY <1>3, <1>4, <1>5

\* A step that changes neither the maps nor the items keeps what is said of them.
LEMMA ValueStill ==
  ASSUME TypeInv, ValueInv, NEW t \in Threads, Still, Others(t), Sound' => Sound,
         pc[t] \notin {"wkey", "exit"}, \A n \in Names : allowed[n] \subseteq allowed'[n]
  PROVE  Sound' => /\ (Device => Readable # {})' /\ DeviceValued'
                   /\ inited' => RamValued'
<1> SUFFICES ASSUME Sound' PROVE /\ (Device => Readable # {})' /\ DeviceValued'
                                 /\ inited' => RamValued'
  OBVIOUS
<1>1. (Device => Readable # {}) /\ DeviceValued /\ (inited => RamValued)
  BY DEF ValueInv
<1>2. Readable' = Readable /\ keyItem' = keyItem /\ ram' = ram /\ inited' = inited
      /\ lost' = lost
  BY DEF Still, Readable
<1>3. (Device => Readable # {})' /\ DeviceValued'
  BY <1>1, <1>2 DEF Device, DeviceValued
<1>4. ASSUME inited' PROVE RamValued'
  <2> SUFFICES ASSUME NEW n \in Names \ lost
               PROVE  \/ Fetch(keyItem', ram', n) \in allowed'[n]
                      \/ \E s \in Threads : \E p \in DOMAIN ram' : ram'[p] = n /\ Unwritten(s, p)'
    BY <1>2 DEF RamValued
  <2>1. CASE Fetch(keyItem, ram, n) \in allowed[n]
    BY <2>1, <1>2
  <2>2. ASSUME NEW s \in Threads, NEW p \in DOMAIN ram, ram[p] = n, Unwritten(s, p)
        PROVE  Unwritten(s, p)'
    <3>1. s # t
      BY <2>2 DEF Unwritten
    <3> QED BY <3>1, <2>2 DEF Unwritten, Others, NeedsSave, ExitMode, Still
  <2> QED BY <2>1, <2>2, <1>1, <1>2, <1>4 DEF RamValued
<1> QED BY <1>3, <1>4

\* A call writes one value.
LEMMA OneValue ==
  ASSUME NEW k \in Writers, NEW args \in Arguments(k)
  PROVE  \A i, j \in DOMAIN args : args[i].val = args[j].val
<1>1. CASE k = "write"
  <2>1. PICK n \in Names, v \in Values : args = <<Write(n, TextOf[v])>>
    BY <1>1 DEF Arguments
  <2> QED BY <2>1 DEF Write
<1>2. CASE k = "batch"
  <2>1. PICK v \in Values : args = [i \in DOMAIN BatchNames |-> Write(BatchNames[i], v)]
    BY <1>2 DEF Arguments
  <2> QED BY <2>1 DEF Write
<1> QED BY <1>1, <1>2 DEF Writers

\* A thread starts a call: the keys may now have the values it gives them.
LEMMA CallValues ==
  ASSUME Regime, TypeInv, Sound' => Sound, MapInv, ValueInv, NEW t \in Threads, Call(t)
  PROVE  ValueInv'
<1>0. PICK k \in Kinds : \E args \in Arguments(k) :
        /\ op' = [op EXCEPT ![t] = k] /\ todo' = [todo EXCEPT ![t] = args]
        /\ stage' = [stage EXCEPT ![t] = IF k \in {"erase", "list"} THEN "main" ELSE "support"]
        /\ allowed' = [n \in Names |-> allowed[n] \cup Effect(k, args, n)]
  BY DEF Call
<1>1. PICK args \in Arguments(k) :
        /\ op' = [op EXCEPT ![t] = k] /\ todo' = [todo EXCEPT ![t] = args]
        /\ stage' = [stage EXCEPT ![t] = IF k \in {"erase", "list"} THEN "main" ELSE "support"]
        /\ allowed' = [n \in Names |-> allowed[n] \cup Effect(k, args, n)]
  BY <1>0
<1>2. /\ Still /\ UNCHANGED <<at, idx, bad, faults, wild>>
      /\ pc[t] = "idle" /\ pc' = [pc EXCEPT ![t] = "init"]
  BY DEF Call, Still, disk, memory
<1>3. /\ Others(t) /\ op'[t] = k /\ todo'[t] = args /\ pc'[t] = "init" /\ at'[t] = at[t]
      /\ stage'[t] = IF k \in {"erase", "list"} THEN "main" ELSE "support"
  BY <1>1, <1>2, Types DEF Others
<1>4. \A n \in Names : allowed'[n] = allowed[n] \cup Effect(k, args, n)
  BY <1>1
<1>5. EffectOf(t)' /\ ShapeOf(t)' /\ DoneOf(t)'
  <2>1. EffectOf(t)'
    BY <1>3, <1>4 DEF EffectOf
  <2>2. k \in Writers => \A i, j \in DOMAIN args : args[i].val = args[j].val
    BY OneValue
  <2>3. ShapeOf(t)'
    BY <2>2, <1>2, <1>3 DEF ValueInv, ShapeOf
  <2>4. DoneOf(t)'
    BY <1>3 DEF DoneOf
  <2> QED BY <2>1, <2>3, <2>4
<1>6. ASSUME NEW s \in Threads \ {t} PROVE EffectOf(s)' /\ ShapeOf(s)' /\ DoneOf(s)'
  <2>1. pc[s] # "idle" => \A n \in Names : Effect(op[s], todo[s], n) \subseteq allowed'[n]
    BY <1>4 DEF ValueInv, EffectOf
  <2> QED BY <2>1, <1>2, <1>3, OtherKeeps DEF Still
<1>7. Sound' => (Device => Readable # {})' /\ DeviceValued' /\ (inited' => RamValued')
  <2>1. pc[t] \notin {"wkey", "exit"} /\ \A n \in Names : allowed[n] \subseteq allowed'[n]
    BY <1>2, <1>4
  <2> QED BY <2>1, <1>2, <1>3, ValueStill
<1> QED BY <1>5, <1>6, <1>7 DEF ValueInv

\* A call that fails, or that has not come to its exit, leaves the keys the values they may have.
LEMMA ReturnAllows ==
  ASSUME TypeInv, NEW t \in Threads, NEW r, Return(t, r), r # "ok" \/ pc[t] # "exit"
  PROVE  allowed' = allowed
<1>1. allowed' = [n \in Names |-> allowed[n]]
  BY DEF Return
<1> QED BY <1>1 DEF TypeInv, TypeOK

\* A step that only takes t out of init or of a body that has written nothing.
LEMMA QuietValues ==
  ASSUME TypeInv, Sound' => Sound, MapInv, ValueInv, NEW t \in Threads,
         Still, UNCHANGED <<op, todo, allowed>>, Others(t), stage'[t] = stage[t],
         \/ pc[t] = "init" /\ pc'[t] = "idle" /\ at'[t] = 1
         \/ /\ pc[t] = "body" /\ op[t] \notin Writers \cup {"erase"}
            /\ (pc'[t] = "idle" /\ at'[t] = 1) \/ (pc'[t] = "exit" /\ at'[t] = at[t])
  PROVE  ValueInv'
<1>1. EffectOf(t) /\ ShapeOf(t) /\ CallOf(t)
  BY DEF ValueInv, MapInv
<1>2. EffectOf(t)' /\ ShapeOf(t)' /\ DoneOf(t)'
  <2>1. EffectOf(t)'
    BY <1>1 DEF EffectOf
  <2>2. ShapeOf(t)'
    BY <1>1 DEF ShapeOf, CallOf
  <2>3. DoneOf(t)'
    BY DEF DoneOf
  <2> QED BY <2>1, <2>2, <2>3
<1>3. ASSUME NEW s \in Threads \ {t} PROVE EffectOf(s)' /\ ShapeOf(s)' /\ DoneOf(s)'
  <2>1. pc[s] # "idle" => \A n \in Names : Effect(op[s], todo[s], n) \subseteq allowed'[n]
    BY DEF ValueInv, EffectOf
  <2> QED BY <2>1, OtherKeeps DEF Still
<1>4. Sound' => (Device => Readable # {})' /\ DeviceValued' /\ (inited' => RamValued')
  <2>1. pc[t] \notin {"wkey", "exit"} /\ \A n \in Names : allowed[n] \subseteq allowed'[n]
    OBVIOUS
  <2> QED BY <2>1, ValueStill
<1> QED BY <1>2, <1>3, <1>4 DEF ValueInv

\* sunxi_secure_storage_init fails, a key is read, the keys are listed.
LEMMA NothingWrittenValues ==
  ASSUME TypeInv, Sound' => Sound, MapInv, ValueInv, NEW t \in Threads,
         InitFails(t) \/ sunxi_secure_object_read(t) \/ sunxi_secure_object_list(t)
  PROVE  ValueInv'
<1>1. CASE InitFails(t)
  <2>1. pc[t] = "init" /\ Still /\ UNCHANGED <<op, todo>> /\ Return(t, InitFailure(t))
    BY <1>1 DEF InitFails, Still, disk, memory
  <2>2. Others(t) /\ pc'[t] = "idle" /\ stage'[t] = stage[t] /\ at'[t] = 1
    BY <2>1, ReturnMoves, Types DEF Return
  <2>3. allowed' = allowed
    BY <2>1, ReturnAllows
  <2> QED BY <2>1, <2>2, <2>3, QuietValues
<1>2. CASE sunxi_secure_object_read(t)
  <2>1. /\ pc[t] = "body" /\ op[t] = "read" /\ Still
        /\ UNCHANGED <<op, todo, stage, at, idx, allowed>>
        /\ pc' = [pc EXCEPT ![t] = "exit"] /\ bad' = [bad EXCEPT ![t] = got'[t] = BAD]
    BY <1>2 DEF sunxi_secure_object_read, Still, disk, memory
  <2>2. Others(t) /\ pc'[t] = "exit" /\ stage'[t] = stage[t] /\ op[t] \notin Writers \cup {"erase"}
    BY <2>1, Types DEF Others, Writers
  <2> QED BY <2>1, <2>2, QuietValues
<1>3. CASE sunxi_secure_object_list(t)
  <2>1. pc[t] = "body" /\ op[t] = "list" /\ Still /\ UNCHANGED <<op, todo>>
    BY <1>3 DEF sunxi_secure_object_list, Still, disk, memory
  <2>2. op[t] \notin Writers \cup {"erase"}
    BY <2>1 DEF Writers
  <2>3. \/ pc' = [pc EXCEPT ![t] = "exit"] /\ UNCHANGED <<stage, at, idx, bad, allowed>>
        \/ Return(t, "fail")
    BY <1>3 DEF sunxi_secure_object_list
  <2>4. CASE pc' = [pc EXCEPT ![t] = "exit"] /\ UNCHANGED <<stage, at, idx, bad, allowed>>
    <3>1. Others(t) /\ pc'[t] = "exit" /\ stage'[t] = stage[t] /\ at'[t] = at[t]
      BY <2>1, <2>4, Types DEF Others
    <3> QED BY <3>1, <2>1, <2>2, <2>4, QuietValues
  <2>5. CASE Return(t, "fail")
    <3>1. Others(t) /\ pc'[t] = "idle" /\ stage'[t] = stage[t] /\ at'[t] = 1
      BY <2>1, <2>5, ReturnMoves, Types DEF Return
    <3>2. allowed' = allowed
      BY <2>5, ReturnAllows
    <3> QED BY <3>1, <3>2, <2>1, <2>2, QuietValues
  <2> QED BY <2>3, <2>4, <2>5
<1> QED BY <1>1, <1>2, <1>3

\* sunxi_secure_storage_init finds a loaded map or loads the one of the device.
LEMMA InitValues ==
  ASSUME TypeInv, TypeInv', Sound' => Sound, MapInv, ValueInv, NEW t \in Threads,
         InitLoaded(t) \/ InitLoads(t)
  PROVE  ValueInv'
<1> DEFINE loc == IF stage[t] = "support" THEN "exit" ELSE "body"
<1>1. /\ UNCHANGED <<mapItem, keyItem, dirty, stage, op, todo, at, idx, bad, lost,
                   allowed>>
      /\ pc[t] = "init" /\ pc' = [pc EXCEPT ![t] = loc] /\ mutex = NoThread
  BY DEF InitLoaded, InitLoads, InitDone, CanLock, disk
<1>2. Others(t) /\ pc'[t] = loc /\ (stage[t] = "support" \/ stage[t] = "main")
  BY <1>1, Types DEF Others
<1>3. \A s \in Threads : pc[s] \notin Inside
  BY <1>1, ConstantTypes DEF MapInv, CallOf
<1>4. EffectOf(t) /\ ShapeOf(t)
  BY DEF ValueInv
<1>5. EffectOf(t)'
  BY <1>1, <1>4 DEF EffectOf
<1>6. ShapeOf(t)'
  BY <1>1, <1>2, <1>4 DEF ShapeOf
<1>7. DoneOf(t)'
  <2>1. pc'[t] = "exit" => stage'[t] = "support" /\ op'[t] # "erase"
    BY <1>1, <1>2, <1>4 DEF ShapeOf
  <2>2. at'[t] = 1 /\ \A i \in DOMAIN todo'[t] : ~(i < 1)
    <3>1. todo[t] \in Seq([name : Names, val : Values \cup {BAD}])
      BY Types
    <3> QED BY <3>1, <1>1, <1>4 DEF ShapeOf
  <2> QED BY <2>1, <2>2 DEF DoneOf
<1>8. ASSUME NEW s \in Threads \ {t} PROVE EffectOf(s)' /\ ShapeOf(s)' /\ DoneOf(s)'
  <2>1. pc[s] # "idle" => \A n \in Names : Effect(op[s], todo[s], n) \subseteq allowed'[n]
    BY <1>1 DEF ValueInv, EffectOf
  <2> QED BY <2>1, <1>2, <1>3, OtherKeeps
<1>9. CASE InitLoaded(t)
  <2>1. Still /\ pc[t] \notin {"wkey", "exit"} /\ \A n \in Names : allowed[n] \subseteq allowed'[n]
    BY <1>1, <1>9 DEF InitLoaded, InitDone, Still
  <2>2. Sound' => (Device => Readable # {})' /\ DeviceValued' /\ (inited' => RamValued')
    BY <2>1, <1>2, ValueStill
  <2> QED BY <2>2, <1>5, <1>6, <1>7, <1>8 DEF ValueInv
<1>10. CASE InitLoads(t)
  <2>1. PICK u \in SUBSET Copies :
          /\ faults' = faults + Cardinality(u)
          /\ \E m \in nv_read_map(mapItem, u) : ram' = m.names /\ wild' = (wild \/ m.wild)
    BY <1>10 DEF InitLoads
  <2>2. PICK m \in nv_read_map(mapItem, u) : ram' = m.names /\ wild' = (wild \/ m.wild)
    BY <2>1
  <2>3. ASSUME Sound' PROVE (Device => Readable # {})' /\ DeviceValued' /\ RamValued'
    <3>1. Sound /\ CopiesAgree /\ (Device => Readable # {}) /\ DeviceValued
      BY <2>3 DEF MapInv, ValueInv
    <3>2. faults' <= 1 /\ ~wild' /\ faults + Cardinality(u) <= 1
      BY <2>3, <2>1 DEF Sound
    <3>3. ~m.wild
      BY <3>2, <2>2, Zenon
    <3>4. m \in Readable
      BY <3>1, <3>2, <3>3, LoadedIsReadable
    <3>5. (Device => Readable # {})' /\ DeviceValued'
      BY <3>1, <1>1 DEF Device, Readable, DeviceValued
    <3>6. RamValued'
      BY <3>1, <3>4, <2>2, <1>1 DEF DeviceValued, RamValued
    <3> QED BY <3>5, <3>6
  <2> QED BY <2>3, <1>5, <1>6, <1>7, <1>8 DEF ValueInv
<1> QED BY <1>9, <1>10

\* sunxi_secure_object_erase.
LEMMA EraseValues ==
  ASSUME Regime, TypeInv, Sound' => Sound, MapInv, ValueInv, NEW t \in Threads,
         sunxi_secure_object_erase(t)
  PROVE  ValueInv'
<1>1. /\ UNCHANGED <<mapItem, keyItem, inited, stage, op, todo, at, idx, bad, faults, wild,
                   lost, allowed>>
      /\ pc[t] = "body" /\ op[t] = "erase" /\ pc' = [pc EXCEPT ![t] = "exit"]
      /\ ram' = <<>> /\ dirty' = TRUE
  BY DEF sunxi_secure_object_erase, disk
<1>2. \A s \in Threads : s = t
  BY <1>1, Types DEF Regime, EraserAlone
<1>3. pc'[t] = "exit" /\ EffectOf(t) /\ ShapeOf(t)
  BY <1>1, Types DEF ValueInv
<1>4. EffectOf(t)' /\ ShapeOf(t)' /\ DoneOf(t)'
  <2>1. EffectOf(t)'
    BY <1>1, <1>3 DEF EffectOf
  <2>2. ShapeOf(t)'
    BY <1>1, <1>3 DEF ShapeOf
  <2>3. DoneOf(t)'
    BY <1>1, <1>3 DEF DoneOf, Writers
  <2> QED BY <2>1, <2>2, <2>3
<1>5. \A n \in Names : BAD \in allowed[n]
  BY <1>1, <1>3, EffectIs DEF EffectOf
<1>6. RamValued'
  BY <1>1, <1>5, FetchEmpty DEF Regime, RamValued
<1>7. Sound' => (Device => Readable # {})' /\ DeviceValued'
  BY <1>1 DEF ValueInv, Device, Readable, DeviceValued
<1> QED BY <1>2, <1>4, <1>6, <1>7 DEF ValueInv

\* sunxi_secure_object_write up to the device write.
LEMMA ObjectWriteValues ==
  ASSUME Regime, TypeInv, TypeInv', Sound' => Sound, MapInv, ValueInv, NEW t \in Threads,
         sunxi_secure_object_write(t)
  PROVE  ValueInv'
<1> DEFINE w == todo[t][at[t]]
           f == fill_name_in_map(ram, w.name)
<1>1. /\ UNCHANGED <<mapItem, keyItem, inited, dirty, stage, op, todo, at, faults, wild,
                   lost, allowed>>
      /\ pc[t] = "body" /\ op[t] \in Writers
  BY DEF sunxi_secure_object_write, disk
<1>2. todo[t] \in Seq([name : Names, val : Values]) /\ w.name \in Names
  <2>1. todo[t] \in Seq([name : Names, val : Values]) /\ at[t] \in DOMAIN todo[t]
    BY <1>1 DEF TypeInv, Args, ArgsOf
  <2>2. w \in [name : Names, val : Values]
    BY <2>1, ElementType
  <2> QED BY <2>1, <2>2
<1>3. CallOf(t) /\ stage[t] = "main" /\ inited /\ EffectOf(t) /\ ShapeOf(t) /\ DoneOf(t)
  BY <1>1 DEF MapInv, CallOf, Inside, ValueInv
<1>4. \A s \in Threads \ {t} : pc[s] \notin Inside
  BY <1>1, AloneInside DEF Inside
<1>5. \/ /\ bad' = [bad EXCEPT ![t] = TRUE] /\ pc' = [pc EXCEPT ![t] = "exit"]
         /\ UNCHANGED <<ram, idx>>
      \/ /\ f.index # 0 /\ ram' = f.map /\ idx' = [idx EXCEPT ![t] = f.index]
         /\ pc' = [pc EXCEPT ![t] = "wkey"] /\ UNCHANGED bad
  BY DEF sunxi_secure_object_write
<1> HIDE DEF f, w
<1>6. f.index # 0 =>
        \/ f.map = ram /\ FirstEntry(ram, w.name, f.index)
        \/ f.map = Append(ram, w.name) /\ f.index = Len(ram) + 1 /\ FirstEntry(ram, w.name, 0)
  BY <1>2, FillFinds, Types DEF Regime, f
<1>7. Others(t) /\ pc'[t] \in {"wkey", "exit"} /\ (pc'[t] = "exit" => bad'[t] = TRUE)
  BY <1>1, <1>5, Types DEF Others
<1>8. ASSUME NEW s \in Threads \ {t} PROVE EffectOf(s)' /\ ShapeOf(s)' /\ DoneOf(s)'
  <2>1. pc[s] # "idle" => \A n \in Names : Effect(op[s], todo[s], n) \subseteq allowed'[n]
    BY <1>1 DEF ValueInv, EffectOf
  <2> QED BY <2>1, <1>4, <1>7, OtherKeeps
<1>9. EffectOf(t)' /\ ShapeOf(t)'
  <2>1. EffectOf(t)'
    BY <1>1, <1>3 DEF EffectOf
  <2>2. ShapeOf(t)'
    BY <1>1, <1>3, <1>7 DEF ShapeOf
  <2> QED BY <2>1, <2>2
<1>10. Sound' => (Device => Readable # {})' /\ DeviceValued'
  BY <1>1 DEF ValueInv, Device, Readable, DeviceValued
<1>11. Sound' => \A n \in Names \ lost : Fetch(keyItem, ram, n) \in allowed[n]
  <2>1. \A s \in Threads, p \in DOMAIN ram : ~Unwritten(s, p)
    BY <1>1, <1>4 DEF Unwritten, Inside
  <2> QED BY <2>1, <1>3 DEF ValueInv, RamValued
<1>12. CASE /\ bad' = [bad EXCEPT ![t] = TRUE] /\ pc' = [pc EXCEPT ![t] = "exit"]
            /\ UNCHANGED <<ram, idx>>
  <2>1. DoneOf(t)'
    <3>1. pc'[t] = "exit" /\ bad'[t] = TRUE /\ op'[t] # "erase"
      BY <1>1, <1>12, Types DEF Writers
    <3> QED BY <3>1 DEF DoneOf
  <2>2. Sound' => RamValued'
    BY <1>1, <1>11, <1>12 DEF RamValued
  <2> QED BY <2>1, <2>2, <1>8, <1>9, <1>10 DEF ValueInv
<1>13. CASE /\ f.index # 0 /\ ram' = f.map /\ idx' = [idx EXCEPT ![t] = f.index]
            /\ pc' = [pc EXCEPT ![t] = "wkey"] /\ UNCHANGED bad
  <2>1. pc'[t] = "wkey" /\ idx'[t] = f.index
    BY <1>13, Types
  <2>2. ram \in Seq(Names)
    BY Types
  <2>3. \A k : k # w.name => Fetch(keyItem, ram', k) = Fetch(keyItem, ram, k)
    <3>1. CASE f.map = ram
      BY <3>1, <1>13
    <3>2. CASE f.map = Append(ram, w.name) /\ FirstEntry(ram, w.name, 0)
      BY <3>2, <2>2, <1>2, <1>13, FetchAppend DEF Regime
    <3> QED BY <3>1, <3>2, <1>6, <1>13
  <2>4. Fetch(keyItem, ram, w.name) = BAD \/ ram' = ram
    <3>1. CASE FirstEntry(ram, w.name, 0)
      BY <3>1, <2>2, FetchIs DEF Regime
    <3> QED BY <3>1, <1>6, <1>13
  <2>5. f.index \in DOMAIN ram' /\ ram'[f.index] = w.name
    <3>1. CASE f.map = ram /\ FirstEntry(ram, w.name, f.index)
      BY <3>1, <1>13 DEF FirstEntry
    <3>2. CASE f.map = Append(ram, w.name) /\ f.index = Len(ram) + 1
      BY <3>2, <2>2, <1>2, <1>13
    <3> QED BY <3>1, <3>2, <1>6, <1>13
  <2>6. DoneOf(t)'
    <3> SUFFICES ASSUME Sound', NEW i \in DOMAIN todo[t], i < at[t] PROVE InPlace(t, i)'
      BY <2>1, <1>1 DEF DoneOf, Writers
    <3>1. InPlace(t, i)
      BY <1>1, <1>3 DEF DoneOf
    <3>2. todo[t][i].val # BAD
      <4>1. todo[t][i] \in [name : Names, val : Values]
        BY <1>2, ElementType
      <4> QED BY <4>1, ConstantTypes
    <3> QED BY <3>1, <3>2, <2>3, <2>4, <1>1 DEF InPlace
  <2>7. ASSUME Sound' PROVE RamValued'
    <3> SUFFICES ASSUME NEW n \in Names \ lost
                 PROVE  \/ Fetch(keyItem', ram', n) \in allowed'[n]
                        \/ \E s \in Threads : \E p \in DOMAIN ram' : ram'[p] = n /\ Unwritten(s, p)'
      BY <1>1 DEF RamValued
    <3>1. CASE n = w.name
      <4>1. PICK q : q = f.index
        OBVIOUS
      <4>2. Unwritten(t, q)'
        BY <2>1, <4>1 DEF Unwritten
      <4> QED BY <4>1, <4>2, <3>1, <2>5
    <3>2. CASE n # w.name
      BY <3>2, <2>3, <2>7, <1>1, <1>11
    <3> QED BY <3>1, <3>2
  <2> QED BY <2>6, <2>7, <1>8, <1>9, <1>10 DEF ValueInv
<1> QED BY <1>5, <1>12, <1>13

\* A write of the key, whether it succeeds, fails or is cut off, changes that key only, to
\* its old or its new value.
LEMMA WriteValues ==
  ASSUME Regime, TypeInv, MapInv, ValueInv, Sound, NEW t \in Threads, pc[t] = "wkey",
         NEW x, keyItem' = [keyItem EXCEPT ![idx[t]] = x], mapItem' = mapItem, allowed' = allowed,
         lost \subseteq lost',
         nv_read_key(x, {}) \in {Item(idx[t]), Wrapped(t)}
  PROVE  /\ (Device => Readable # {})' /\ DeviceValued'
         /\ \A k \in Names : k # Wrapped(t).name =>
              /\ Fetch(keyItem', ram, k) = Fetch(keyItem, ram, k)
              /\ k \in lost \/ Fetch(keyItem, ram, k) \in allowed[k]
         /\ Fetch(keyItem', ram, Wrapped(t).name) = Val(nv_read_key(x, {}))
         /\ Wrapped(t).val \in allowed[Wrapped(t).name]
<1> DEFINE w == Wrapped(t)
           q == idx[t]
<1>1. /\ w \in Objects /\ q \in DOMAIN ram /\ ram[q] = w.name /\ FirstEntry(ram, w.name, q)
      /\ op[t] \in Writers /\ inited /\ \A s \in Threads \ {t} : pc[s] \notin Inside
  BY WritesOwnItem
<1>2. \A m \in Readable : Continues(ram, m.names)
  BY WriteTakesNoItem
<1>3. /\ ram \in Seq(Names) /\ DOMAIN ram \subseteq Items
      /\ keyItem \in [Items -> [raw : Keys, backup : Keys]]
  BY Types
<1>4. NamesApart
  BY DEF Regime
<1>5. w.val \in allowed[w.name]
  <2>1. EffectOf(t) /\ ArgsOf(t)
    BY DEF ValueInv, TypeInv, Args
  <2>2. at[t] \in DOMAIN todo[t] /\ w.name = todo[t][at[t]].name /\ w.val = todo[t][at[t]].val
    BY <2>1, <1>1 DEF ArgsOf, Wrapped, Object
  <2>3. w.name \in Names
    BY <1>1 DEF Objects
  <2>4. w.val \in Effect(op[t], todo[t], w.name)
    BY <2>2, <1>1, EffectIs
  <2> QED BY <2>1, <2>3, <2>4 DEF EffectOf
<1>6. keyItem'[q] = x /\ q # 0
  BY <1>1, <1>3 DEF Items
<1> HIDE DEF w, q
<1>7. Fetch(keyItem', ram, w.name) = Val(nv_read_key(x, {}))
  <2>1. PICK new : new = keyItem'
    OBVIOUS
  <2>2. Fetch(new, ram, w.name) = IF q = 0 THEN BAD ELSE Val(nv_read_key(new[q], {}))
    BY <1>1, <1>3, <1>4, FetchIs
  <2> QED BY <2>1, <2>2, <1>6
<1>8. Fetch(keyItem, ram, w.name) = Val(Item(q))
  BY <1>1, <1>3, <1>4, <1>6, FetchIs DEF Item
<1>9. ASSUME NEW k \in Names, k # w.name
      PROVE  /\ Fetch(keyItem', ram, k) = Fetch(keyItem, ram, k)
             /\ k \in lost \/ Fetch(keyItem, ram, k) \in allowed[k]
  <2>1. Fetch(keyItem', ram, k) = Fetch(keyItem, ram, k)
    <3>1. q \in DOMAIN ram => ram[q] # k
      BY <1>1, <1>9
    <3>2. PICK new : new = keyItem'
      OBVIOUS
    <3>3. \A p \in Items : p # q => new[p] = keyItem[p]
      BY <3>2, <1>3 DEF q
    <3>4. Fetch(new, ram, k) = Fetch(keyItem, ram, k)
      BY <3>1, <3>3, <1>3, <1>4, FetchOther
    <3> QED BY <3>2, <3>4
  <2>2. \A s \in Threads, p \in DOMAIN ram : ram[p] = k => ~Unwritten(s, p)
    BY <1>1, <1>9 DEF Unwritten, Inside, q
  <2>3. RamValued
    BY <1>1 DEF ValueInv
  <2> QED BY <2>1, <2>2, <2>3 DEF RamValued
<1>10. DeviceValued'
  <2> SUFFICES ASSUME NEW m \in Readable, NEW n \in Names \ lost
               PROVE  Fetch(keyItem', m.names, n) \in allowed[n]
    BY DEF DeviceValued, Readable
  <2>1. Fetch(keyItem, m.names, n) \in allowed[n]
    BY DEF ValueInv, DeviceValued
  <2>2. m.names \in Seq(Names) /\ Continues(ram, m.names)
    BY <1>2, ReadMapType, Types DEF Readable
  <2>3. CASE \A p \in DOMAIN m.names : m.names[p] # n
    <3>1. Fetch(keyItem', m.names, n) = BAD
      BY <2>2, <2>3, <1>3, <1>4, FetchBehind
    <3>2. Fetch(keyItem, m.names, n) = BAD
      BY <2>2, <2>3, <1>3, <1>4, FetchBehind
    <3> QED BY <3>1, <3>2, <2>1
  <2>4. CASE \E p \in DOMAIN m.names : m.names[p] = n
    <3>1. Fetch(keyItem', m.names, n) = Fetch(keyItem', ram, n)
      BY <2>2, <2>4, <1>3, <1>4, FetchBehind
    <3>2. Fetch(keyItem, m.names, n) = Fetch(keyItem, ram, n)
      BY <2>2, <2>4, <1>3, <1>4, FetchBehind
    <3>3. CASE n = w.name
      <4>1. w # BAD /\ Val(w) = w.val
        BY <1>1, BadAssumption DEF Val
      <4>2. Val(nv_read_key(x, {})) \in {Val(Item(q)), w.val}
        BY <4>1 DEF w, q
      <4> QED BY <4>2, <3>1, <3>2, <3>3, <2>1, <1>5, <1>7, <1>8
    <3>4. CASE n # w.name
      BY <3>1, <3>4, <1>9
    <3> QED BY <3>3, <3>4
  <2> QED BY <2>3, <2>4
<1>11. (Device => Readable # {})'
  BY DEF ValueInv, Device, Readable
<1> QED BY <1>5, <1>7, <1>9, <1>10, <1>11 DEF w

\* The write of the key has reported success.
LEMMA WroteKeyValues ==
  ASSUME Regime, TypeInv, Sound' => Sound, MapInv, ValueInv, NEW t \in Threads, WroteKey(t),
         lost \subseteq lost', NEW x, keyItem' = [keyItem EXCEPT ![idx[t]] = x],
         Sound' => Taken(t, x, lost')
  PROVE  ValueInv'
<1>1. /\ UNCHANGED <<mapItem, inited, ram, stage, op, todo, idx, bad, wild, allowed>>
      /\ pc[t] = "wkey" /\ dirty' = TRUE
  BY DEF WroteKey, MarkDirty
<1>2. \/ /\ at[t] < Len(todo[t]) /\ pc' = [pc EXCEPT ![t] = "body"]
         /\ at' = [at EXCEPT ![t] = @ + 1]
      \/ /\ ~(at[t] < Len(todo[t])) /\ pc' = [pc EXCEPT ![t] = "exit"] /\ at' = at
  BY DEF WroteKey
<1>3. /\ Wrapped(t) \in Objects /\ Device /\ op[t] \in Writers /\ stage[t] = "main"
      /\ \A s \in Threads \ {t} : pc[s] \notin Inside
  BY <1>1, WritesOwnItem
<1>4. /\ Sound' => nv_read_key(x, {}) \in {Item(idx[t]), Wrapped(t)}
      /\ Sound' => nv_read_key(x, {}) = Wrapped(t) \/ Wrapped(t).name \in lost'
  BY DEF Taken
<1>5. Val(Wrapped(t)) = Wrapped(t).val
  BY <1>3, BadAssumption DEF Val
<1>6. Others(t) /\ pc'[t] \in {"body", "exit"}
  BY <1>1, <1>2, Types DEF Others
<1>7. /\ EffectOf(t) /\ ShapeOf(t) /\ DoneOf(t) /\ at[t] \in DOMAIN todo[t]
      /\ todo[t] \in Seq([name : Names, val : Values])
      /\ Wrapped(t).name = todo[t][at[t]].name /\ Wrapped(t).val = todo[t][at[t]].val
  BY <1>1, <1>3 DEF ValueInv, TypeInv, Args, ArgsOf, Wrapped, Object
<1>8. ASSUME NEW s \in Threads \ {t} PROVE EffectOf(s)' /\ ShapeOf(s)' /\ DoneOf(s)'
  <2>1. pc[s] # "idle" => \A n \in Names : Effect(op[s], todo[s], n) \subseteq allowed'[n]
    BY <1>1 DEF ValueInv, EffectOf
  <2> QED BY <2>1, <1>3, <1>6, OtherKeeps
<1>9. EffectOf(t)' /\ ShapeOf(t)'
  <2>1. EffectOf(t)'
    BY <1>1, <1>7 DEF EffectOf
  <2>2. ShapeOf(t)'
    BY <1>1, <1>3, <1>6, <1>7 DEF ShapeOf
  <2> QED BY <2>1, <2>2
<1>10. ASSUME Sound'
       PROVE  /\ (Device => Readable # {})' /\ DeviceValued'
              /\ \A k \in Names : k # Wrapped(t).name =>
                   /\ Fetch(keyItem', ram, k) = Fetch(keyItem, ram, k)
                   /\ k \in lost \/ Fetch(keyItem, ram, k) \in allowed[k]
              /\ \/ Wrapped(t).name \in lost'
                 \/ Fetch(keyItem', ram, Wrapped(t).name) = Wrapped(t).val
              /\ Wrapped(t).val \in allowed[Wrapped(t).name]
  BY <1>1, <1>4, <1>5, <1>10, WriteValues
<1>11. Sound' => RamValued'
  BY <1>1, <1>10 DEF RamValued
<1>12. ASSUME Sound', NEW i \in DOMAIN todo[t], i <= at[t] PROVE InPlace(t, i)'
  <2>1. todo[t][i].name \in Names
    <3>1. todo[t][i] \in [name : Names, val : Values]
      BY <1>7, ElementType
    <3> QED BY <3>1
  <2>2. CASE todo[t][i].name = Wrapped(t).name
    <3>1. todo[t][i].val = Wrapped(t).val
      BY <1>3, <1>7 DEF ShapeOf
    <3> QED BY <3>1, <2>2, <1>1, <1>10, <1>12 DEF InPlace
  <2>3. CASE todo[t][i].name # Wrapped(t).name
    <3>1. i < at[t]
      <4>1. i \in Nat /\ at[t] \in Nat /\ i # at[t]
        BY <2>3, <1>7
      <4> QED BY <4>1, <1>12
    <3>2. InPlace(t, i)
      BY <3>1, <1>1, <1>3, <1>7, <1>12 DEF DoneOf
    <3> QED BY <3>2, <2>1, <2>3, <1>1, <1>10, <1>12 DEF InPlace
  <2> QED BY <2>2, <2>3
<1>13. DoneOf(t)'
  <2> SUFFICES ASSUME Sound', NEW i \in DOMAIN todo[t], pc'[t] = "body" => i < at'[t]
               PROVE  InPlace(t, i)'
    BY <1>1, <1>3, <1>6 DEF DoneOf, Writers
  <2>1. i \in Nat /\ at[t] \in Nat /\ i <= Len(todo[t]) /\ Len(todo[t]) \in Nat
    BY <1>7
  <2>2. i <= at[t]
    <3>1. CASE /\ at[t] < Len(todo[t]) /\ pc' = [pc EXCEPT ![t] = "body"]
               /\ at' = [at EXCEPT ![t] = @ + 1]
      <4>1. i < at[t] + 1
        BY <3>1, Types
      <4> QED BY <4>1, <2>1
    <3>2. CASE ~(at[t] < Len(todo[t]))
      BY <3>2, <2>1
    <3> QED BY <3>1, <3>2, <1>2
  <2> QED BY <2>2, <1>12
<1> QED BY <1>8, <1>9, <1>10, <1>11, <1>13 DEF ValueInv

\* The key is on the device, or an error has been dropped.
LEMMA KeyWrittenValues ==
  ASSUME Regime, TypeInv, Sound' => Sound, MapInv, ValueInv, NEW t \in Threads,
         KeyWritten(t) \/ KeyWriteDropped(t)
  PROVE  ValueInv'
<1>1. CASE KeyWritten(t)
  <2>1. PICK x : x = nv_write(keyItem[idx[t]], Wrapped(t))
    OBVIOUS
  <2>2. /\ WroteKey(t) /\ pc[t] = "wkey" /\ lost' = lost
        /\ keyItem' = [keyItem EXCEPT ![idx[t]] = x]
    BY <1>1, <2>1 DEF KeyWritten, WroteKey
  <2>3. nv_read_key(x, {}) = Wrapped(t)
    <3>1. idx[t] \in Items /\ keyItem[idx[t]] \in [raw : Keys, backup : Keys]
      BY <2>2, WrappedType
    <3> QED BY <2>1, <2>2, <3>1, WritesOwnItem, KeyReadBack
  <2> QED BY <2>2, <2>3, WroteKeyValues DEF Taken
<1>2. CASE KeyWriteDropped(t)
  <2>1. PICK x \in DroppedWrite(keyItem[idx[t]], Wrapped(t), TornKey, TornKey) :
          /\ keyItem' = [keyItem EXCEPT ![idx[t]] = x]
          /\ lost' = IF nv_read_key(x, {}) = Wrapped(t) THEN lost
                     ELSE lost \cup {todo[t][at[t]].name}
    BY <1>2 DEF KeyWriteDropped
  <2>2. WroteKey(t) /\ lost \subseteq lost'
    BY <1>2, <2>1 DEF KeyWriteDropped
  <2>3. Sound' => Taken(t, x, lost')
    BY <1>2, <2>1, DroppedTaken
  <2> QED BY <2>1, <2>2, <2>3, WroteKeyValues
<1> QED BY <1>1, <1>2

\* Before the first fault a key that is being written has not made the map dirty.
LEMMA CleanBeforeFault ==
  ASSUME Regime, TypeInv, MapInv, NEW t \in Threads, pc[t] = "wkey", faults = 0, faults < MaxFaults
  PROVE  ~dirty
<1>1. "batch" \notin Kinds
  BY DEF Regime, BatchUndisturbed
<1>2. op[t] = "write"
  BY <1>1, WritesOwnItem, Types DEF Writers
<1> QED BY <1>2 DEF MapInv, CallOf

\* The write of the key fails.
LEMMA KeyWriteFailsValues ==
  ASSUME Regime, TypeInv, Sound' => Sound, MapInv, ValueInv, NEW t \in Threads, KeyWriteFails(t)
  PROVE  ValueInv'
<1>0. PICK x \in FailedWrite(keyItem[idx[t]], Wrapped(t), TornKey, TornKey) :
        keyItem' = [keyItem EXCEPT ![idx[t]] = x]
  BY DEF KeyWriteFails
<1>1. /\ UNCHANGED <<mapItem, inited, ram, stage, op, todo, at, idx, wild, lost, allowed>>
      /\ pc[t] = "wkey" /\ faults < MaxFaults /\ faults' = faults + 1
      /\ dirty' = (dirty \/ FALSE)
      /\ bad' = [bad EXCEPT ![t] = TRUE] /\ pc' = [pc EXCEPT ![t] = "exit"]
  BY DEF KeyWriteFails, MarkDirty
<1>2. Others(t) /\ pc'[t] = "exit" /\ bad'[t] = TRUE
  BY <1>1, Types DEF Others
<1>3. dirty' = dirty
  BY <1>1 DEF TypeInv, TypeOK
<1>4. /\ Wrapped(t) \in Objects /\ Device /\ op[t] \in Writers /\ stage[t] = "main"
      /\ idx[t] \in DOMAIN ram /\ ram[idx[t]] = Wrapped(t).name
      /\ \A s \in Threads \ {t} : pc[s] \notin Inside
  BY <1>1, WritesOwnItem
<1>5. ASSUME NEW s \in Threads \ {t} PROVE EffectOf(s)' /\ ShapeOf(s)' /\ DoneOf(s)'
  <2>1. pc[s] # "idle" => \A n \in Names : Effect(op[s], todo[s], n) \subseteq allowed'[n]
    BY <1>1 DEF ValueInv, EffectOf
  <2> QED BY <2>1, <1>2, <1>4, OtherKeeps
<1>6. EffectOf(t)' /\ ShapeOf(t)' /\ DoneOf(t)'
  <2>0. EffectOf(t) /\ ShapeOf(t)
    BY DEF ValueInv
  <2>1. EffectOf(t)'
    BY <2>0, <1>1 DEF EffectOf
  <2>2. ShapeOf(t)'
    BY <2>0, <1>1, <1>2, <1>4 DEF ShapeOf
  <2>3. DoneOf(t)'
    BY <1>1, <1>2, <1>4 DEF DoneOf, Writers
  <2> QED BY <2>1, <2>2, <2>3
<1>7. ASSUME Sound' PROVE (Device => Readable # {})' /\ DeviceValued' /\ RamValued'
  <2>1. faults = 0 /\ Sound /\ CopiesAgree
    BY <1>1, <1>7, Types DEF MapInv, Sound
  <2>2. ~dirty
    BY <2>1, <1>1, CleanBeforeFault
  <2>3. idx[t] \in Items /\ keyItem[idx[t]] \in [raw : Keys, backup : Keys] /\ Same(keyItem[idx[t]])
    BY <2>1, <1>1, WrappedType DEF CopiesAgree
  <2>4. nv_read_key(x, {}) \in {Item(idx[t]), Wrapped(t)}
    BY <2>3, <1>0, <1>4, KeyOldOrNew DEF Item
  <2>5. /\ (Device => Readable # {})' /\ DeviceValued'
        /\ \A k \in Names : k # Wrapped(t).name =>
             /\ Fetch(keyItem', ram, k) = Fetch(keyItem, ram, k)
             /\ k \in lost \/ Fetch(keyItem, ram, k) \in allowed[k]
    BY <2>1, <2>4, <1>0, <1>1, WriteValues
  <2>6. RamValued'
    <3>1. PICK q : q = idx[t]
      OBVIOUS
    <3>2. Unwritten(t, q)'
      BY <3>1, <2>2, <1>1, <1>2, <1>3 DEF Unwritten, NeedsSave, ExitMode
    <3> QED BY <3>1, <3>2, <2>5, <1>1, <1>4 DEF RamValued
  <2> QED BY <2>5, <2>6
<1> QED BY <1>5, <1>6, <1>7 DEF ValueInv

\* After sunxi_secure_storage_exit the keys may have the values they might have before,
\* or, when the call reports success, the ones it has given them.
LEMMA LeaveAllows ==
  ASSUME TypeInv, ValueInv, NEW t \in Threads, pc[t] = "exit", NEW saved \in BOOLEAN,
         Leave(t, saved)
  PROVE  /\ \A n \in Names :
              \/ allowed'[n] = allowed[n]
              \/ /\ stage[t] = "main" /\ saved /\ ~bad[t] /\ op[t] \in Writers \cup {"erase"}
                 /\ Effect(op[t], todo[t], n) \subseteq allowed'[n]
                 /\ Effect(op[t], todo[t], n) # {}
         /\ \A s \in Threads \ {t} : pc[s] # "idle" =>
              \A n \in Names : Effect(op[s], todo[s], n) \subseteq allowed'[n]
         /\ stage[t] = "support" => allowed' = allowed
         /\ at'[t] = 1
<1>1. CASE stage[t] = "support"
  <2>1. allowed' = allowed /\ at' = at
    BY <1>1 DEF Leave, AfterExit
  <2>2. at'[t] = 1
    BY <2>1, <1>1 DEF ValueInv, ShapeOf
  <2> QED BY <2>1, <2>2 DEF ValueInv, EffectOf
<1>2. CASE stage[t] # "support"
  <2> DEFINE r == IF op[t] = "read" \/ (saved /\ ~bad[t]) THEN "ok" ELSE "fail"
             E(s, n) == Effect(op[s], todo[s], n)
  <2>0. stage[t] = "main"
    BY <1>2, Types
  <2>1. Return(t, r)
    BY <1>2 DEF Leave, AfterExit
  <2>2. at'[t] = 1
    BY <2>1, Types DEF Return
  <2>3. \A n \in Names : allowed'[n] =
          IF r = "ok" /\ E(t, n) # {} THEN E(t, n) \cup Pending(t, n) ELSE allowed[n]
    BY <2>1 DEF Return
  <2>4. \A n \in Names : r = "ok" /\ E(t, n) # {} =>
          saved /\ ~bad[t] /\ op[t] \in Writers \cup {"erase"}
    <3> SUFFICES ASSUME NEW n \in Names, r = "ok", E(t, n) # {}
                 PROVE  saved /\ ~bad[t] /\ op[t] \in Writers \cup {"erase"}
      OBVIOUS
    <3>1. op[t] \in Writers \cup {"erase"}
      BY EffectIs
    <3>2. op[t] # "read"
      BY <3>1 DEF Writers
    <3>3. saved /\ ~bad[t]
      BY <3>2
    <3> QED BY <3>1, <3>3
  <2> HIDE DEF r
  <2>5. \A s \in Threads \ {t} : pc[s] # "idle" => \A n \in Names : E(s, n) \subseteq Pending(t, n)
    BY DEF Pending
  <2>6. \A s \in Threads \ {t} : pc[s] # "idle" => \A n \in Names : E(s, n) \subseteq allowed[n]
    BY DEF ValueInv, EffectOf
  <2> HIDE DEF E
  <2>7. \A n \in Names :
          \/ allowed'[n] = allowed[n]
          \/ /\ stage[t] = "main" /\ saved /\ ~bad[t] /\ op[t] \in Writers \cup {"erase"}
             /\ E(t, n) \subseteq allowed'[n] /\ E(t, n) # {}
    BY <2>0, <2>3, <2>4
  <2>8. \A s \in Threads \ {t} : pc[s] # "idle" => \A n \in Names : E(s, n) \subseteq allowed'[n]
    BY <2>3, <2>5, <2>6
  <2> QED BY <2>2, <2>7, <2>8, <1>2 DEF E
<1> QED BY <1>1, <1>2

\* The threads after sunxi_secure_storage_exit.
LEMMA LeaveThreads ==
  ASSUME TypeInv, Sound' => Sound, MapInv, ValueInv, NEW t \in Threads, pc[t] = "exit",
         NEW saved \in BOOLEAN, Leave(t, saved), UNCHANGED <<op, todo>>
  PROVE  \A s \in Threads : EffectOf(s)' /\ ShapeOf(s)' /\ DoneOf(s)'
<1>1. /\ Others(t) /\ stage'[t] = "main"
      /\ pc'[t] = IF stage[t] = "support" THEN "init" ELSE "idle"
  BY LeaveMoves
<1>2. /\ at'[t] = 1 /\ (stage[t] = "support" => allowed' = allowed)
      /\ \A s \in Threads \ {t} : pc[s] # "idle" =>
           \A n \in Names : Effect(op[s], todo[s], n) \subseteq allowed'[n]
  BY LeaveAllows
<1>3. \A s \in Threads \ {t} : pc[s] \notin Inside
  BY AloneInside DEF Inside
<1>4. ASSUME NEW s \in Threads \ {t} PROVE EffectOf(s)' /\ ShapeOf(s)' /\ DoneOf(s)'
  BY <1>1, <1>2, <1>3, OtherKeeps
<1>5. EffectOf(t)' /\ ShapeOf(t)' /\ DoneOf(t)'
  <2>0. EffectOf(t) /\ ShapeOf(t)
    BY DEF ValueInv
  <2>1. EffectOf(t)'
    BY <2>0, <1>1, <1>2 DEF EffectOf
  <2>2. ShapeOf(t)'
    BY <2>0, <1>1, <1>2 DEF ShapeOf
  <2>3. DoneOf(t)'
    BY <1>1 DEF DoneOf
  <2> QED BY <2>1, <2>2, <2>3
<1> QED BY <1>4, <1>5

\* What a thread that is about to save the map would let a reader find.
LEMMA SavesValued ==
  ASSUME TypeInv, MapInv, ValueInv, Sound, NEW t \in Threads, pc[t] = "exit", NeedsSave(t)
  PROVE  \A n \in Names \ lost : Fetch(keyItem, ram, n) \in allowed[n]
<1>1. \A s \in Threads, p \in DOMAIN ram : ~Unwritten(s, p)
  <2> SUFFICES ASSUME NEW s \in Threads, NEW p \in DOMAIN ram PROVE ~Unwritten(s, p)
    OBVIOUS
  <2>1. CASE s = t
    BY <2>1 DEF Unwritten
  <2>2. CASE s # t
    <3>1. pc[s] \notin Inside
      BY <2>2, AloneInside DEF Inside
    <3> QED BY <3>1 DEF Unwritten, Inside
  <2> QED BY <2>1, <2>2
<1>2. RamValued
  BY DEF ValueInv, MapInv, CallOf, Inside
<1> QED BY <1>1, <1>2 DEF RamValued

\* A call that succeeds has made the map dirty, and given the keys their values in it.
LEMMA SuccessInPlace ==
  ASSUME Regime, TypeInv, MapInv, ValueInv, Sound, NEW t \in Threads, pc[t] = "exit",
         stage[t] = "main", ~bad[t], op[t] \in Writers \cup {"erase"},
         NEW n \in Names \ lost, Effect(op[t], todo[t], n) # {}
  PROVE  dirty /\ Fetch(keyItem, ram, n) \in Effect(op[t], todo[t], n)
<1>1. DoneOf(t)
  BY DEF ValueInv
<1>2. CASE op[t] = "erase"
  <2>1. ram = <<>> /\ dirty
    BY <1>1, <1>2 DEF DoneOf
  <2>2. Fetch(keyItem, <<>>, n) = BAD
    BY FetchEmpty DEF Regime
  <2> QED BY <2>1, <2>2, <1>2, EffectIs
<1>3. CASE op[t] \in Writers
  <2>1. dirty /\ \A i \in DOMAIN todo[t] : InPlace(t, i)
    BY <1>1, <1>3 DEF DoneOf
  <2>2. PICK i \in DOMAIN todo[t] :
          todo[t][i].name = n /\ todo[t][i].val \in Effect(op[t], todo[t], n)
    BY <1>3, EffectIs
  <2> QED BY <2>1, <2>2 DEF InPlace
<1> QED BY <1>2, <1>3

\* The map in memory has become the one on the device.
LEMMA SavedValues ==
  ASSUME Regime, TypeInv, MapInv, ValueInv, Sound, NEW t \in Threads, pc[t] = "exit", NeedsSave(t),
         Leave(t, TRUE), keyItem' = keyItem, lost' = lost,
         nv_read_map(mapItem', {}) = {Loaded(ram)}
  PROVE  (Device => Readable # {})' /\ DeviceValued'
<1>2. \A n \in Names :
        \/ allowed'[n] = allowed[n]
        \/ /\ stage[t] = "main" /\ ~bad[t] /\ op[t] \in Writers \cup {"erase"}
           /\ Effect(op[t], todo[t], n) \subseteq allowed'[n]
           /\ Effect(op[t], todo[t], n) # {}
  BY LeaveAllows
<1>3. \A n \in Names \ lost : Fetch(keyItem, ram, n) \in allowed[n]
  BY SavesValued
<1>4. Readable' # {} /\ \A m \in Readable' : m.names = ram
  <2>1. Loaded(ram).names = ram /\ Loaded(ram).wild = FALSE
    BY DEF Loaded
  <2>2. Loaded(ram) \in Readable' /\ \A m \in Readable' : m = Loaded(ram)
    BY <2>1 DEF Readable
  <2> QED BY <2>1, <2>2
<1>5. \A n \in Names \ lost : Fetch(keyItem, ram, n) \in allowed'[n]
  <2> SUFFICES ASSUME NEW n \in Names \ lost PROVE Fetch(keyItem, ram, n) \in allowed'[n]
    OBVIOUS
  <2>1. CASE allowed'[n] = allowed[n]
    BY <2>1, <1>3
  <2>2. CASE /\ stage[t] = "main" /\ ~bad[t] /\ op[t] \in Writers \cup {"erase"}
             /\ Effect(op[t], todo[t], n) \subseteq allowed'[n]
             /\ Effect(op[t], todo[t], n) # {}
    BY <2>2, SuccessInPlace
  <2> QED BY <2>1, <2>2, <1>2
<1> QED BY <1>4, <1>5 DEF DeviceValued

\* There is nothing to save, or the map is saved.
LEMMA ExitValues ==
  ASSUME Regime, TypeInv, Sound' => Sound, MapInv, ValueInv, NEW t \in Threads,
         ExitClean(t) \/ ExitSaves(t)
  PROVE  ValueInv'
<1>1. /\ UNCHANGED <<keyItem, ram, op, todo, faults, wild, lost>>
      /\ pc[t] = "exit" /\ Leave(t, TRUE)
  BY DEF ExitClean, ExitSaves, disk
<1>2. \A s \in Threads : EffectOf(s)' /\ ShapeOf(s)' /\ DoneOf(s)'
  BY <1>1, LeaveThreads
<1>3. ~inited'
  BY <1>1, LeaveMoves
<1>4. \A n \in Names :
        \/ allowed'[n] = allowed[n]
        \/ /\ stage[t] = "main" /\ ~bad[t] /\ op[t] \in Writers \cup {"erase"}
           /\ Effect(op[t], todo[t], n) \subseteq allowed'[n]
           /\ Effect(op[t], todo[t], n) # {}
  BY <1>1, LeaveAllows
<1>5. ASSUME Sound' PROVE (Device => Readable # {})' /\ DeviceValued'
  <2>1. Sound /\ (Device => Readable # {}) /\ DeviceValued
    BY <1>5 DEF ValueInv
  <2>2. CASE ExitClean(t)
    <3>1. mapItem' = mapItem /\ ~NeedsSave(t)
      BY <2>2 DEF ExitClean, disk
    <3>2. \A n \in Names \ lost : allowed'[n] = allowed[n]
      <4> SUFFICES ASSUME NEW n \in Names \ lost, allowed'[n] # allowed[n] PROVE FALSE
        OBVIOUS
      <4>1. /\ stage[t] = "main" /\ ~bad[t] /\ op[t] \in Writers \cup {"erase"}
            /\ Effect(op[t], todo[t], n) # {}
        BY <1>4
      <4>2. dirty
        BY <4>1, <2>1, <1>1, SuccessInPlace
      <4> QED BY <4>2, <3>1 DEF NeedsSave
    <3> QED BY <3>1, <3>2, <2>1, <1>1 DEF Device, Readable, DeviceValued
  <2>3. CASE ExitSaves(t)
    <3>1. mapItem' = nv_write(mapItem, GoodMap(ram)) /\ NeedsSave(t)
      BY <2>3 DEF ExitSaves
    <3>2. Device
      BY <3>1, <2>1, <1>1, SavesOwned
    <3>3. nv_read_map(mapItem', {}) = {Loaded(ram)}
      BY <3>1, <3>2, MapReadBack
    <3> QED BY <3>1, <3>3, <2>1, <1>1, SavedValues
  <2> QED BY <2>2, <2>3
<1> QED BY <1>2, <1>3, <1>5 DEF ValueInv

\* A save that fails or is cut off leaves the values of the old or the new map.
LEMMA SaveValues ==
  ASSUME TypeInv, MapInv, ValueInv, Sound, faults = 0, NEW t \in Threads, pc[t] = "exit",
         NeedsSave(t), keyItem' = keyItem, lost \subseteq lost',
         \A n \in Names \ lost' : allowed'[n] = allowed[n],
         mapItem' \in
           FailedWrite(mapItem, GoodMap(ram), TornMap(mapItem.raw, GoodMap(ram)),
                       TornMap(mapItem.backup, GoodMap(ram)))
           \cup
           CutWrite(mapItem, GoodMap(ram), TornMap(mapItem.raw, GoodMap(ram)),
                    TornMap(mapItem.backup, GoodMap(ram)))
  PROVE  (Device => Readable # {})' /\ DeviceValued'
<1>1. \A m \in Readable' : m \in Readable \/ m = Loaded(ram)
  BY SaveOldOrNew
<1>2. \A n \in Names \ lost : Fetch(keyItem, ram, n) \in allowed[n]
  BY SavesValued
<1>3. DeviceValued
  BY DEF ValueInv
<1>4. DeviceValued'
  <2> SUFFICES ASSUME NEW m \in Readable', NEW n \in Names \ lost'
               PROVE  Fetch(keyItem', m.names, n) \in allowed'[n]
    BY DEF DeviceValued
  <2>1. CASE m \in Readable
    BY <2>1, <1>3 DEF DeviceValued
  <2>2. CASE m = Loaded(ram)
    BY <2>2, <1>2 DEF Loaded
  <2> QED BY <2>1, <2>2, <1>1
<1>5. Readable' # {}
  <2> DEFINE t0 == TornMap(mapItem.raw, GoodMap(ram))
             t1 == TornMap(mapItem.backup, GoodMap(ram))
             x  == mapItem'
  <2>1. x \in FailedWrite(mapItem, GoodMap(ram), t0, t1) \cup CutWrite(mapItem, GoodMap(ram), t0, t1)
    OBVIOUS
  <2>2. /\ mapItem \in [raw : FitMaps, backup : FitMaps]
        /\ Device /\ Same(mapItem) /\ mapItem.raw.st # "badcrc"
    BY SavesOwned, Types DEF MapInv, CopiesAgree
  <2>3. t0 = TornMap(mapItem.raw, GoodMap(ram)) /\ t1 = TornMap(mapItem.backup, GoodMap(ram))
    OBVIOUS
  <2> HIDE DEF t0, t1, x
  <2>4. nv_read_map(x, {}) # {}
    BY <2>1, <2>2, <2>3, MapStaysReadable
  <2>5. \A m \in nv_read_map(x, {}) : m = Loaded(mapItem.raw.names) \/ m = Loaded(ram)
    BY <2>1, <2>2, <2>3, MapOldOrNew
  <2>6. \A m \in nv_read_map(x, {}) : ~m.wild
    BY <2>5 DEF Loaded
  <2> QED BY <2>4, <2>6 DEF Readable, x
<1> QED BY <1>4, <1>5

\* The save fails: the call does not report success.
LEMMA ExitFailsValues ==
  ASSUME TypeInv, Sound' => Sound, MapInv, ValueInv, NEW t \in Threads, ExitFails(t)
  PROVE  ValueInv'
<1>1. /\ UNCHANGED <<keyItem, ram, op, todo, wild, lost>>
      /\ pc[t] = "exit" /\ NeedsSave(t) /\ faults' = faults + 1 /\ Leave(t, FALSE)
      /\ mapItem' \in FailedWrite(mapItem, GoodMap(ram), TornMap(mapItem.raw, GoodMap(ram)),
                                  TornMap(mapItem.backup, GoodMap(ram)))
  BY DEF ExitFails
<1>2. \A s \in Threads : EffectOf(s)' /\ ShapeOf(s)' /\ DoneOf(s)'
  BY <1>1, LeaveThreads
<1>3. \A n \in Names : allowed'[n] = allowed[n]
  BY <1>1, LeaveAllows
<1>4. ASSUME Sound' PROVE (Device => Readable # {})' /\ DeviceValued' /\ RamValued'
  <2>1. faults = 0 /\ Sound
    BY <1>1, <1>4, Types DEF Sound
  <2>2. (Device => Readable # {})' /\ DeviceValued'
    BY <2>1, <1>1, <1>3, SaveValues
  <2>3. \A n \in Names \ lost : Fetch(keyItem, ram, n) \in allowed[n]
    BY <2>1, <1>1, SavesValued
  <2> QED BY <2>2, <2>3, <1>1, <1>3 DEF RamValued
<1> QED BY <1>2, <1>4 DEF ValueInv

\* An error is dropped when the map is saved: what the call has done is on the device, or
\* its keys are lost and the others as they were.
LEMMA ExitDroppedValues ==
  ASSUME Regime, TypeInv, Sound' => Sound, MapInv, ValueInv, NEW t \in Threads, ExitDropped(t)
  PROVE  ValueInv'
<1>1. /\ UNCHANGED <<keyItem, ram, op, todo, wild>> /\ lost \subseteq lost'
      /\ pc[t] = "exit" /\ NeedsSave(t) /\ faults' = faults + 1 /\ Leave(t, TRUE)
      /\ mapItem' \in DroppedWrite(mapItem, GoodMap(ram), TornMap(mapItem.raw, GoodMap(ram)),
                                   TornMap(mapItem.backup, GoodMap(ram)))
      /\ lost' = IF nv_read_map(mapItem', {}) = {Loaded(ram)} THEN lost ELSE lost \cup Touched(t)
  BY DEF ExitDropped
<1>2. \A s \in Threads : EffectOf(s)' /\ ShapeOf(s)' /\ DoneOf(s)'
  BY <1>1, LeaveThreads
<1>3. ~inited'
  BY <1>1, LeaveMoves
<1>4. ASSUME Sound' PROVE (Device => Readable # {})' /\ DeviceValued'
  <2>1. faults = 0 /\ Sound
    BY <1>1, <1>4, Types DEF Sound
  <2>2. CASE nv_read_map(mapItem', {}) = {Loaded(ram)}
    BY <2>1, <2>2, <1>1, SavedValues
  <2>3. CASE nv_read_map(mapItem', {}) # {Loaded(ram)}
    <3>1. mapItem' \in CutWrite(mapItem, GoodMap(ram), TornMap(mapItem.raw, GoodMap(ram)),
                               TornMap(mapItem.backup, GoodMap(ram)))
      BY <1>1, DroppedIsCut
    <3>2. ASSUME NEW n \in Names \ lost' PROVE allowed'[n] = allowed[n]
      <4>1. Effect(op[t], todo[t], n) = {}
        BY <2>3, <1>1 DEF Touched
      <4> QED BY <4>1, <1>1, LeaveAllows
    <3> QED BY <3>1, <3>2, <2>1, <1>1, SaveValues
  <2> QED BY <2>2, <2>3
<1> QED BY <1>2, <1>3, <1>4 DEF ValueInv

\* The process ends: the device keeps its values.
LEMMA CrashValues ==
  ASSUME Regime, TypeInv, Sound' => Sound, MapInv, ValueInv,
         Restart \/ \E t \in Threads : CutKeyWrite(t) \/ CutMapWrite(t)
  PROVE  ValueInv'
<1>1. Reboot
  BY DEF Restart, CutKeyWrite, CutMapWrite
<1>2. ~inited' /\ allowed' = allowed /\ lost' = lost
  BY <1>1 DEF Reboot
<1>3. \A s \in Threads : EffectOf(s)' /\ ShapeOf(s)' /\ DoneOf(s)'
  BY <1>1 DEF Reboot, EffectOf, ShapeOf, DoneOf, Writers
<1>4. ASSUME Sound' PROVE (Device => Readable # {})' /\ DeviceValued'
  <2>1. Sound /\ CopiesAgree /\ (Device => Readable # {}) /\ DeviceValued
    BY <1>4 DEF MapInv, ValueInv
  <2>2. CASE Restart
    <3>1. mapItem' = mapItem /\ keyItem' = keyItem
      BY <2>2 DEF Restart, disk
    <3> QED BY <3>1, <2>1, <1>2 DEF Device, Readable, DeviceValued
  <2>3. ASSUME NEW t \in Threads, CutKeyWrite(t) PROVE (Device => Readable # {})' /\ DeviceValued'
    <3>1. PICK x \in CutWrite(keyItem[idx[t]], Wrapped(t), TornKey, TornKey) :
            keyItem' = [keyItem EXCEPT ![idx[t]] = x]
      BY <2>3 DEF CutKeyWrite
    <3>2. pc[t] = "wkey" /\ faults' = faults + 1 /\ mapItem' = mapItem
      BY <2>3 DEF CutKeyWrite
    <3>3. faults = 0
      BY <3>2, <1>4, Types DEF Sound
    <3>4. /\ idx[t] \in Items /\ keyItem[idx[t]] \in [raw : Keys, backup : Keys]
          /\ Same(keyItem[idx[t]])
      BY <3>2, <3>3, <2>1, WrappedType DEF CopiesAgree
    <3>5. nv_read_key(x, {}) \in {Item(idx[t]), Wrapped(t)}
      BY <3>1, <3>2, <3>4, WritesOwnItem, KeyOldOrNew DEF Item
    <3> QED BY <3>1, <3>2, <3>5, <2>1, <1>2, WriteValues
  <2>4. ASSUME NEW t \in Threads, CutMapWrite(t) PROVE (Device => Readable # {})' /\ DeviceValued'
    <3>1. /\ pc[t] = "exit" /\ NeedsSave(t) /\ faults' = faults + 1 /\ keyItem' = keyItem
          /\ mapItem' \in CutWrite(mapItem, GoodMap(ram), TornMap(mapItem.raw, GoodMap(ram)),
                                   TornMap(mapItem.backup, GoodMap(ram)))
      BY <2>4 DEF CutMapWrite
    <3>2. faults = 0
      BY <3>1, <1>4, Types DEF Sound
    <3> QED BY <3>1, <3>2, <2>1, <1>2, SaveValues
  <2> QED BY <2>2, <2>3, <2>4
<1> QED BY <1>2, <1>3, <1>4 DEF ValueInv

\* A device as it leaves the factory.
LEMMA InitValued == Regime /\ Init => ValueInv
<1> SUFFICES ASSUME Regime, Init PROVE ValueInv
  OBVIOUS
<1>1. PICK m \in Factory, v \in Values \ BigValues : Provisioned(m, v)
  BY DEF Init
<1>2. /\ mapItem = Both(m) /\ m \in [st : {"good", "nomagic"}, names : Seq(Names)]
      /\ Len(m.names) < MaxItem
      /\ keyItem = [i \in Items |->
           IF i \in DOMAIN m.names THEN Both(Object(m.names[i], v, FactoryWP)) ELSE Both(BAD)]
      /\ allowed = [n \in Names |->
           IF \E i \in DOMAIN m.names : m.names[i] = n THEN {v} ELSE {BAD}]
  BY <1>1, FactoryAssumption DEF Provisioned
<1>3. ~inited /\ \A s \in Threads : EffectOf(s) /\ ShapeOf(s) /\ DoneOf(s)
  BY DEF Init, EffectOf, ShapeOf, DoneOf, Writers
<1>4. Device => nv_read_map(mapItem, {}) = {Loaded(m.names)}
  <2>1. TypeInv
    BY InitTypeInv
  <2>2. Device => nv_read_map(mapItem, {}) = {Loaded(mapItem.raw.names)}
    BY <2>1, <1>2, MapRead, Types DEF Same, Both
  <2> QED BY <2>2, <1>2 DEF Both
<1>5. ASSUME NEW r \in Readable, NEW n \in Names PROVE Fetch(keyItem, r.names, n) \in allowed[n]
  <2>1. Device
    BY DEF Readable, nv_read_map, Device
  <2>2. r.names = m.names
    BY <2>1, <1>4 DEF Readable, Loaded
  <2> DEFINE p == probe_name_in_map(m.names, n)
  <2>3. FirstEntry(m.names, n, p) /\ m.names \in Seq(Names)
    BY <1>2, ProbeFinds DEF Regime
  <2> HIDE DEF p
  <2>4. Fetch(keyItem, m.names, n) = IF p = 0 THEN BAD ELSE Val(nv_read_key(keyItem[p], {}))
    BY <2>3, FetchIs DEF Regime
  <2>5. CASE p = 0
    <3>1. 0 \notin DOMAIN m.names
      BY <2>3
    <3>2. \A q \in DOMAIN m.names : m.names[q] # n
      BY <3>1, <2>3, <2>5 DEF FirstEntry
    <3>3. allowed[n] = {BAD}
      BY <3>2, <1>2
    <3> QED BY <3>3, <2>2, <2>4, <2>5
  <2>6. CASE p # 0
    <3>1. p \in DOMAIN m.names /\ m.names[p] = n
      BY <2>3, <2>6 DEF FirstEntry
    <3>2. p \in Items
      <4>1. p \in 1 .. Len(m.names) /\ Len(m.names) \in Nat
        BY <3>1, <2>3
      <4> QED BY <4>1, <1>2, ConstantTypes DEF Items
    <3>3. Object(n, v, FactoryWP) \in Objects
      BY ConstantsAssumption DEF Object, Objects
    <3>4. keyItem[p] = Both(Object(n, v, FactoryWP))
      BY <3>1, <3>2, <1>2
    <3>5. nv_read_key(keyItem[p], {}) = Object(n, v, FactoryWP)
      BY <2>1, <3>3, <3>4, BadAssumption DEF nv_read_key, Device, Both, sd_read, nand_read
    <3>6. Val(Object(n, v, FactoryWP)) = v
      BY <3>3, BadAssumption DEF Val, Object
    <3>7. allowed[n] = {v}
      BY <3>1, <1>2
    <3> QED BY <3>5, <3>6, <3>7, <2>2, <2>4, <2>6
  <2> QED BY <2>5, <2>6
<1>6. Device => Readable # {}
  <2>1. Loaded(m.names).wild = FALSE
    BY DEF Loaded
  <2>2. Device => Loaded(m.names) \in Readable
    BY <2>1, <1>4 DEF Readable
  <2> QED BY <2>2
<1> QED BY <1>3, <1>5, <1>6 DEF ValueInv, DeviceValued

\* Every step keeps the invariant of the values.
LEMMA NextValues ==
  ASSUME Regime, TypeInv, MapInv, ValueInv, [Next]_vars
  PROVE  ValueInv'
<1>1. TypeInv' /\ (Sound' => Sound)
  BY NextTypes, SoundBefore
<1>2. CASE UNCHANGED vars
  BY <1>2 DEF vars, ValueInv, EffectOf, ShapeOf, DoneOf, InPlace, Device, Sound, DeviceValued,
       Readable, RamValued, Unwritten, NeedsSave, ExitMode
<1>3. CASE Restart \/ \E t \in Threads : CutKeyWrite(t) \/ CutMapWrite(t)
  BY <1>1, <1>3, CrashValues
<1>4. ASSUME NEW t \in Threads, Call(t) \/ Step(t) PROVE ValueInv'
  <2>1. CASE Call(t)
    BY <2>1, <1>1, CallValues
  <2>2. CASE InitLoaded(t) \/ InitLoads(t)
    BY <2>2, <1>1, InitValues
  <2>3. CASE InitFails(t) \/ sunxi_secure_object_read(t) \/ sunxi_secure_object_list(t)
    BY <2>3, <1>1, NothingWrittenValues
  <2>4. CASE sunxi_secure_object_write(t) \/ sunxi_secure_object_erase(t)
    BY <2>4, <1>1, ObjectWriteValues, EraseValues
  <2>5. CASE KeyWritten(t) \/ KeyWriteDropped(t) \/ KeyWriteFails(t)
    BY <2>5, <1>1, KeyWrittenValues, KeyWriteFailsValues
  <2>6. CASE ExitClean(t) \/ ExitSaves(t) \/ ExitDropped(t) \/ ExitFails(t)
    BY <2>6, <1>1, ExitValues, ExitDroppedValues, ExitFailsValues
  <2> QED BY <2>1, <2>2, <2>3, <2>4, <2>5, <2>6, <1>4
       DEF Step, sunxi_secure_storage_init, sunxi_secure_storage_exit
<1> QED BY <1>2, <1>3, <1>4 DEF Next

\* Fetch is Stored.
LEMMA FetchIsStored ==
  ASSUME NEW m, NEW n
  PROVE  Fetch(keyItem, m, n) = Stored(m, n)
BY DEF Fetch, Stored, Lookup, Val

\* A step of a thread moves that thread only.
LEMMA StepMoves ==
  ASSUME NEW s \in Threads, Call(s) \/ Step(s)
  PROVE  \E loc : pc' = [pc EXCEPT ![s] = loc]
<1>1. CASE Call(s)
  BY <1>1 DEF Call
<1>2. CASE sunxi_secure_storage_init(s)
  BY <1>2 DEF sunxi_secure_storage_init, InitLoaded, InitLoads, InitFails, InitDone, Return
<1>3. CASE sunxi_secure_object_write(s) \/ KeyWritten(s) \/ KeyWriteDropped(s)
           \/ KeyWriteFails(s)
  BY <1>3 DEF sunxi_secure_object_write, KeyWritten, KeyWriteDropped, WroteKey, KeyWriteFails
<1>4. CASE sunxi_secure_object_read(s) \/ sunxi_secure_object_erase(s) \/ sunxi_secure_object_list(s)
  BY <1>4 DEF sunxi_secure_object_read, sunxi_secure_object_erase, sunxi_secure_object_list, Return
<1>5. CASE sunxi_secure_storage_exit(s)
  BY <1>5 DEF sunxi_secure_storage_exit, ExitClean, ExitSaves, ExitDropped, ExitFails, Leave,
                 AfterExit, Return
<1> QED BY <1>1, <1>2, <1>3, <1>4, <1>5 DEF Step

\* The step that takes a thread from the body of a read to its exit is the read.
LEMMA BodyReads ==
  ASSUME TypeInv, MapInv, Next, NEW t \in Threads, pc[t] = "body", op[t] = "read", pc'[t] = "exit"
  PROVE  sunxi_secure_object_read(t)
<1>1. ~Reboot
  BY DEF Reboot
<1>2. PICK s \in Threads : Call(s) \/ Step(s)
  BY <1>1 DEF Next, Restart, CutKeyWrite, CutMapWrite
<1>3. ASSUME s # t PROVE pc'[t] = pc[t]
  <2>1. \E loc : pc' = [pc EXCEPT ![s] = loc]
    BY <1>2, StepMoves
  <2> QED BY <2>1, <1>3, Types
<1>4. s = t
  BY <1>3
<1>5. ~Call(t) /\ ~sunxi_secure_storage_init(t) /\ ~WroteKey(t) /\ ~KeyWriteFails(t)
  BY DEF Call, sunxi_secure_storage_init, InitLoaded, InitLoads, InitFails, WroteKey, KeyWriteFails
<1>6. ~sunxi_secure_storage_exit(t) /\ ~sunxi_secure_object_write(t)
  BY DEF sunxi_secure_storage_exit, ExitClean, ExitSaves, ExitDropped, ExitFails,
         sunxi_secure_object_write, Writers
<1>7. ~sunxi_secure_object_erase(t) /\ ~sunxi_secure_object_list(t)
  BY DEF sunxi_secure_object_erase, sunxi_secure_object_list
<1> QED BY <1>2, <1>4, <1>5, <1>6, <1>7 DEF Step, KeyWritten, KeyWriteDropped

\* While at most one fault has hit a device nv_read handles, the value a restarted process
\* reads for a key is the last one whose write was carried out and reported success, or
\* one of a write or an erase that has been started since: no failed read, no failed write,
\* reported or not, and no power cut, at whatever point of whatever calls, loses a key.  A
\* write error that fsync reported and the code dropped (secure_storage.c:550) may leave the
\* keys of that one call as they were although the call reports success; no other key.
THEOREM KeysSurvive == Regime /\ Device => (Spec => []AckedKeysSurvive)
<1> SUFFICES ASSUME Regime, Device PROVE Spec => []AckedKeysSurvive
  OBVIOUS
<1> DEFINE Inv == TypeInv /\ MapInv /\ ValueInv
<1>1. Init => Inv
  BY InitTypeInv, InitKeeps, InitValued
<1>2. Inv /\ [Next]_vars => Inv'
  BY NextTypes, NextKeeps, NextValues
<1>3. Inv => AckedKeysSurvive
  <2> SUFFICES ASSUME Inv, Sound, NEW n \in Names \ lost PROVE DeviceValues(n) \subseteq allowed[n]
    BY DEF AckedKeysSurvive
  <2>1. Readable # {} /\ DeviceValued
    BY DEF ValueInv
  <2>2. nv_read_map(mapItem, {}) # {}
    BY <2>1 DEF Readable
  <2>3. DeviceValues(n) = {Stored(m.names, n) : m \in Readable}
    BY <2>2 DEF DeviceValues, Readable
  <2> QED BY <2>1, <2>3, FetchIsStored DEF DeviceValued
<1> QED BY <1>1, <1>2, <1>3, PTL DEF Spec

\* A read finds a value the key may have, also when one copy of the item or of the map
\* cannot be read: on a device with one copy of each, if nothing fails.
THEOREM ReadsFindAllowed ==
  Regime /\ (Flash = "SD" \/ MaxFaults = 0) => (Spec => ReadsAllowed)
<1> SUFFICES ASSUME Regime, Flash = "SD" \/ MaxFaults = 0 PROVE Spec => ReadsAllowed
  OBVIOUS
<1> DEFINE Inv == TypeInv /\ MapInv /\ ValueInv
           Reads == \A t \in Threads :
             pc[t] = "body" /\ op[t] = "read" /\ pc'[t] = "exit" /\ Sound' /\ todo[t][1].name \notin lost =>
               (IF got'[t] = BAD THEN BAD ELSE got'[t].val) \in allowed[todo[t][1].name]
<1>1. Init => Inv
  BY InitTypeInv, InitKeeps, InitValued
<1>2. Inv /\ [Next]_vars => Inv'
  BY NextTypes, NextKeeps, NextValues
<1>3. Inv /\ [Next]_vars => [Reads]_vars
  <2> SUFFICES ASSUME Inv, Next, NEW t \in Threads, pc[t] = "body", op[t] = "read",
                      pc'[t] = "exit", Sound', todo[t][1].name \notin lost
               PROVE  Val(got'[t]) \in allowed[todo[t][1].name]
    BY DEF Val
  <2>1. sunxi_secure_object_read(t)
    BY BodyReads
  <2> DEFINE n == todo[t][1].name
             p == probe_name_in_map(ram, n)
  <2>2. PICK u \in SUBSET Copies :
          /\ faults' = faults + Cardinality(u) /\ faults' <= MaxFaults
          /\ got' = [got EXCEPT ![t] = IF p = 0 THEN BAD ELSE nv_read_key(keyItem[p], u)]
    BY <2>1 DEF sunxi_secure_object_read
  <2>3. got'[t] = IF p = 0 THEN BAD ELSE nv_read_key(keyItem[p], u)
    BY <2>2 DEF TypeInv, TypeOK
  <2>4. Sound /\ CopiesAgree /\ inited /\ RamValued
    BY SoundBefore DEF MapInv, CallOf, Inside, ValueInv
  <2>5. n \in Names
    <3>1. todo[t] \in Seq([name : Names, val : Values \cup {BAD}]) /\ 1 \in DOMAIN todo[t]
      BY Types DEF TypeInv, Args, ArgsOf
    <3>2. todo[t][1] \in [name : Names, val : Values \cup {BAD}]
      BY <3>1, ElementType
    <3> QED BY <3>2
  <2>6. Fetch(keyItem, ram, n) \in allowed[n]
    <3>1. \A s \in Threads, q \in DOMAIN ram : ~Unwritten(s, q)
      BY AloneInside DEF Unwritten, Inside
    <3> QED BY <3>1, <2>4, <2>5 DEF RamValued
  <2>7. p \in DOMAIN ram \cup {0}
    BY <2>5, ProbeRange, Types
  <2>8. p # 0 => nv_read_key(keyItem[p], u) = nv_read_key(keyItem[p], {})
    <3> SUFFICES ASSUME p # 0, u # {}
                 PROVE  nv_read_key(keyItem[p], u) = nv_read_key(keyItem[p], {})
      OBVIOUS
    <3>1. Cardinality(u) \in Nat /\ Cardinality(u) # 0 /\ (u = Copies => Cardinality(u) = 2)
      BY FaultCount
    <3>2. faults \in Nat /\ faults' <= 1 /\ MaxFaults \in Nat
      BY Types, ConstantTypes DEF Sound
    <3>3. faults = 0 /\ u # Copies /\ MaxFaults # 0
      BY <3>1, <3>2, <2>2
    <3>4. p \in Items
      BY <2>7, Types
    <3>5. keyItem[p] \in [raw : Keys, backup : Keys] /\ keyItem[p].raw = keyItem[p].backup
      BY <3>3, <3>4, <2>4, Types DEF CopiesAgree, Same
    <3> QED BY <3>3, <3>5, KeyReread
  <2>9. Val(got'[t]) = Fetch(keyItem, ram, n)
    <3>1. CASE p = 0
      BY <3>1, <2>3 DEF Fetch, Val
    <3>2. CASE p # 0
      BY <3>2, <2>3, <2>8 DEF Fetch
    <3> QED BY <3>1, <3>2
  <2> QED BY <2>6, <2>9
<1> QED BY <1>1, <1>2, <1>3, PTL DEF Spec, ReadsAllowed

-----------------------------------------------------------------------------
(* The mutex, with sunxi_secure_object_list: its early returns, which keep the *)
(* mutex, are out of reach of one fault.                                       *)

\* Where a read has a second copy or nothing fails, one fault does not keep a key of
\* the map in memory from being read.
LEMMA ListReads ==
  ASSUME TypeInv, MapInv, Sound, inited, Flash = "SD" \/ MaxFaults = 0,
         NEW u \in SUBSET Copies, faults + Cardinality(u) <= 1,
         faults + Cardinality(u) <= MaxFaults,
         NEW p \in DOMAIN ram, \A s \in Threads : ~Unwritten(s, p)
  PROVE  nv_read_key(keyItem[p], u) # BAD /\ nv_read_key(keyItem[p], {}) # BAD
<1>1. p \in Items /\ faults \in Nat /\ MaxFaults \in Nat
  BY Types, ConstantTypes
<1>2. nv_read_key(keyItem[p], {}) # BAD
  <2>1. MaxFaults = 0 => faults = 0
    BY <1>1, FaultCount
  <2>2. Owns(ram, p) /\ CopiesAgree
    BY DEF MapInv, RamOwns
  <2> QED BY <2>1, <2>2 DEF Owns, Item, CopiesAgree
<1>3. ASSUME u # {} PROVE nv_read_key(keyItem[p], u) = nv_read_key(keyItem[p], {})
  <2>1. Cardinality(u) \in Nat /\ Cardinality(u) # 0 /\ (u = Copies => Cardinality(u) = 2)
    BY <1>3, FaultCount
  <2>2. faults = 0 /\ u # Copies /\ MaxFaults # 0
    BY <1>1, <2>1
  <2>3. keyItem[p] \in [raw : Keys, backup : Keys] /\ keyItem[p].raw = keyItem[p].backup
    BY <1>1, <2>2, Types DEF MapInv, CopiesAgree, Same
  <2> QED BY <2>2, <2>3, KeyReread
<1> QED BY <1>2, <1>3

\* A list that leaves the device sound has read every key and goes on to
\* sunxi_secure_storage_exit.
LEMMA ListMoves ==
  ASSUME NamesApart, Flash = "SD" \/ MaxFaults = 0, TypeInv, MapInv, Sound, Sound',
         NEW t \in Threads, sunxi_secure_object_list(t)
  PROVE  Stays(t)
<1>1. pc[t] = "body" /\ mutex' = mutex /\ inited
  BY DEF sunxi_secure_object_list, memory, MapInv, CallOf, Inside
<1>2. PICK u \in SUBSET Copies, i \in Items :
        /\ faults' = faults + Cardinality(u) /\ faults' <= MaxFaults
        /\ IF \A p \in DOMAIN ram :
                /\ ram[p] \notin LongNames
                /\ nv_read_key(keyItem[p], IF p = i THEN u ELSE {}) # BAD
           THEN pc' = [pc EXCEPT ![t] = "exit"]
           ELSE Return(t, "fail")
  BY Zenon DEF sunxi_secure_object_list
<1>3. \A s \in Threads, p \in DOMAIN ram : ~Unwritten(s, p)
  BY <1>1, AloneInside DEF Unwritten, Inside
<1>4. faults + Cardinality(u) <= 1 /\ faults + Cardinality(u) <= MaxFaults
  BY <1>2 DEF Sound
<1>5. ASSUME NEW p \in DOMAIN ram
      PROVE  ram[p] \notin LongNames /\ nv_read_key(keyItem[p], IF p = i THEN u ELSE {}) # BAD
  BY <1>1, <1>3, <1>4, ListReads DEF NamesApart
<1>6. pc' = [pc EXCEPT ![t] = "exit"]
  BY <1>2, <1>5
<1> QED BY <1>1, <1>6 DEF Stays, Moves, Inside

\* sec_mutex is held exactly between init and exit also when keys are listed, as long as
\* at most one fault has hit the device: sunxi_secure_object_list returns early, with the
\* mutex, only at a key that cannot be read from either copy (secure_storage.c:1056,
\* :1078), and every key of the map in memory can.  A device with one copy of each item
\* must not fail at all.
THEOREM MutexWithLists ==
  Regime /\ (Flash = "SD" \/ MaxFaults = 0) => (Spec => []LockDiscipline)
<1> SUFFICES ASSUME Regime, Flash = "SD" \/ MaxFaults = 0 PROVE Spec => []LockDiscipline
  OBVIOUS
<1> DEFINE Inv == TypeInv /\ MapInv /\ (Sound => Held)
<1>1. Init => Inv
  BY InitTypeInv, InitKeeps, InitHolds
<1>2. Inv /\ [Next]_vars => Inv'
  <2> SUFFICES ASSUME Inv, [Next]_vars PROVE Inv'
    OBVIOUS
  <2>1. TypeInv' /\ MapInv'
    BY NextTypes, NextKeeps
  <2>2. ASSUME Sound' PROVE Held'
    <3>1. Sound /\ LockInv
      BY <2>2, SoundBefore DEF LockInv
    <3>2. \A t \in Threads : sunxi_secure_object_list(t) => Stays(t)
      BY <2>2, <3>1, ListMoves DEF Regime
    <3> QED BY <3>1, <3>2, NextHolds
  <2>3. (Sound => Held)'
    BY <2>2
  <2> QED BY <2>1, <2>3
<1>3. Inv => LockDiscipline
  BY DEF Held, Inside, LockDiscipline
<1> QED BY <1>1, <1>2, <1>3, PTL DEF Spec
=============================================================================
