------------------------ MODULE SecureStorageRefines ------------------------
(***************************************************************************)
(* The device implements the table of KeyStore: whatever a single client     *)
(* does and whichever one fault hits it, the keys a restarted process reads   *)
(* change one at a time, to a value somebody has asked to write, or disappear *)
(* together because somebody has asked to erase them.                        *)
(***************************************************************************)
EXTENDS SecureStorageKeyProofs

-----------------------------------------------------------------------------
(* The clients and the devices the table describes. *)

\* One thread: a second one that has passed secure_storage_support may add its key to a
\* map that another could not save, and two keys appear in one step.
OneClient == \A s, t \in Threads : s = t

\* Calls that write one key or erase them all; the batch of the test program saves the
\* map once for several keys.
OneKeyCalls == "batch" \notin Kinds

\* The maps have their magic: of a legacy map only the raw copy is read safely.
Formatted == \A m \in Factory : m.st = "good"

TableRegime ==
  NamesApart /\ Device /\ OneClient /\ OneKeyCalls /\ Formatted /\ MaxFaults <= 1

-----------------------------------------------------------------------------
(* What the steps of a single client keep, next to the invariants of the map   *)
(* and of the values.                                                         *)

\* No copy of the map has lost its magic for good, so no heap memory is read as a map.
Magic == mapItem.raw.st # "nomagic" /\ mapItem.backup.st # "nomagic" /\ ~wild

\* The map in memory has one entry more than the one on the device, or fewer.
RamNear == Erased \/ \A m \in Readable : Len(ram) <= Len(m.names) + 1

\* A write comes out of secure_storage_support with no map loaded, and starts from the one
\* of the device.
WriteStarts(t) ==
  op[t] = "write" /\ stage[t] = "main" =>
    /\ pc[t] = "init" => ~inited
    /\ pc[t] = "body" => \A m \in Readable : ram = m.names

\* The inductive invariant of the refinement.
TableInv ==
  /\ Magic
  /\ \A t \in Threads : WriteStarts(t)
  /\ inited => RamNear

\* What the hypotheses and the invariants give at once.
LEMMA TableSound ==
  ASSUME TableRegime, TypeInv, Magic
  PROVE  Regime /\ Sound
<1>1. faults \in Nat /\ faults <= MaxFaults /\ MaxFaults \in Nat
  BY ConstantTypes DEF TypeInv, TypeOK
<1>2. faults <= 1
  BY <1>1 DEF TableRegime
<1>3. ~wild
  BY DEF Magic
<1>4. Sound
  BY <1>2, <1>3 DEF Sound
<1>5. Regime
  BY DEF TableRegime, Regime, EraserAlone, OneClient, BatchUndisturbed, OneKeyCalls
<1> QED BY <1>4, <1>5

-----------------------------------------------------------------------------
(* Maps with their magic. *)

\* An unreadable copy never makes the heap a map.
LEMMA MagicRead ==
  ASSUME NEW it \in [raw : FitMaps, backup : FitMaps], it.backup.st # "nomagic",
         NEW u, NEW m \in nv_read_map(it, u)
  PROVE  ~m.wild
<1>1. CASE Flash = "SD"
  <2>1. m \in sd_read_map(it, u)
    BY <1>1 DEF nv_read_map
  <2>2. it.backup.st \in {"good", "badcrc"}
    BY DEF FitMaps, Maps
  <2>3. \E ns : m = Loaded(ns)
    BY <2>1, <2>2 DEF sd_read_map
  <2> QED BY <2>3 DEF Loaded
<1>2. CASE Flash = "NAND"
  <2>1. \E ns : m = Loaded(ns)
    BY <1>2 DEF nv_read_map
  <2> QED BY <2>1 DEF Loaded
<1>3. CASE Flash # "SD" /\ Flash # "NAND"
  BY <1>3 DEF nv_read_map
<1> QED BY <1>1, <1>2, <1>3

\* A save, a failed one and one that is cut off write maps with magic or torn ones.
LEMMA MagicWrite ==
  ASSUME NEW it \in [raw : FitMaps, backup : FitMaps], it.raw.st # "nomagic",
         it.backup.st # "nomagic", NEW ns,
         NEW t0, t0 = TornMap(it.raw, GoodMap(ns)), NEW t1, t1 = TornMap(it.backup, GoodMap(ns)),
         NEW x \in {nv_write(it, GoodMap(ns))} \cup FailedWrite(it, GoodMap(ns), t0, t1)
                     \cup CutWrite(it, GoodMap(ns), t0, t1)
  PROVE  x.raw.st # "nomagic" /\ x.backup.st # "nomagic"
<1> DEFINE w == GoodMap(ns)
<1>1. w.st # "nomagic"
  BY DEF GoodMap
<1>2. t0 = {CorruptMap} /\ t1 = {CorruptMap} /\ CorruptMap.st # "nomagic"
  BY DEF TornMap, CorruptMap
<1> HIDE DEF w
<1>3. it = [raw |-> it.raw, backup |-> it.backup]
  OBVIOUS
<1>4. x \in {nv_write(it, w)} \cup FailedWrite(it, w, t0, t1) \cup CutWrite(it, w, t0, t1)
  BY DEF w
<1>5. CASE Flash = "SD"
  <2>1. \E c \in {it.raw, it.backup, w, CorruptMap}, d \in {it.raw, it.backup, w, CorruptMap} :
          x = [raw |-> c, backup |-> d]
    BY <1>2, <1>3, <1>4, <1>5 DEF nv_write, sd_write, Both, FailedWrite, CutWrite
  <2> QED BY <2>1, <1>1, <1>2
<1>6. CASE Flash # "SD"
  <2>1. x = it \/ x = [it EXCEPT !.raw = w]
    BY <1>4, <1>6 DEF nv_write, FailedWrite, CutWrite, nand_write
  <2> QED BY <2>1, <1>1
<1> QED BY <1>5, <1>6

-----------------------------------------------------------------------------
(* Every step keeps TableInv. *)

\* A step that changes neither the maps nor the items.
LEMMA StillNear ==
  ASSUME TableInv, NEW t \in Threads, OneClient, Still, wild' = wild, Erased => Erased',
         WriteStarts(t)'
  PROVE  TableInv'
<1>1. Magic'
  BY DEF TableInv, Magic, Still
<1>2. \A s \in Threads : WriteStarts(s)'
  BY DEF OneClient
<1>3. Readable' = Readable
  BY DEF Still, Readable
<1>4. inited' => RamNear'
  BY <1>3 DEF TableInv, RamNear, Still
<1> QED BY <1>1, <1>2, <1>4 DEF TableInv

\* A call begins, sunxi_secure_storage_init finds a loaded map or fails, a key is read or
\* the keys are listed.
LEMMA QuietNear ==
  ASSUME TableRegime, TypeInv, MapInv, TableInv, NEW t \in Threads,
         \/ Call(t) \/ InitLoaded(t) \/ InitFails(t)
         \/ sunxi_secure_object_read(t) \/ sunxi_secure_object_list(t)
  PROVE  TableInv'
<1>0. OneClient /\ WriteStarts(t)
  BY DEF TableRegime, TableInv
<1>1. CASE Call(t)
  <2>1. PICK k \in Kinds :
          /\ op' = [op EXCEPT ![t] = k]
          /\ stage' = [stage EXCEPT ![t] = IF k \in {"erase", "list"} THEN "main" ELSE "support"]
    BY <1>1 DEF Call
  <2>2. Still /\ wild' = wild
    BY <1>1 DEF Call, Still, disk, memory
  <2>3. op'[t] = k /\ stage'[t] = IF k \in {"erase", "list"} THEN "main" ELSE "support"
    BY <2>1, Types
  <2>4. WriteStarts(t)'
    BY <2>3 DEF WriteStarts
  <2>5. Erased => Erased'
    BY <2>2, <2>3, <1>0 DEF Erased, Still, OneClient, Writers
  <2> QED BY <2>2, <2>4, <2>5, <1>0, StillNear
<1>2. CASE InitLoaded(t)
  <2>1. /\ Still /\ wild' = wild /\ stage' = stage /\ op' = op /\ inited /\ pc[t] = "init"
        /\ pc' = [pc EXCEPT ![t] = IF stage[t] = "support" THEN "exit" ELSE "body"]
    BY <1>2 DEF InitLoaded, InitDone, Still, disk
  <2>2. pc'[t] = IF stage[t] = "support" THEN "exit" ELSE "body"
    BY <2>1, Types
  <2>3. WriteStarts(t)'
    BY <2>1, <2>2, <1>0 DEF WriteStarts
  <2>4. Erased => Erased'
    BY <2>1, <2>2, <1>0 DEF Erased, Still, OneClient
  <2> QED BY <2>1, <2>3, <2>4, <1>0, StillNear
<1>3. CASE InitFails(t)
  <2>1. Still /\ wild' = wild /\ UNCHANGED <<op, todo>> /\ Return(t, InitFailure(t))
    BY <1>3 DEF InitFails, Still, disk, memory
  <2>2. pc'[t] = "idle"
    BY <2>1, ReturnMoves
  <2>3. WriteStarts(t)' /\ (Erased => Erased')
    BY <2>1, <2>2, <1>0 DEF WriteStarts, Erased, Still, OneClient
  <2> QED BY <2>1, <2>3, <1>0, StillNear
<1>4. CASE sunxi_secure_object_read(t)
  <2>1. Still /\ wild' = wild /\ op' = op /\ op[t] = "read"
    BY <1>4 DEF sunxi_secure_object_read, Still, disk, memory
  <2>2. WriteStarts(t)' /\ (Erased => Erased')
    BY <2>1, <1>0 DEF WriteStarts, Erased, Still, OneClient, Writers
  <2> QED BY <2>1, <2>2, <1>0, StillNear
<1>5. CASE sunxi_secure_object_list(t)
  <2>1. Still /\ wild' = wild /\ op' = op /\ op[t] = "list"
    BY <1>5 DEF sunxi_secure_object_list, Still, disk, memory
  <2>2. WriteStarts(t)' /\ (Erased => Erased')
    BY <2>1, <1>0 DEF WriteStarts, Erased, Still, OneClient, Writers
  <2> QED BY <2>1, <2>2, <1>0, StillNear
<1> QED BY <1>1, <1>2, <1>3, <1>4, <1>5

\* sunxi_secure_storage_init loads the map of the device.
LEMMA LoadsNear ==
  ASSUME TableRegime, TypeInv, TypeInv', MapInv, TableInv, NEW t \in Threads, InitLoads(t)
  PROVE  TableInv'
<1>1. PICK u \in SUBSET Copies :
        /\ faults' = faults + Cardinality(u) /\ faults' <= MaxFaults
        /\ \E m \in nv_read_map(mapItem, u) : ram' = m.names /\ wild' = (wild \/ m.wild)
  BY DEF InitLoads
<1>2. PICK m \in nv_read_map(mapItem, u) : ram' = m.names /\ wild' = (wild \/ m.wild)
  BY <1>1
<1>3. UNCHANGED <<mapItem, keyItem, stage, op>>
      /\ pc' = [pc EXCEPT ![t] = IF stage[t] = "support" THEN "exit" ELSE "body"]
  BY DEF InitLoads, InitDone, disk
<1>4. Magic /\ Regime /\ Sound /\ CopiesAgree
  BY TableSound DEF TableInv, MapInv
<1>5. ~m.wild
  BY <1>4, MagicRead, Types DEF Magic
<1>6. Magic'
  <2>1. ~wild'
    BY <1>2, <1>4, <1>5, Zenon DEF Magic
  <2> QED BY <2>1, <1>3, <1>4 DEF Magic
<1>7. faults + Cardinality(u) <= 1
  <2>1. faults' \in Nat /\ MaxFaults \in Nat
    BY ConstantTypes DEF TypeInv, TypeOK
  <2> QED BY <2>1, <1>1 DEF TableRegime
<1>8. \A r \in Readable : r.names = m.names
  BY <1>4, <1>5, <1>7, LoadedIsReadable
<1>9. Readable' = Readable
  BY <1>3 DEF Readable
<1>10. pc'[t] \in {"exit", "body"}
  BY <1>3, Types
<1>11. \A s \in Threads : WriteStarts(s)'
  BY <1>2, <1>8, <1>9, <1>10 DEF WriteStarts, TableRegime, OneClient
<1>12. RamNear'
  <2>1. ram' \in Seq(Names)
    BY DEF TypeInv, TypeOK
  <2>2. Len(ram') \in Nat
    BY <2>1
  <2>3. Len(ram') <= Len(ram') + 1
    BY <2>2
  <2> QED BY <2>3, <1>2, <1>8, <1>9 DEF RamNear
<1> QED BY <1>6, <1>11, <1>12 DEF TableInv

\* The body of a write and of an erase: the map in memory gets one entry or none.
LEMMA BodyNear ==
  ASSUME TableRegime, TypeInv, MapInv, TableInv, NEW t \in Threads,
         \/ sunxi_secure_object_write(t) \/ sunxi_secure_object_erase(t)
         \/ KeyWritten(t) \/ KeyWriteDropped(t) \/ KeyWriteFails(t)
  PROVE  TableInv'
<1>0. OneClient /\ WriteStarts(t) /\ Magic /\ Regime /\ CallOf(t)
  BY TableSound DEF TableRegime, TableInv, MapInv
<1>1. mapItem' = mapItem /\ wild' = wild /\ inited' = inited /\ op' = op /\ stage' = stage
  BY DEF sunxi_secure_object_write, sunxi_secure_object_erase, KeyWritten, KeyWriteDropped, WroteKey,
         KeyWriteFails, disk
<1>2. Magic' /\ Readable' = Readable
  BY <1>0, <1>1 DEF Magic, Readable
<1>3. CASE sunxi_secure_object_erase(t)
  <2>1. /\ op[t] = "erase" /\ ram' = <<>> /\ dirty' = TRUE
    BY <1>3 DEF sunxi_secure_object_erase
  <2>2. "erase" \in Kinds
    BY <2>1, Types
  <2>3. Erased'
    BY <2>1, <2>2, <1>0, <1>1 DEF Erased, OneClient, Writers
  <2>4. \A s \in Threads : WriteStarts(s)'
    BY <2>1, <1>0, <1>1 DEF WriteStarts, OneClient
  <2> QED BY <2>3, <2>4, <1>2 DEF TableInv, RamNear
<1>4. CASE sunxi_secure_object_write(t)
  <2> DEFINE w == todo[t][at[t]]
             f == fill_name_in_map(ram, w.name)
  <2>1. pc[t] = "body" /\ op[t] \in Writers
    BY <1>4 DEF sunxi_secure_object_write
  <2>2. op[t] = "write" /\ stage[t] = "main"
    BY <2>1, <1>0, Types DEF CallOf, Writers, TableRegime, OneKeyCalls
  <2>3. w.name \in Names
    <3>1. todo[t] \in Seq([name : Names, val : Values]) /\ at[t] \in DOMAIN todo[t]
      BY <2>1 DEF TypeInv, Args, ArgsOf
    <3>2. w \in [name : Names, val : Values]
      BY <3>1, ElementType
    <3> QED BY <3>2
  <2>4. \/ pc' = [pc EXCEPT ![t] = "exit"] /\ ram' = ram
        \/ pc' = [pc EXCEPT ![t] = "wkey"] /\ ram' = f.map /\ f.index # 0
    BY <1>4 DEF sunxi_secure_object_write
  <2> HIDE DEF f, w
  <2>5. ram' = ram \/ ram' = Append(ram, w.name)
    BY <2>3, <2>4, <1>0, FillFinds, Types DEF Regime, f
  <2>6. Len(ram') <= Len(ram) + 1
    <3>1. ram \in Seq(Names) /\ Len(ram) \in Nat
      BY Types
    <3> QED BY <3>1, <2>3, <2>5
  <2>7. \A m \in Readable : ram = m.names
    BY <2>1, <2>2, <1>0 DEF WriteStarts
  <2>8. RamNear'
    BY <2>6, <2>7, <1>2 DEF RamNear
  <2>9. \A s \in Threads : WriteStarts(s)'
    BY <2>4, <1>0, Types DEF WriteStarts, OneClient
  <2> QED BY <2>8, <2>9, <1>2 DEF TableInv
<1>5. CASE KeyWritten(t) \/ KeyWriteDropped(t) \/ KeyWriteFails(t)
  <2>1. pc[t] = "wkey" /\ ram' = ram /\ todo' = todo
    BY <1>5 DEF KeyWritten, KeyWriteDropped, WroteKey, KeyWriteFails
  <2>2. ~Erased /\ inited
    BY <2>1, <1>0, WritesOwnItem
  <2>3. RamNear'
    BY <2>1, <2>2, <1>2 DEF TableInv, RamNear
  <2>4. pc'[t] # "init" /\ (pc'[t] = "body" => op[t] # "write")
    <3>1. CASE KeyWritten(t) \/ KeyWriteDropped(t)
      <4>1. \/ at[t] < Len(todo[t]) /\ pc' = [pc EXCEPT ![t] = "body"]
            \/ pc' = [pc EXCEPT ![t] = "exit"]
        BY <3>1 DEF KeyWritten, KeyWriteDropped, WroteKey
      <4>2. pc'[t] \in {"body", "exit"} /\ (pc'[t] = "body" => at[t] < Len(todo[t]))
        BY <4>1, Types
      <4>3. ASSUME at[t] < Len(todo[t]) PROVE op[t] # "write"
        <5> SUFFICES ASSUME op[t] = "write" PROVE FALSE
          OBVIOUS
        <5>1. at[t] \in Nat \ {0}
          BY Types
        <5>2. Len(todo[t]) = 1
          BY <1>0 DEF CallOf
        <5>3. at[t] < 1
          BY <4>3, <5>2
        <5> QED BY <5>1, <5>3
      <4> QED BY <4>2, <4>3
    <3>2. CASE KeyWriteFails(t)
      <4>1. pc' = [pc EXCEPT ![t] = "exit"]
        BY <3>2 DEF KeyWriteFails
      <4> QED BY <4>1, Types
    <3> QED BY <3>1, <3>2, <1>5
  <2>5. \A s \in Threads : WriteStarts(s)'
    BY <2>4, <1>0, <1>1 DEF WriteStarts, OneClient
  <2> QED BY <2>3, <2>5, <1>2 DEF TableInv
<1> QED BY <1>3, <1>4, <1>5

\* The magic survives a save, whatever becomes of it.
LEMMA SaveMagic ==
  ASSUME TypeInv, Magic, wild' = wild,
         mapItem' \in {nv_write(mapItem, GoodMap(ram))}
           \cup FailedWrite(mapItem, GoodMap(ram), TornMap(mapItem.raw, GoodMap(ram)),
                            TornMap(mapItem.backup, GoodMap(ram)))
           \cup CutWrite(mapItem, GoodMap(ram), TornMap(mapItem.raw, GoodMap(ram)),
                         TornMap(mapItem.backup, GoodMap(ram)))
  PROVE  Magic'
<1> DEFINE t0 == TornMap(mapItem.raw, GoodMap(ram))
           t1 == TornMap(mapItem.backup, GoodMap(ram))
           x  == mapItem'
<1>1. x \in {nv_write(mapItem, GoodMap(ram))} \cup FailedWrite(mapItem, GoodMap(ram), t0, t1)
              \cup CutWrite(mapItem, GoodMap(ram), t0, t1)
  OBVIOUS
<1>2. t0 = TornMap(mapItem.raw, GoodMap(ram)) /\ t1 = TornMap(mapItem.backup, GoodMap(ram))
  OBVIOUS
<1>3. /\ mapItem \in [raw : FitMaps, backup : FitMaps]
      /\ mapItem.raw.st # "nomagic" /\ mapItem.backup.st # "nomagic" /\ ~wild
  BY Types DEF Magic
<1> HIDE DEF t0, t1, x
<1>4. x.raw.st # "nomagic" /\ x.backup.st # "nomagic"
  BY <1>1, <1>2, <1>3, MagicWrite
<1> QED BY <1>3, <1>4 DEF Magic, x

\* A map that cannot be saved before the first fault was changed by this call.
LEMMA DirtyInMain ==
  ASSUME TypeInv, MapInv, NEW t \in Threads, pc[t] = "exit", NeedsSave(t), faults = 0
  PROVE  stage[t] = "main"
<1>1. CASE ExitMode(t)
  BY <1>1 DEF ExitMode
<1>2. CASE dirty
  BY <1>2, AloneInside DEF MapInv, DirtyInside, Inside
<1> QED BY <1>1, <1>2 DEF NeedsSave

\* sunxi_secure_storage_exit.
LEMMA ExitNear ==
  ASSUME TableRegime, TypeInv, TypeInv', MapInv, TableInv, NEW t \in Threads,
         ExitClean(t) \/ ExitSaves(t) \/ ExitDropped(t) \/ ExitFails(t)
  PROVE  TableInv'
<1>0. OneClient /\ WriteStarts(t) /\ Magic /\ Sound
  BY TableSound DEF TableRegime, TableInv
<1>1. CASE ExitClean(t) \/ ExitSaves(t) \/ ExitDropped(t)
  <2>1. pc[t] = "exit" /\ Leave(t, TRUE) /\ UNCHANGED <<op, todo, wild>>
    BY <1>1 DEF ExitClean, ExitSaves, ExitDropped
  <2>2. ~inited' /\ pc'[t] \in {"init", "idle"}
    BY <2>1, LeaveMoves
  <2>3. \A s \in Threads : WriteStarts(s)'
    BY <2>2, <1>0 DEF WriteStarts, OneClient
  <2>4. Magic'
    <3>1. CASE ExitClean(t)
      BY <3>1, <1>0 DEF ExitClean, disk, Magic
    <3>2. CASE ExitSaves(t)
      <4>1. mapItem' = nv_write(mapItem, GoodMap(ram))
        BY <3>2 DEF ExitSaves
      <4> QED BY <4>1, <2>1, <1>0, SaveMagic
    <3>3. CASE ExitDropped(t)
      <4>1. mapItem' \in CutWrite(mapItem, GoodMap(ram), TornMap(mapItem.raw, GoodMap(ram)),
                                 TornMap(mapItem.backup, GoodMap(ram)))
        BY <3>3, DroppedIsCut DEF ExitDropped
      <4> QED BY <4>1, <2>1, <1>0, SaveMagic
    <3> QED BY <3>1, <3>2, <3>3, <1>1
  <2> QED BY <2>2, <2>3, <2>4 DEF TableInv
<1>2. CASE ExitFails(t)
  <2>1. /\ pc[t] = "exit" /\ NeedsSave(t) /\ faults' = faults + 1 /\ Leave(t, FALSE)
        /\ UNCHANGED <<keyItem, ram, op, todo, wild, lost>>
        /\ mapItem' \in FailedWrite(mapItem, GoodMap(ram), TornMap(mapItem.raw, GoodMap(ram)),
                                    TornMap(mapItem.backup, GoodMap(ram)))
    BY <1>2 DEF ExitFails
  <2>2. faults = 0
    <3>1. faults' <= MaxFaults /\ MaxFaults \in Nat /\ faults \in Nat
      BY ConstantTypes, Types DEF TypeInv, TypeOK
    <3> QED BY <3>1, <2>1 DEF TableRegime
  <2>3. stage[t] = "main"
    BY <2>1, <2>2, DirtyInMain
  <2>4. pc'[t] = "idle" /\ dirty' = dirty
    <3>1. /\ dirty' = (dirty /\ ~FALSE)
          /\ pc'[t] = IF stage[t] = "support" THEN "init" ELSE "idle"
      BY <2>1, LeaveMoves
    <3> QED BY <3>1, <2>3 DEF TypeInv, TypeOK
  <2>5. \A s \in Threads : WriteStarts(s)'
    BY <2>4, <1>0 DEF WriteStarts, OneClient
  <2>6. Magic'
    BY <2>1, <1>0, SaveMagic
  <2>7. \A m \in Readable' : m \in Readable \/ m = Loaded(ram)
    BY <2>1, <2>2, <1>0, SaveOldOrNew
  <2>8. RamNear'
    <3>1. inited
      BY <2>1 DEF MapInv, CallOf, Inside
    <3>2. CASE Erased
      <4>1. Erased'
        BY <3>2, <2>1, <2>4, <1>0 DEF Erased, OneClient
      <4> QED BY <4>1 DEF RamNear
    <3>3. CASE \A m \in Readable : Len(ram) <= Len(m.names) + 1
      <4>1. ram \in Seq(Names)
        BY Types
      <4>2. Len(ram) \in Nat
        BY <4>1
      <4>3. Len(ram) <= Len(ram) + 1
        BY <4>2
      <4>4. Loaded(ram).names = ram
        BY DEF Loaded
      <4> QED BY <4>3, <4>4, <3>3, <2>1, <2>7 DEF RamNear
    <3> QED BY <3>1, <3>2, <3>3 DEF TableInv, RamNear
  <2> QED BY <2>5, <2>6, <2>8 DEF TableInv
<1> QED BY <1>1, <1>2

\* The process ends.
LEMMA CrashNear ==
  ASSUME TypeInv, TableInv, Restart \/ \E t \in Threads : CutKeyWrite(t) \/ CutMapWrite(t)
  PROVE  TableInv'
<1>1. Reboot
  BY DEF Restart, CutKeyWrite, CutMapWrite
<1>2. ~inited' /\ wild' = wild /\ \A s \in Threads : WriteStarts(s)'
  BY <1>1 DEF Reboot, WriteStarts
<1>3. Magic'
  <2>1. CASE mapItem' = mapItem
    BY <2>1, <1>2 DEF TableInv, Magic
  <2>2. ASSUME NEW t \in Threads, CutMapWrite(t) PROVE Magic'
    <3>1. mapItem' \in CutWrite(mapItem, GoodMap(ram), TornMap(mapItem.raw, GoodMap(ram)),
                                TornMap(mapItem.backup, GoodMap(ram)))
      BY <2>2 DEF CutMapWrite
    <3> QED BY <3>1, <1>2, SaveMagic DEF TableInv
  <2> QED BY <2>1, <2>2 DEF Restart, disk, CutKeyWrite
<1> QED BY <1>2, <1>3 DEF TableInv

\* A device as it leaves the factory.
LEMMA InitNear ==
  ASSUME TableRegime, Init
  PROVE  TableInv
<1>1. PICK m \in Factory, v \in Values \ BigValues : Provisioned(m, v)
  BY DEF Init
<1>2. mapItem = Both(m) /\ m.st = "good"
  BY <1>1 DEF Provisioned, TableRegime, Formatted
<1>3. Magic
  BY <1>2 DEF Init, Magic, Both
<1>4. ~inited /\ \A s \in Threads : WriteStarts(s)
  BY DEF Init, WriteStarts
<1> QED BY <1>3, <1>4 DEF TableInv

\* Every step keeps TableInv.
LEMMA NextNear ==
  ASSUME TableRegime, TypeInv, MapInv, TableInv, [Next]_vars
  PROVE  TableInv'
<1>1. TypeInv'
  BY NextTypes
<1>2. CASE UNCHANGED vars
  BY <1>2 DEF vars, TableInv, Magic, WriteStarts, RamNear, Erased, Readable
<1>3. CASE Restart \/ \E t \in Threads : CutKeyWrite(t) \/ CutMapWrite(t)
  BY <1>3, CrashNear
<1>4. ASSUME NEW t \in Threads, Call(t) \/ Step(t) PROVE TableInv'
  <2>1. CASE \/ Call(t) \/ InitLoaded(t) \/ InitFails(t)
             \/ sunxi_secure_object_read(t) \/ sunxi_secure_object_list(t)
    BY <2>1, QuietNear
  <2>2. CASE InitLoads(t)
    BY <2>2, <1>1, LoadsNear
  <2>3. CASE \/ sunxi_secure_object_write(t) \/ sunxi_secure_object_erase(t)
             \/ KeyWritten(t) \/ KeyWriteDropped(t) \/ KeyWriteFails(t)
    BY <2>3, BodyNear
  <2>4. CASE ExitClean(t) \/ ExitSaves(t) \/ ExitDropped(t) \/ ExitFails(t)
    BY <2>4, <1>1, ExitNear
  <2> QED BY <2>1, <2>2, <2>3, <2>4, <1>4
       DEF Step, sunxi_secure_storage_init, sunxi_secure_storage_exit
<1> QED BY <1>2, <1>3, <1>4 DEF Next

-----------------------------------------------------------------------------
(* Every step is one of the table or leaves it as it is. *)

\* The table under a map, and the steps KeyStore allows it.
TableOf(items, ns) == [n \in Names |-> Fetch(items, ns, n)]

Puts(old, new) ==
  \E n \in Names : \E v \in Values \cap Asked[n] : new = [old EXCEPT ![n] = v]

Clears(old, new) ==
  (\A n \in Names : BAD \in Asked[n]) /\ new = [n \in Names |-> BAD]

\* What a key may have has been asked for, and of a lost key everything.
LEMMA AskedFor ==
  ASSUME TypeInv, NEW n \in Names
  PROVE  allowed[n] \subseteq Asked[n] /\ (n \in lost => Asked[n] = Values \cup {BAD})
<1>1. allowed[n] \subseteq Values \cup {BAD}
  BY DEF TypeInv, TypeOK
<1> QED BY <1>1 DEF Asked

\* Two tables that differ in one key.
LEMMA OneKeyPut ==
  ASSUME NEW f \in Names, NEW K, NEW L, NEW ns, NEW ms,
         \A n \in Names : n # f => Fetch(L, ms, n) = Fetch(K, ns, n),
         Fetch(L, ms, f) \in Values \cap Asked[f]
  PROVE  Puts(TableOf(K, ns), TableOf(L, ms))
<1>1. TableOf(L, ms) = [TableOf(K, ns) EXCEPT ![f] = Fetch(L, ms, f)]
  BY DEF TableOf
<1> QED BY <1>1 DEF Puts

\* A map item with magic reads as one map.
LEMMA OneMap ==
  ASSUME NEW it \in [raw : FitMaps, backup : FitMaps], it.backup.st # "nomagic",
         {m \in nv_read_map(it, {}) : ~m.wild} # {}
  PROVE  \E d : nv_read_map(it, {}) = {d} /\ ~d.wild
<1>1. PICK d \in nv_read_map(it, {}) : ~d.wild
  OBVIOUS
<1>2. \A m \in nv_read_map(it, {}) : ~m.wild
  BY MagicRead
<1>3. \A m \in nv_read_map(it, {}) : m = d
  BY <1>1, <1>2, MapUnique
<1> QED BY <1>1, <1>3

\* The table of the device is that of its one map, before and after a step.
LEMMA TableIs ==
  ASSUME Device, TypeInv, ValueInv, Magic, Sound, TypeInv', ValueInv', Magic', Sound'
  PROVE  /\ \E d : Readable = {d} /\ DeviceTable = TableOf(keyItem, d.names)
         /\ \E d : Readable' = {d} /\ DeviceTable' = TableOf(keyItem', d.names)
<1>1. \E d : Readable = {d} /\ DeviceTable = TableOf(keyItem, d.names)
  <2>1. Readable # {} /\ mapItem \in [raw : FitMaps, backup : FitMaps]
    BY Types DEF ValueInv
  <2>2. PICK d : nv_read_map(mapItem, {}) = {d} /\ ~d.wild
    BY <2>1, OneMap DEF Readable, Magic
  <2>3. Readable = {d} /\ DeviceMap = d
    BY <2>2 DEF Readable, DeviceMap
  <2>4. DeviceTable = TableOf(keyItem, d.names)
    BY <2>3 DEF DeviceTable, TableOf, Fetch, Stored, Lookup, Val
  <2> QED BY <2>3, <2>4
<1>2. \E d : Readable' = {d} /\ DeviceTable' = TableOf(keyItem', d.names)
  <2>1. mapItem' \in [raw : FitMaps, backup : FitMaps]
    BY DEF TypeInv, Bounded
  <2>2. {m \in nv_read_map(mapItem', {}) : ~m.wild} # {}
    BY DEF ValueInv, Readable, Device
  <2>3. mapItem'.backup.st # "nomagic"
    BY DEF Magic
  <2>4. PICK d : nv_read_map(mapItem', {}) = {d} /\ ~d.wild
    BY <2>1, <2>2, <2>3, OneMap
  <2>5. Readable' = {d} /\ DeviceMap' = d
    BY <2>4 DEF Readable, DeviceMap
  <2>6. DeviceTable' = TableOf(keyItem', d.names)
    BY <2>5 DEF DeviceTable, TableOf, Fetch, Stored, Lookup, Val
  <2> QED BY <2>5, <2>6
<1> QED BY <1>1, <1>2

\* The write of a key, whatever becomes of it, puts the key or leaves the table.
LEMMA WritePuts ==
  ASSUME TableRegime, TypeInv, MapInv, ValueInv, Magic, NEW t \in Threads, pc[t] = "wkey",
         NEW x, keyItem' = [keyItem EXCEPT ![idx[t]] = x], mapItem' = mapItem, allowed' = allowed,
         lost \subseteq lost', nv_read_key(x, {}) \in {Item(idx[t]), Wrapped(t)},
         NEW d, Readable = {d}
  PROVE  \/ TableOf(keyItem', d.names) = TableOf(keyItem, d.names)
         \/ Puts(TableOf(keyItem, d.names), TableOf(keyItem', d.names))
<1> DEFINE w == Wrapped(t)
<1>1. Regime /\ Sound /\ NamesApart
  BY TableSound DEF Regime
<1>2. /\ w \in Objects /\ idx[t] \in DOMAIN ram /\ FirstEntry(ram, w.name, idx[t])
  BY <1>1, WritesOwnItem
<1>3. /\ \A k \in Names : k # w.name => Fetch(keyItem', ram, k) = Fetch(keyItem, ram, k)
      /\ Fetch(keyItem', ram, w.name) = Val(nv_read_key(x, {}))
      /\ w.val \in allowed[w.name]
  BY <1>1, WriteValues
<1>4. Continues(ram, d.names)
  BY <1>1, WriteTakesNoItem
<1>5. w.name \in Names /\ w.val \in Values /\ Val(w) = w.val
  BY <1>2, BadAssumption DEF Objects, Val
<1>6. ram \in Seq(Names) /\ d.names \in Seq(Names) /\ idx[t] # 0
  BY <1>2, ReadMapType, Types DEF Readable, Items
<1>7. Fetch(keyItem, ram, w.name) = Val(Item(idx[t]))
  BY <1>1, <1>2, <1>6, FetchIs DEF Item
<1> HIDE DEF w
<1>8. PICK L : L = keyItem'
  OBVIOUS
<1>9. ASSUME NEW n \in Names
      PROVE  \/ Fetch(L, d.names, n) = Fetch(keyItem, d.names, n)
             \/ n = w.name /\ Fetch(L, d.names, n) = w.val
  <2>1. CASE \A p \in DOMAIN d.names : d.names[p] # n
    <3>1. Fetch(L, d.names, n) = BAD
      BY <2>1, <1>1, <1>4, <1>6, FetchBehind
    <3>2. Fetch(keyItem, d.names, n) = BAD
      BY <2>1, <1>1, <1>4, <1>6, FetchBehind
    <3> QED BY <3>1, <3>2
  <2>2. CASE \E p \in DOMAIN d.names : d.names[p] = n
    <3>1. Fetch(L, d.names, n) = Fetch(L, ram, n)
      BY <2>2, <1>1, <1>4, <1>6, FetchBehind
    <3>2. Fetch(keyItem, d.names, n) = Fetch(keyItem, ram, n)
      BY <2>2, <1>1, <1>4, <1>6, FetchBehind
    <3>3. CASE n = w.name
      <4>1. Val(nv_read_key(x, {})) \in {Val(Item(idx[t])), w.val}
        BY <1>5 DEF w
      <4> QED BY <4>1, <3>1, <3>2, <3>3, <1>3, <1>7, <1>8
    <3>4. CASE n # w.name
      BY <3>1, <3>2, <3>4, <1>3, <1>8
    <3> QED BY <3>3, <3>4
  <2> QED BY <2>1, <2>2
<1>10. CASE Fetch(L, d.names, w.name) = w.val
  <2>1. \A n \in Names : n # w.name => Fetch(L, d.names, n) = Fetch(keyItem, d.names, n)
    BY <1>9
  <2>2. Fetch(L, d.names, w.name) \in Values \cap Asked[w.name]
    BY <1>3, <1>5, <1>10, AskedFor
  <2>3. Puts(TableOf(keyItem, d.names), TableOf(L, d.names))
    BY <2>1, <2>2, <1>5, OneKeyPut
  <2> QED BY <2>3, <1>8
<1>11. CASE Fetch(L, d.names, w.name) # w.val
  <2>1. \A n \in Names : Fetch(L, d.names, n) = Fetch(keyItem, d.names, n)
    BY <1>9, <1>11
  <2>2. TableOf(L, d.names) = TableOf(keyItem, d.names)
    BY <2>1 DEF TableOf
  <2> QED BY <2>2, <1>8
<1> QED BY <1>10, <1>11

\* The map in memory, once it is on the device, puts one key or clears the table.
LEMMA SavePuts ==
  ASSUME TableRegime, TypeInv, MapInv, ValueInv, TableInv, NEW t \in Threads, pc[t] = "exit",
         NeedsSave(t), NEW d, Readable = {d}
  PROVE  \/ TableOf(keyItem, ram) = TableOf(keyItem, d.names)
         \/ Puts(TableOf(keyItem, d.names), TableOf(keyItem, ram))
         \/ Clears(TableOf(keyItem, d.names), TableOf(keyItem, ram))
<1>1. Regime /\ Sound /\ NamesApart /\ Magic
  BY TableSound DEF TableInv, Regime
<1>2. /\ inited /\ \A p \in DOMAIN ram : Owns(ram, p)
      /\ \A n \in Names \ lost : Fetch(keyItem, ram, n) \in allowed[n]
  BY <1>1, SavesOwned, SavesValued
<1>3. CASE Erased
  <2>1. ram = <<>>
    BY <1>3 DEF Erased
  <2>2. \A n \in Names : Fetch(keyItem, ram, n) = BAD
    BY <2>1, <1>1, FetchEmpty
  <2>3. TableOf(keyItem, ram) = [n \in Names |-> BAD]
    BY <2>2 DEF TableOf
  <2>4. \A n \in Names : BAD \in Asked[n]
    BY <2>2, <1>2, AskedFor
  <2> QED BY <2>3, <2>4 DEF Clears
<1>4. CASE ~Erased
  <2>1. Continues(ram, d.names) /\ Len(ram) <= Len(d.names) + 1
    BY <1>1, <1>2, <1>4 DEF MapInv, RamAhead, TableInv, RamNear
  <2>2. /\ ram \in Seq(Names) /\ d.names \in Seq(Names) /\ DOMAIN ram \subseteq Items
        /\ keyItem \in [Items -> [raw : Keys, backup : Keys]]
    BY ReadMapType, Types DEF Readable
  <2>3. /\ Len(ram) \in Nat /\ Len(d.names) \in Nat
        /\ DOMAIN ram = 1 .. Len(ram) /\ DOMAIN d.names = 1 .. Len(d.names)
    BY <2>2
  <2>4. \A n \in Names : (\E p \in DOMAIN d.names : d.names[p] = n) =>
          Fetch(keyItem, d.names, n) = Fetch(keyItem, ram, n)
    BY <2>1, <2>2, <1>1, FetchBehind
  <2>5. \A n \in Names : (\A p \in DOMAIN ram : ram[p] # n) =>
          Fetch(keyItem, d.names, n) = BAD /\ Fetch(keyItem, ram, n) = BAD
    <3> SUFFICES ASSUME NEW n \in Names, \A p \in DOMAIN ram : ram[p] # n
                 PROVE  Fetch(keyItem, d.names, n) = BAD /\ Fetch(keyItem, ram, n) = BAD
      OBVIOUS
    <3>1. FirstEntry(ram, n, 0)
      BY DEF FirstEntry
    <3>2. Fetch(keyItem, ram, n) = BAD
      BY <3>1, <2>2, <1>1, FetchIs
    <3> QED BY <3>2, <2>1, <2>2, <1>1, FetchBehind
  <2>6. CASE \A n \in Names : (\E p \in DOMAIN ram : ram[p] = n) => \E p \in DOMAIN d.names : d.names[p] = n
    <3>1. \A n \in Names : Fetch(keyItem, ram, n) = Fetch(keyItem, d.names, n)
      BY <2>4, <2>5, <2>6
    <3> QED BY <3>1 DEF TableOf
  <2>7. ASSUME NEW f \in Names, NEW p \in DOMAIN ram, ram[p] = f,
               \A q \in DOMAIN d.names : d.names[q] # f
        PROVE  \/ TableOf(keyItem, ram) = TableOf(keyItem, d.names)
               \/ Puts(TableOf(keyItem, d.names), TableOf(keyItem, ram))
    <3>1. p \notin DOMAIN d.names
      BY <2>1, <2>7 DEF Continues
    <3>2. p = Len(ram) /\ Len(ram) = Len(d.names) + 1
      <4>1. p \in 1 .. Len(ram) /\ ~(p \in 1 .. Len(d.names))
        BY <3>1, <2>3, <2>7
      <4>2. Len(ram) <= Len(d.names) + 1
        BY <2>1
      <4>3. ASSUME NEW i \in Nat, NEW j \in Nat, p \in 1 .. i, ~(p \in 1 .. j), i <= j + 1
            PROVE  p = i /\ i = j + 1
        BY <4>3
      <4> QED BY <4>1, <4>2, <4>3, <2>3
    <3>3. ASSUME NEW n \in Names, n # f PROVE Fetch(keyItem, ram, n) = Fetch(keyItem, d.names, n)
      <4>1. CASE \E q \in DOMAIN ram : ram[q] = n
        <5>1. PICK q \in DOMAIN ram : ram[q] = n
          BY <4>1
        <5>2. q # p
          BY <5>1, <3>3, <2>7
        <5>3. q \in DOMAIN d.names
          BY <5>2, <3>2, <2>3
        <5>4. d.names[q] = n
          BY <5>1, <5>3, <2>1 DEF Continues
        <5> QED BY <5>3, <5>4, <2>4
      <4>2. CASE \A q \in DOMAIN ram : ram[q] # n
        BY <4>2, <2>5
      <4> QED BY <4>1, <4>2
    <3>4. Fetch(keyItem, ram, f) \in Values \cup {BAD}
      <4> DEFINE q == probe_name_in_map(ram, f)
      <4>1. FirstEntry(ram, f, q)
        BY <2>2, <1>1, ProbeFinds
      <4> HIDE DEF q
      <4>2. q \in DOMAIN ram /\ q # 0
        BY <4>1, <2>3, <2>7 DEF FirstEntry
      <4>3. Fetch(keyItem, ram, f) = Val(Item(q))
        BY <4>1, <4>2, <2>2, <1>1, FetchIs DEF Item
      <4>4. Item(q) \in Keys
        BY <4>2, <2>2, ReadKeyType DEF Item
      <4> QED BY <4>3, <4>4 DEF Val, Keys, Objects
    <3>5. Fetch(keyItem, d.names, f) = BAD
      BY <2>1, <2>2, <2>7, <1>1, FetchBehind
    <3>6. CASE Fetch(keyItem, ram, f) = BAD
      <4>1. \A n \in Names : Fetch(keyItem, ram, n) = Fetch(keyItem, d.names, n)
        BY <3>3, <3>5, <3>6
      <4> QED BY <4>1 DEF TableOf
    <3>7. CASE Fetch(keyItem, ram, f) # BAD
      <4>1. Fetch(keyItem, ram, f) \in Values \cap Asked[f]
        BY <3>4, <3>7, <1>2, <2>7, AskedFor
      <4> QED BY <4>1, <3>3, OneKeyPut
    <3> QED BY <3>6, <3>7
  <2> QED BY <2>6, <2>7
<1> QED BY <1>3, <1>4

\* A step maps to a step of KeyStore or to none.
LEMMA StepMaps ==
  ASSUME TableRegime, TypeInv, MapInv, ValueInv, TableInv, TypeInv', ValueInv', TableInv',
         [Next]_vars
  PROVE  \/ DeviceTable' = DeviceTable
         \/ Puts(DeviceTable, DeviceTable')
         \/ Clears(DeviceTable, DeviceTable')
<1>1. Regime /\ Sound /\ Device /\ Magic /\ Magic'
  BY TableSound DEF TableInv, TableRegime
<1>2. Sound'
  <2>1. faults' \in Nat /\ faults' <= MaxFaults /\ MaxFaults \in Nat
    BY ConstantTypes DEF TypeInv, TypeOK
  <2>2. faults' <= 1
    BY <2>1 DEF TableRegime
  <2> QED BY <2>2, <1>1 DEF Sound, Magic
<1>3. faults' \in Nat /\ faults' <= 1
  <2>1. faults' \in Nat
    BY ConstantTypes DEF TypeInv, TypeOK
  <2> QED BY <2>1, <1>2 DEF Sound
<1>4. PICK d : Readable = {d} /\ DeviceTable = TableOf(keyItem, d.names)
  BY <1>1, <1>2, TableIs
<1>5. PICK e : Readable' = {e} /\ DeviceTable' = TableOf(keyItem', e.names)
  BY <1>1, <1>2, TableIs
<1>6. mapItem' = mapItem => e = d
  BY <1>4, <1>5 DEF Readable
<1>7. CASE mapItem' = mapItem /\ keyItem' = keyItem
  BY <1>4, <1>5, <1>6, <1>7
<1>8. ASSUME NEW t \in Threads, NEW x, pc[t] = "wkey",
             keyItem' = [keyItem EXCEPT ![idx[t]] = x], mapItem' = mapItem, allowed' = allowed,
             lost \subseteq lost', nv_read_key(x, {}) \in {Item(idx[t]), Wrapped(t)}
      PROVE  DeviceTable' = DeviceTable \/ Puts(DeviceTable, DeviceTable')
  BY <1>1, <1>4, <1>5, <1>6, <1>8, WritePuts
<1>9. ASSUME NEW t \in Threads, NEW x, pc[t] = "wkey", faults' = faults + 1,
             keyItem' = [keyItem EXCEPT ![idx[t]] = x], mapItem' = mapItem, allowed' = allowed,
             lost \subseteq lost',
             x \in FailedWrite(keyItem[idx[t]], Wrapped(t), TornKey, TornKey)
                     \cup CutWrite(keyItem[idx[t]], Wrapped(t), TornKey, TornKey)
      PROVE  DeviceTable' = DeviceTable \/ Puts(DeviceTable, DeviceTable')
  <2>1. faults = 0 /\ CopiesAgree
    <3>1. faults \in Nat
      BY Types
    <3> QED BY <3>1, <1>1, <1>3, <1>9 DEF MapInv
  <2>2. /\ idx[t] \in Items /\ keyItem[idx[t]] \in [raw : Keys, backup : Keys]
        /\ Same(keyItem[idx[t]])
    BY <2>1, <1>9, WrappedType DEF CopiesAgree
  <2>3. nv_read_key(x, {}) \in {Item(idx[t]), Wrapped(t)}
    BY <2>2, <1>1, <1>9, WritesOwnItem, KeyOldOrNew DEF Item
  <2> QED BY <2>3, <1>8, <1>9
<1>10. ASSUME NEW t \in Threads, pc[t] = "exit", NeedsSave(t), keyItem' = keyItem,
              e \in Readable \/ e = Loaded(ram)
       PROVE  \/ DeviceTable' = DeviceTable
              \/ Puts(DeviceTable, DeviceTable')
              \/ Clears(DeviceTable, DeviceTable')
  <2>1. CASE e \in Readable
    BY <2>1, <1>4, <1>5, <1>10
  <2>2. CASE e = Loaded(ram)
    <3>1. e.names = ram
      BY <2>2 DEF Loaded
    <3> QED BY <3>1, <1>4, <1>5, <1>10, SavePuts
  <2> QED BY <2>1, <2>2, <1>10
<1>11. ASSUME NEW t \in Threads, KeyWritten(t)
       PROVE  DeviceTable' = DeviceTable \/ Puts(DeviceTable, DeviceTable')
  <2> DEFINE x == nv_write(keyItem[idx[t]], Wrapped(t))
  <2>1. /\ pc[t] = "wkey" /\ keyItem' = [keyItem EXCEPT ![idx[t]] = x]
        /\ mapItem' = mapItem /\ allowed' = allowed /\ lost' = lost
    BY <1>11 DEF KeyWritten, WroteKey
  <2>2. nv_read_key(x, {}) = Wrapped(t)
    <3>1. idx[t] \in Items /\ keyItem[idx[t]] \in [raw : Keys, backup : Keys]
      BY <2>1, WrappedType
    <3> QED BY <3>1, <2>1, <1>1, WritesOwnItem, KeyReadBack
  <2> HIDE DEF x
  <2> QED BY <2>1, <2>2, <1>8
<1>12. ASSUME NEW t \in Threads, KeyWriteDropped(t) \/ KeyWriteFails(t) \/ CutKeyWrite(t)
       PROVE  DeviceTable' = DeviceTable \/ Puts(DeviceTable, DeviceTable')
  <2>1. /\ pc[t] = "wkey" /\ faults' = faults + 1 /\ mapItem' = mapItem /\ allowed' = allowed
        /\ lost \subseteq lost'
    BY <1>12 DEF KeyWriteDropped, WroteKey, KeyWriteFails, CutKeyWrite, Reboot
  <2>2. PICK x \in FailedWrite(keyItem[idx[t]], Wrapped(t), TornKey, TornKey)
                     \cup CutWrite(keyItem[idx[t]], Wrapped(t), TornKey, TornKey) :
          keyItem' = [keyItem EXCEPT ![idx[t]] = x]
    BY <1>12, DroppedIsCut DEF KeyWriteDropped, KeyWriteFails, CutKeyWrite
  <2> QED BY <2>1, <2>2, <1>9
<1>13. ASSUME NEW t \in Threads, ExitSaves(t) \/ ExitDropped(t) \/ ExitFails(t) \/ CutMapWrite(t)
       PROVE  \/ DeviceTable' = DeviceTable
              \/ Puts(DeviceTable, DeviceTable')
              \/ Clears(DeviceTable, DeviceTable')
  <2>1. pc[t] = "exit" /\ NeedsSave(t) /\ keyItem' = keyItem
    BY <1>13 DEF ExitSaves, ExitDropped, ExitFails, CutMapWrite
  <2>2. CASE ExitSaves(t)
    <3>1. mapItem' = nv_write(mapItem, GoodMap(ram))
      BY <2>2 DEF ExitSaves
    <3>2. nv_read_map(mapItem', {}) = {Loaded(ram)}
      BY <3>1, <1>1, MapReadBack
    <3>3. e = Loaded(ram)
      BY <3>2, <1>5 DEF Readable
    <3> QED BY <3>3, <2>1, <1>10
  <2>3. CASE ExitDropped(t) \/ ExitFails(t) \/ CutMapWrite(t)
    <3>1. /\ faults' = faults + 1 /\ lost \subseteq lost'
          /\ mapItem' \in
               FailedWrite(mapItem, GoodMap(ram), TornMap(mapItem.raw, GoodMap(ram)),
                           TornMap(mapItem.backup, GoodMap(ram)))
               \cup
               CutWrite(mapItem, GoodMap(ram), TornMap(mapItem.raw, GoodMap(ram)),
                        TornMap(mapItem.backup, GoodMap(ram)))
      BY <2>3, DroppedIsCut DEF ExitDropped, ExitFails, CutMapWrite, Reboot
    <3>2. faults = 0
      <4>1. faults \in Nat
        BY Types
      <4> QED BY <4>1, <3>1, <1>3
    <3>3. e \in Readable \/ e = Loaded(ram)
      BY <3>1, <3>2, <2>1, <1>1, <1>5, SaveOldOrNew
    <3> QED BY <3>3, <2>1, <1>10
  <2> QED BY <2>2, <2>3, <1>13
<1>14. CASE UNCHANGED vars \/ Restart
  BY <1>7, <1>14 DEF vars, Restart, disk
<1>15. ASSUME NEW t \in Threads,
              \/ Call(t) \/ sunxi_secure_storage_init(t) \/ sunxi_secure_object_write(t)
              \/ sunxi_secure_object_read(t) \/ sunxi_secure_object_erase(t)
              \/ sunxi_secure_object_list(t) \/ ExitClean(t)
       PROVE  DeviceTable' = DeviceTable
  <2>1. mapItem' = mapItem /\ keyItem' = keyItem
    <3>1. CASE Call(t) \/ sunxi_secure_object_write(t) \/ ExitClean(t)
      BY <3>1 DEF Call, sunxi_secure_object_write, ExitClean, disk
    <3>2. CASE \/ sunxi_secure_object_read(t) \/ sunxi_secure_object_erase(t)
               \/ sunxi_secure_object_list(t)
      BY <3>2 DEF sunxi_secure_object_read, sunxi_secure_object_erase, sunxi_secure_object_list, disk
    <3>3. CASE sunxi_secure_storage_init(t)
      BY <3>3 DEF sunxi_secure_storage_init, InitLoaded, InitLoads, InitFails, InitDone, disk
    <3> QED BY <3>1, <3>2, <3>3, <1>15
  <2> QED BY <2>1, <1>4, <1>5, <1>6
<1> QED BY <1>11, <1>12, <1>13, <1>14, <1>15 DEF Next, Step, sunxi_secure_storage_exit

\* The factory's table is the one the history begins with.
LEMMA InitTable ==
  ASSUME TableRegime, Init, TypeInv, ValueInv, TableInv
  PROVE  Table!StoreInit
<1>1. Regime /\ Sound /\ Device /\ Magic
  BY TableSound DEF TableInv, TableRegime
<1>2. Readable # {} /\ DeviceValued /\ mapItem \in [raw : FitMaps, backup : FitMaps]
  BY <1>1, Types DEF ValueInv
<1>3. PICK d : nv_read_map(mapItem, {}) = {d} /\ ~d.wild
  BY <1>1, <1>2, OneMap DEF Readable, Magic
<1>4. d \in Readable /\ DeviceMap = d
  BY <1>3 DEF Readable, DeviceMap
<1>5. DeviceTable = [n \in Names |-> Fetch(keyItem, d.names, n)]
  BY <1>4 DEF DeviceTable, Fetch, Stored, Lookup, Val
<1>6. PICK m \in Factory, v \in Values \ BigValues : Provisioned(m, v)
  BY DEF Init
<1>7. allowed = [n \in Names |->
        IF \E i \in DOMAIN m.names : m.names[i] = n THEN {v} ELSE {BAD}]
  BY <1>6 DEF Provisioned
<1>8. lost = {} /\ \A n \in Names : Fetch(keyItem, d.names, n) \in allowed[n]
  BY <1>2, <1>4 DEF Init, DeviceValued
<1>9. \A n \in Names : /\ Asked[n] = {Fetch(keyItem, d.names, n)}
                       /\ Fetch(keyItem, d.names, n) \in Values \cup {BAD}
  BY <1>7, <1>8 DEF Asked
<1> QED BY <1>5, <1>9 DEF Table!StoreInit, Table!StoreType

\* The device of a single client implements KeyStore: with at most one fault, at whatever
\* point, the keys a restarted process reads change one at a time to a value asked for,
\* or are cleared together after an erase was asked for; a torn copy changes nothing.  (Of
\* the keys of a call whose write error was dropped any value counts as asked for.)
THEOREM DeviceIsKeyStore == TableRegime => (Spec => ImplementsKeyStore)
<1> SUFFICES ASSUME TableRegime PROVE Spec => ImplementsKeyStore
  OBVIOUS
<1> DEFINE Inv == TypeInv /\ MapInv /\ ValueInv /\ TableInv
<1>0. Regime
  BY DEF TableRegime, Regime, EraserAlone, OneClient, BatchUndisturbed, OneKeyCalls
<1>1. Init => Inv
  BY <1>0, InitTypeInv, InitKeeps, InitValued, InitNear
<1>2. Inv /\ [Next]_vars => Inv'
  BY <1>0, NextTypes, NextKeeps, NextValues, NextNear
<1>3. Init => Table!StoreInit
  BY <1>0, <1>1, InitTable
<1>4. Inv /\ Inv' /\ [Next]_vars => [Table!Put \/ Table!Clear]_DeviceTable
  <2> SUFFICES ASSUME Inv, Inv', [Next]_vars PROVE [Table!Put \/ Table!Clear]_DeviceTable
    OBVIOUS
  <2>1. \/ DeviceTable' = DeviceTable
        \/ Puts(DeviceTable, DeviceTable')
        \/ Clears(DeviceTable, DeviceTable')
    BY StepMaps
  <2> QED BY <2>1 DEF Puts, Clears, Table!Put, Table!Clear
<1> QED BY <1>1, <1>2, <1>3, <1>4, PTL DEF Spec, ImplementsKeyStore, Table!StoreSpec
=============================================================================
