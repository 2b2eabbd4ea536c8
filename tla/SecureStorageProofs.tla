------------------------- MODULE SecureStorageProofs -------------------------
(***************************************************************************)
(* Proofs about SecureStorage: type correctness and the discipline of the   *)
(* mutex, for every value of the constants.                                 *)
(***************************************************************************)
EXTENDS SecureStorage, TLAPS, FiniteSetTheorems, NaturalsInduction,
        WellFoundedInduction

-----------------------------------------------------------------------------
(* The operators on maps. *)

\* What is taken from a sequence is one of its elements.
LEMMA ElementType ==
  ASSUME NEW S, NEW s \in Seq(S), NEW j \in DOMAIN s
  PROVE  s[j] \in S
OBVIOUS

\* A function on 1..n is a sequence.
LEMMA FunctionIsSeq ==
  ASSUME NEW S, NEW n \in Nat, NEW f \in [1 .. n -> S]
  PROVE  f \in Seq(S)
OBVIOUS

\* First really is the least element of a non-empty set of positions, the one
\* a scan of the map meets first.
LEMMA FirstIsLeast ==
  ASSUME NEW S \in SUBSET Nat, S # {}
  PROVE  First(S) \in S /\ \A q \in S : First(S) <= q
<1>1. \E p \in S : \A q \in S : p <= q
  <2>1. \E x \in S : \A y \in S : ~ (<<y, x>> \in OpToRel(<, Nat))
    BY NatLessThanWellFounded, WFMin, Zenon
  <2>2. PICK x \in S : \A y \in S : ~ (<<y, x>> \in OpToRel(<, Nat))
    BY <2>1
  <2>3. ASSUME NEW y \in S PROVE x <= y
    <3>1. x \in Nat /\ y \in Nat /\ <<y, x>> \in Nat \X Nat
      OBVIOUS
    <3>2. y < x => <<y, x>> \in OpToRel(<, Nat)
      BY <3>1 DEF OpToRel
    <3>3. ~ (y < x)
      BY <3>2, <2>2, Zenon
    <3> QED BY <3>1, <3>3
  <2> QED BY <2>3
<1> QED BY <1>1, Zenon DEF First

\* __probe_name_in_map returns -1 or the number of an entry.
LEMMA ProbeRange ==
  ASSUME NEW m \in Seq(Names), NEW n \in Names
  PROVE  probe_name_in_map(m, n) \in DOMAIN m \cup {0}
<1> DEFINE stop == {p \in DOMAIN m : m[p] \in LongNames \/ m[p] = n}
<1>1. stop \in SUBSET Nat /\ stop \subseteq DOMAIN m
  OBVIOUS
<1>2. CASE stop = {}
  BY <1>2 DEF probe_name_in_map
<1>3. CASE stop # {}
  <2>1. First(stop) \in stop
    BY <1>1, <1>3, FirstIsLeast
  <2> QED BY <2>1, <1>1, <1>3 DEF probe_name_in_map
<1> QED BY <1>2, <1>3

\* __fill_name_in_map keeps the map within its limit and returns -1 or the
\* number of one of its entries.
LEMMA FillRange ==
  ASSUME NEW m \in Seq(Names), Len(m) < MaxItem, NEW n \in Names
  PROVE  LET f == fill_name_in_map(m, n)
         IN  /\ f.map \in Seq(Names)
             /\ Len(f.map) < MaxItem
             /\ f.index \in Items \cup {0}
             /\ f.index # 0 => f.index \in DOMAIN f.map
<1> DEFINE stop == {p \in DOMAIN m : m[p] \in LongNames \/ EntryMatches(m[p], n)}
<1>0. MaxItem \in Nat /\ MaxItem >= 2
  BY ConstantsAssumption
<1>1. stop \in SUBSET Nat /\ stop \subseteq DOMAIN m
  OBVIOUS
<1>2. CASE stop = {}
  BY <1>0, <1>2 DEF fill_name_in_map, MapFull, Items
<1>3. CASE stop # {}
  <2>1. First(stop) \in stop
    BY <1>1, <1>3, FirstIsLeast
  <2>2. First(stop) \in DOMAIN m /\ First(stop) \in Items
    BY <2>1, <1>1, <1>0 DEF Items
  <2>3. CASE m[First(stop)] \in LongNames
    <3>1. fill_name_in_map(m, n) = [map |-> <<n>>, index |-> 1]
      BY <2>3, <1>3 DEF fill_name_in_map
    <3> QED BY <3>1, <1>0 DEF Items
  <2>4. CASE m[First(stop)] \notin LongNames
    <3>1. fill_name_in_map(m, n) = [map |-> m, index |-> First(stop)]
      BY <2>4, <1>3 DEF fill_name_in_map
    <3> QED BY <3>1, <2>2
  <2> QED BY <2>3, <2>4
<1> QED BY <1>2, <1>3

-----------------------------------------------------------------------------
(* The operators on the device. *)

\* A map that the storage can hold.
FitMaps == {m \in Maps : Len(m.names) < MaxItem}
Keys    == Objects \cup {BAD}

\* The names of a map that fits are a sequence of names.
LEMMA FitMapNames ==
  ASSUME NEW c \in FitMaps
  PROVE  c.names \in Seq(Names) /\ Len(c.names) < MaxItem
BY DEF FitMaps, Maps

\* A write, a failed one, one whose error is dropped and an interrupted one leave copies of the type of
\* what was there and what was written.
LEMMA WriteType ==
  ASSUME NEW S, NEW it \in [raw : S, backup : S], NEW w \in S,
         NEW t0 \in SUBSET S, NEW t1 \in SUBSET S
  PROVE  /\ nv_write(it, w) \in [raw : S, backup : S]
         /\ FailedWrite(it, w, t0, t1) \subseteq [raw : S, backup : S]
         /\ DroppedWrite(it, w, t0, t1) \subseteq [raw : S, backup : S]
         /\ CutWrite(it, w, t0, t1) \subseteq [raw : S, backup : S]
BY DEF nv_write, sd_write, nand_write, Both, FailedWrite, DroppedWrite, CutWrite

\* sd_read_key and _nand_read find an object or nothing.
LEMMA ReadKeyType ==
  ASSUME NEW it \in [raw : Keys, backup : Keys], NEW u
  PROVE  nv_read_key(it, u) \in Keys
BY DEF nv_read_key, Keys

\* nv_read of item 0 hands out a map of at most MaxItem - 1 names.
LEMMA ReadMapType ==
  ASSUME NEW it \in [raw : FitMaps, backup : FitMaps], NEW u,
         NEW m \in nv_read_map(it, u)
  PROVE  m.names \in Seq(Names) /\ Len(m.names) < MaxItem /\ m.wild \in BOOLEAN
<1>0. MaxItem \in Nat /\ MaxItem >= 2
  BY ConstantsAssumption
<1>1. it.raw \in FitMaps /\ it.backup \in FitMaps
  OBVIOUS
<1>2. <<>> \in Seq(Names) /\ Len(<<>>) < MaxItem
  BY <1>0
<1>a. it.raw.names \in Seq(Names) /\ Len(it.raw.names) < MaxItem
  BY <1>1, FitMapNames
<1>b. it.backup.names \in Seq(Names) /\ Len(it.backup.names) < MaxItem
  BY <1>1, FitMapNames
<1>3. CASE Flash = "SD"
  <2>1. \/ m = Loaded(it.raw.names)
        \/ m = Loaded(it.backup.names)
        \/ m = Loaded(<<>>)
        \/ \E h \in HeapMaps : m = [names |-> h, wild |-> TRUE]
    BY <1>3 DEF nv_read_map, sd_read_map, CorruptMap
  <2>2. CASE \E h \in HeapMaps : m = [names |-> h, wild |-> TRUE]
    BY <2>2, HeapAssumption
  <2>3. CASE m = Loaded(<<>>)
    BY <2>3, <1>2 DEF Loaded
  <2>4. CASE m = Loaded(it.raw.names)
    BY <2>4, <1>a DEF Loaded
  <2>5. CASE m = Loaded(it.backup.names)
    BY <2>5, <1>b DEF Loaded
  <2> QED BY <2>1, <2>2, <2>3, <2>4, <2>5
<1>4. CASE Flash # "SD"
  <2>1. m = Loaded(it.raw.names)
    BY <1>4 DEF nv_read_map
  <2> QED BY <2>1, <1>a DEF Loaded
<1> QED BY <1>3, <1>4

\* What is left of an interrupted map write is a map of the same kind.
LEMMA TornMapType ==
  ASSUME NEW c, NEW ns \in Seq(Names), Len(ns) < MaxItem
  PROVE  /\ GoodMap(ns) \in FitMaps
         /\ TornMap(c, GoodMap(ns)) \in SUBSET FitMaps
<1>0. MaxItem \in Nat /\ MaxItem >= 2
  BY ConstantsAssumption
<1>1. <<>> \in Seq(Names) /\ Len(<<>>) < MaxItem
  BY <1>0
<1> QED BY <1>1 DEF GoodMap, TornMap, PlainMap, CorruptMap, FitMaps, Maps

\* The number of copies that cannot be read.
LEMMA CopiesCount ==
  ASSUME NEW u \in SUBSET Copies
  PROVE  Cardinality(u) \in Nat
<1>1. IsFiniteSet(Copies)
  <2>1. IsFiniteSet({"raw"})
    BY FS_Singleton
  <2>2. IsFiniteSet({"raw"} \cup {"backup"})
    BY <2>1, FS_AddElement
  <2>3. Copies = {"raw"} \cup {"backup"}
    BY DEF Copies
  <2> QED BY <2>2, <2>3
<1> QED BY <1>1, FS_Subset, FS_CardinalityType

\* A call asks for values of keys only.
LEMMA EffectType ==
  ASSUME NEW k, NEW args \in Seq([name : Names, val : Values \cup {BAD}]), NEW n
  PROVE  Effect(k, args, n) \in SUBSET (Values \cup {BAD})
<1>1. ASSUME NEW j \in DOMAIN args PROVE args[j].val \in Values \cup {BAD}
  <2>1. args[j] \in [name : Names, val : Values \cup {BAD}]
    BY ElementType
  <2> QED BY <2>1
<1>2. {args[i].val : i \in {j \in DOMAIN args : args[j].name = n}}
        \in SUBSET (Values \cup {BAD})
  BY <1>1
<1> QED BY <1>2 DEF Effect

-----------------------------------------------------------------------------
(* Type correctness. *)

\* The maps on the device and in memory stay within the limit of MaxItem - 1
\* names: the item numbers they give out are numbers of items.
Bounded ==
  /\ mapItem \in [raw : FitMaps, backup : FitMaps]
  /\ Len(ram) < MaxItem

\* The call of a thread has the arguments its code looks at.
ArgsOf(t) ==
  /\ pc[t] = "idle" => at[t] = 1
  /\ op[t] \in Writers => /\ todo[t] \in Seq([name : Names, val : Values])
                          /\ at[t] \in DOMAIN todo[t]
  /\ op[t] = "read" => 1 \in DOMAIN todo[t]
  /\ pc[t] = "wkey" => op[t] \in Writers /\ idx[t] \in Items

Args == \A t \in Threads : ArgsOf(t)

\* TypeOK is not inductive: that a write hits an existing item needs the bound
\* on the maps and the shape of the arguments.
TypeInv == TypeOK /\ Bounded /\ Args

\* What the proofs use of the constants.
LEMMA ConstantTypes ==
  /\ MaxItem \in Nat /\ MaxItem >= 2
  /\ NoThread \notin Threads
  /\ Kinds \subseteq {"write", "read", "erase", "list", "batch"}
  /\ BatchNames \in Seq(Names) /\ BatchNames # <<>>
  /\ MaxFaults \in Nat
  /\ BAD \notin Objects /\ BAD \notin Values
BY ConstantsAssumption, BadAssumption

\* Call builds arguments of the right type.
LEMMA ArgumentsType ==
  ASSUME NEW k \in Kinds, NEW args \in Arguments(k)
  PROVE  /\ args \in Seq([name : Names, val : Values \cup {BAD}])
         /\ k \in Writers => /\ args \in Seq([name : Names, val : Values])
                             /\ 1 \in DOMAIN args
         /\ k = "read" => 1 \in DOMAIN args
<1>1. CASE k = "write"
  <2>1. PICK n \in Names, v \in Values : args = <<Write(n, v)>>
    BY <1>1, ConstantsAssumption DEF Arguments
  <2>2. Write(n, v) \in [name : Names, val : Values]
    BY DEF Write
  <2>3. Write(n, v) \in [name : Names, val : Values \cup {BAD}]
    BY DEF Write
  <2> QED BY <2>1, <2>2, <2>3, <1>1
<1>2. CASE k = "read"
  <2>1. PICK n \in Names : args = <<Write(n, BAD)>>
    BY <1>2 DEF Arguments
  <2>2. Write(n, BAD) \in [name : Names, val : Values \cup {BAD}]
    BY DEF Write
  <2> QED BY <2>1, <2>2, <1>2 DEF Writers
<1>3. CASE k = "batch"
  <2>1. PICK v \in Values : args = [i \in DOMAIN BatchNames |-> Write(BatchNames[i], v)]
    BY <1>3 DEF Arguments
  <2>2. DOMAIN BatchNames = 1 .. Len(BatchNames) /\ Len(BatchNames) \in Nat /\ Len(BatchNames) # 0
    BY ConstantTypes
  <2>3. \A i \in DOMAIN BatchNames : BatchNames[i] \in Names
    BY ConstantTypes, ElementType
  <2>4. args \in [1 .. Len(BatchNames) -> [name : Names, val : Values]]
    BY <2>1, <2>2, <2>3 DEF Write
  <2>5. args \in [1 .. Len(BatchNames) -> [name : Names, val : Values \cup {BAD}]]
    BY <2>1, <2>2, <2>3 DEF Write
  <2>6. args \in Seq([name : Names, val : Values])
    BY <2>4, <2>2, FunctionIsSeq
  <2>7. args \in Seq([name : Names, val : Values \cup {BAD}])
    BY <2>5, <2>2, FunctionIsSeq
  <2> QED BY <2>1, <2>2, <2>6, <2>7, <1>3
<1>4. CASE k \in {"erase", "list"}
  <2>1. args = <<>>
    BY <1>4 DEF Arguments
  <2>2. \A S : <<>> \in Seq(S)
    OBVIOUS
  <2>3. k \notin Writers /\ k # "read"
    BY <1>4 DEF Writers
  <2> QED BY <2>1, <2>2, <2>3
<1> QED BY <1>1, <1>2, <1>3, <1>4, ConstantTypes

\* The invariant holds on every factory device.
LEMMA InitTypeInv == Init => TypeInv
<1> SUFFICES ASSUME Init PROVE TypeInv
  OBVIOUS
<1>1. PICK m \in Factory, v \in Values \ BigValues : Provisioned(m, v)
  BY DEF Init
<1>2. m \in FitMaps /\ m \in Maps
  BY FactoryAssumption DEF FitMaps, Maps
<1>3. /\ mapItem \in [raw : FitMaps, backup : FitMaps]
      /\ mapItem \in [raw : Maps, backup : Maps]
  BY <1>1, <1>2 DEF Provisioned, Both
<1>4. keyItem \in [Items -> [raw : Keys, backup : Keys]]
  <2>1. m.names \in Seq(Names)
    BY <1>2, FitMapNames
  <2>2. \A i \in DOMAIN m.names : m.names[i] \in Names
    BY <2>1, ElementType
  <2>3. \A i \in DOMAIN m.names : Object(m.names[i], v, FactoryWP) \in Objects
    BY <2>2, ConstantsAssumption DEF Object, Objects
  <2>4. keyItem = [i \in Items |->
          IF i \in DOMAIN m.names THEN Both(Object(m.names[i], v, FactoryWP))
          ELSE Both(BAD)]
    BY <1>1 DEF Provisioned
  <2> QED BY <2>3, <2>4 DEF Both, Keys
<1>5. allowed \in [Names -> SUBSET (Values \cup {BAD})]
  BY <1>1 DEF Provisioned
<1>6. TypeOK
  <2>1. mutex \in Threads \cup {NoThread} /\ inited \in BOOLEAN /\ dirty \in BOOLEAN
    BY DEF Init
  <2>2. ram \in Seq(Names)
    BY DEF Init
  <2>3. /\ pc \in [Threads -> PCs]
        /\ stage \in [Threads -> {"support", "main"}]
        /\ op \in [Threads -> Kinds \cup {"none"}]
        /\ ret \in [Threads -> {"none", "ok", "fail"}]
    BY DEF Init, PCs
  <2>4. todo \in [Threads -> Seq([name : Names, val : Values \cup {BAD}])]
    BY DEF Init
  <2>5. at \in [Threads -> Nat \ {0}] /\ idx \in [Threads -> Items \cup {0}]
    BY DEF Init
  <2>6. bad \in [Threads -> BOOLEAN]
    BY DEF Init
  <2>8. got \in [Threads -> Objects \cup {BAD}]
    BY DEF Init
  <2>7. faults \in 0 .. MaxFaults
    BY ConstantTypes DEF Init
  <2>9. wild \in BOOLEAN /\ lost \in SUBSET Names
    BY DEF Init
  <2> QED BY <1>3, <1>4, <1>5, <2>1, <2>2, <2>3, <2>4, <2>5, <2>6, <2>7, <2>8, <2>9 DEF TypeOK, Keys
<1>7. Bounded
  BY <1>3, ConstantTypes DEF Init, Bounded
<1>8. Args
  BY DEF Init, Args, ArgsOf, Writers
<1> QED BY <1>6, <1>7, <1>8 DEF TypeInv

\* The types of what Return and AfterExit assign.
ReturnTyped ==
  /\ pc' \in [Threads -> PCs]
  /\ stage' \in [Threads -> {"support", "main"}]
  /\ ret' \in [Threads -> {"none", "ok", "fail"}]
  /\ allowed' \in [Names -> SUBSET (Values \cup {BAD})]
  /\ at' \in [Threads -> Nat \ {0}]
  /\ idx' \in [Threads -> Items \cup {0}]
  /\ bad' \in [Threads -> BOOLEAN]
  /\ Args'

\* A call that returns leaves its thread ready for the next one.
LEMMA ReturnTypes ==
  ASSUME TypeInv, NEW t \in Threads, NEW r \in {"ok", "fail"}, Return(t, r),
         op' = op, todo' = todo
  PROVE  ReturnTyped
<1> USE DEF TypeInv, TypeOK
<1>1. \A s \in Threads : \A n : Effect(op[s], todo[s], n) \in SUBSET (Values \cup {BAD})
  BY EffectType
<1>2. \A n : Pending(t, n) \in SUBSET (Values \cup {BAD})
  BY <1>1 DEF Pending
<1>3. allowed' \in [Names -> SUBSET (Values \cup {BAD})]
  BY <1>1, <1>2 DEF Return
<1>4. Args'
  <2> SUFFICES ASSUME NEW s \in Threads PROVE ArgsOf(s)'
    BY DEF Args
  <2>1. ArgsOf(s)
    BY DEF Args
  <2>2. CASE s = t
    <3>1. pc'[t] = "idle" /\ at'[t] = 1 /\ op'[t] = op[t] /\ todo'[t] = todo[t]
      BY DEF Return
    <3>2. op[t] \in Writers => 1 \in DOMAIN todo[t]
      BY <2>1, <2>2 DEF ArgsOf
    <3> QED BY <2>1, <2>2, <3>1, <3>2 DEF ArgsOf
  <2>3. CASE s # t
    BY <2>1, <2>3 DEF Return, ArgsOf
  <2> QED BY <2>2, <2>3
<1>5. /\ pc' \in [Threads -> PCs]
      /\ stage' \in [Threads -> {"support", "main"}]
      /\ ret' \in [Threads -> {"none", "ok", "fail"}]
  BY DEF Return, PCs
<1>6. /\ at' \in [Threads -> Nat \ {0}]
      /\ idx' \in [Threads -> Items \cup {0}]
  BY DEF Return
<1>7. bad' \in [Threads -> BOOLEAN]
  BY DEF Return
<1> QED BY <1>3, <1>4, <1>5, <1>6, <1>7 DEF ReturnTyped

\* A restarted process is in its initial state.
LEMMA RebootTypes ==
  ASSUME TypeInv, Reboot,
         mapItem' \in [raw : FitMaps, backup : FitMaps],
         keyItem' \in [Items -> [raw : Keys, backup : Keys]],
         faults' \in 0 .. MaxFaults
  PROVE  TypeInv'
<1>1. TypeOK'
  <2>1. mutex' \in Threads \cup {NoThread} /\ inited' \in BOOLEAN /\ dirty' \in BOOLEAN
    BY DEF Reboot
  <2>2. ram' \in Seq(Names)
    BY DEF Reboot
  <2>3. /\ pc' \in [Threads -> PCs]
        /\ stage' \in [Threads -> {"support", "main"}]
        /\ op' \in [Threads -> Kinds \cup {"none"}]
        /\ ret' \in [Threads -> {"none", "ok", "fail"}]
    BY DEF Reboot, PCs
  <2>4. todo' \in [Threads -> Seq([name : Names, val : Values \cup {BAD}])]
    BY DEF Reboot
  <2>5. at' \in [Threads -> Nat \ {0}] /\ idx' \in [Threads -> Items \cup {0}]
    BY DEF Reboot
  <2>6. bad' \in [Threads -> BOOLEAN] /\ got' \in [Threads -> Objects \cup {BAD}]
    BY DEF Reboot
  <2>7. wild' \in BOOLEAN /\ lost' \in SUBSET Names /\ allowed' \in [Names -> SUBSET (Values \cup {BAD})]
    BY DEF Reboot, TypeInv, TypeOK
  <2>8. mapItem' \in [raw : Maps, backup : Maps]
    BY DEF FitMaps
  <2> QED BY <2>1, <2>2, <2>3, <2>4, <2>5, <2>6, <2>7, <2>8 DEF TypeOK, Keys
<1>2. Bounded'
  BY ConstantTypes DEF Reboot, Bounded
<1>3. Args'
  BY DEF Reboot, Args, ArgsOf, Writers
<1> QED BY <1>1, <1>2, <1>3 DEF TypeInv

\* A call starts with arguments of its kind.
LEMMA CallTypes ==
  ASSUME TypeInv, NEW t \in Threads, Call(t)
  PROVE  TypeInv'
<1>0. PICK k \in Kinds : \E args \in Arguments(k) :
        /\ op' = [op EXCEPT ![t] = k]
        /\ todo' = [todo EXCEPT ![t] = args]
        /\ stage' = [stage EXCEPT ![t] = IF k \in {"erase", "list"} THEN "main" ELSE "support"]
        /\ allowed' = [n \in Names |-> allowed[n] \cup Effect(k, args, n)]
  BY DEF Call
<1>1. PICK args \in Arguments(k) :
        /\ op' = [op EXCEPT ![t] = k]
        /\ todo' = [todo EXCEPT ![t] = args]
        /\ stage' = [stage EXCEPT ![t] = IF k \in {"erase", "list"} THEN "main" ELSE "support"]
        /\ allowed' = [n \in Names |-> allowed[n] \cup Effect(k, args, n)]
  BY <1>0
<1>2. args \in Seq([name : Names, val : Values \cup {BAD}])
  BY ArgumentsType
<1>3. allowed' \in [Names -> SUBSET (Values \cup {BAD})]
  BY <1>1, <1>2, EffectType DEF TypeInv, TypeOK
<1>4. /\ op' \in [Threads -> Kinds \cup {"none"}]
      /\ todo' \in [Threads -> Seq([name : Names, val : Values \cup {BAD}])]
      /\ stage' \in [Threads -> {"support", "main"}]
  BY <1>1, <1>2 DEF TypeInv, TypeOK
<1>5. /\ pc' \in [Threads -> PCs]
      /\ ret' \in [Threads -> {"none", "ok", "fail"}]
  BY DEF Call, TypeInv, TypeOK, PCs
<1>6. got' \in [Threads -> Objects \cup {BAD}]
  BY DEF Call, TypeInv, TypeOK
<1>7. TypeOK'
  BY <1>3, <1>4, <1>5, <1>6 DEF Call, TypeInv, TypeOK, disk, memory
<1>8. Bounded'
  BY DEF Call, TypeInv, Bounded, disk, memory
<1>9. Args'
  <2> SUFFICES ASSUME NEW s \in Threads PROVE ArgsOf(s)'
    BY DEF Args
  <2>1. ArgsOf(s)
    BY DEF TypeInv, Args
  <2>2. CASE s = t
    <3>1. pc[t] = "idle" /\ pc'[t] = "init" /\ at'[t] = at[t] /\ op'[t] = k /\ todo'[t] = args
      BY <1>1 DEF Call, TypeInv, TypeOK
    <3> QED BY <3>1, <2>1, <2>2, ArgumentsType DEF ArgsOf
  <2>3. CASE s # t
    BY <1>1, <2>1, <2>3 DEF Call, ArgsOf
  <2> QED BY <2>2, <2>3
<1> QED BY <1>7, <1>8, <1>9 DEF TypeInv

\* What a step does to the fault counter.
LEMMA FaultTypes ==
  ASSUME TypeInv, NEW u \in SUBSET Copies,
         faults' = faults + Cardinality(u), faults' <= MaxFaults
  PROVE  faults' \in 0 .. MaxFaults /\ faults' >= faults
<1>1. Cardinality(u) \in Nat
  BY CopiesCount
<1>2. faults \in Nat
  BY DEF TypeInv, TypeOK
<1> QED BY <1>1, <1>2, ConstantTypes

\* A successful init keeps the types if what it loads fits.
LEMMA InitDoneTypes ==
  ASSUME TypeInv, NEW t \in Threads, InitDone(t),
         ram' \in Seq(Names), Len(ram') < MaxItem,
         faults' \in 0 .. MaxFaults, wild' \in BOOLEAN
  PROVE  TypeInv'
<1>1. mutex' \in Threads \cup {NoThread} /\ inited' \in BOOLEAN
  BY DEF InitDone
<1>2. pc' \in [Threads -> PCs]
  BY DEF InitDone, TypeInv, TypeOK, PCs
<1>3. TypeOK'
  BY <1>1, <1>2 DEF InitDone, TypeInv, TypeOK, disk
<1>4. Bounded'
  BY DEF InitDone, TypeInv, Bounded, disk
<1>5. Args'
  <2> SUFFICES ASSUME NEW s \in Threads PROVE ArgsOf(s)'
    BY DEF Args
  <2>1. ArgsOf(s)
    BY DEF TypeInv, Args
  <2>2. pc'[s] \in {"idle", "wkey"} => pc'[s] = pc[s]
    BY DEF InitDone, TypeInv, TypeOK
  <2> QED BY <2>1, <2>2 DEF InitDone, ArgsOf
<1> QED BY <1>3, <1>4, <1>5 DEF TypeInv

\* sunxi_secure_storage_init: what is loaded from a device map fits.
LEMMA StorageInitTypes ==
  ASSUME TypeInv, NEW t \in Threads, sunxi_secure_storage_init(t)
  PROVE  TypeInv'
<1>1. CASE InitLoaded(t)
  <2>1. ram' = ram /\ faults' = faults /\ wild' = wild /\ InitDone(t)
    BY <1>1 DEF InitLoaded
  <2>2. ram' \in Seq(Names) /\ Len(ram') < MaxItem
    BY <2>1 DEF TypeInv, TypeOK, Bounded
  <2>3. faults' \in 0 .. MaxFaults
    BY <2>1 DEF TypeInv, TypeOK
  <2>4. wild' \in BOOLEAN
    BY <2>1 DEF TypeInv, TypeOK
  <2> QED BY <2>1, <2>2, <2>3, <2>4, InitDoneTypes
<1>2. CASE InitLoads(t)
  <2>1. PICK u \in SUBSET Copies :
          /\ faults' = faults + Cardinality(u) /\ faults' <= MaxFaults
          /\ \E m \in nv_read_map(mapItem, u) :
               /\ ram' = m.names
               /\ wild' = (wild \/ m.wild)
    BY <1>2 DEF InitLoads
  <2>2. PICK m \in nv_read_map(mapItem, u) :
          /\ ram' = m.names
          /\ wild' = (wild \/ m.wild)
    BY <2>1
  <2>3. mapItem \in [raw : FitMaps, backup : FitMaps]
    BY DEF TypeInv, Bounded
  <2>4. ram' \in Seq(Names) /\ Len(ram') < MaxItem
    BY <2>2, <2>3, ReadMapType
  <2>5. faults' \in 0 .. MaxFaults
    BY <2>1, FaultTypes
  <2>6. wild' \in BOOLEAN
    BY <2>2
  <2> QED BY <1>2, <2>4, <2>5, <2>6, InitDoneTypes DEF InitLoads
<1>3. CASE InitFails(t)
  <2>1. PICK u \in SUBSET Copies : faults' = faults + Cardinality(u) /\ faults' <= MaxFaults
    BY <1>3 DEF InitFails
  <2>2. faults' \in 0 .. MaxFaults
    BY <2>1, FaultTypes
  <2>3. Return(t, InitFailure(t)) /\ InitFailure(t) \in {"ok", "fail"} /\ op' = op /\ todo' = todo
    BY <1>3 DEF InitFails, InitFailure
  <2>4. Bounded'
    BY <1>3 DEF InitFails, TypeInv, Bounded, disk, memory
  <2>5. ReturnTyped
    BY <2>3, ReturnTypes
  <2>6. TypeOK'
    BY <1>3, <2>2, <2>5 DEF InitFails, ReturnTyped, TypeInv, TypeOK, disk, memory
  <2> QED BY <2>4, <2>5, <2>6 DEF ReturnTyped, TypeInv
<1> QED BY <1>1, <1>2, <1>3 DEF sunxi_secure_storage_init

\* sunxi_secure_object_write: the item number is one of the device's.
LEMMA ObjectWriteTypes ==
  ASSUME TypeInv, NEW t \in Threads, sunxi_secure_object_write(t)
  PROVE  TypeInv'
<1> DEFINE w == todo[t][at[t]]
           f == fill_name_in_map(ram, w.name)
<1>1. pc[t] = "body" /\ op[t] \in Writers /\ ArgsOf(t)
  BY DEF sunxi_secure_object_write, TypeInv, Args
<1>2. w \in [name : Names, val : Values]
  BY <1>1, ElementType DEF ArgsOf
<1>3. w.name \in Names
  BY <1>2
<1>4. /\ f.map \in Seq(Names)
      /\ Len(f.map) < MaxItem
      /\ f.index \in Items \cup {0}
      /\ f.index # 0 => f.index \in DOMAIN f.map
  BY <1>3, FillRange DEF TypeInv, TypeOK, Bounded
<1> HIDE DEF w, f
<1>5. CASE w.val \in BigValues \/ f.index = 0
  <2>1. /\ bad' = [bad EXCEPT ![t] = TRUE]
        /\ pc' = [pc EXCEPT ![t] = "exit"]
        /\ ram' = ram /\ idx' = idx
    BY <1>5 DEF sunxi_secure_object_write, w, f
  <2>2. bad' \in [Threads -> BOOLEAN]
    BY <2>1 DEF TypeInv, TypeOK
  <2>3. pc' \in [Threads -> PCs]
    BY <2>1 DEF TypeInv, TypeOK, PCs
  <2>4. TypeOK' /\ Bounded'
    BY <2>1, <2>2, <2>3 DEF sunxi_secure_object_write, TypeInv, TypeOK, Bounded, disk
  <2>5. Args'
    <3> SUFFICES ASSUME NEW s \in Threads PROVE ArgsOf(s)'
      BY DEF Args
    <3>1. pc'[s] \in {"idle", "wkey"} => pc'[s] = pc[s]
      BY <2>1 DEF TypeInv, TypeOK
    <3> QED BY <3>1, <2>1 DEF sunxi_secure_object_write, TypeInv, Args, ArgsOf
  <2> QED BY <2>4, <2>5 DEF TypeInv
<1>6. CASE w.val \notin BigValues /\ f.index # 0
  <2>1. /\ ram' = f.map
        /\ idx' = [idx EXCEPT ![t] = f.index]
        /\ pc' = [pc EXCEPT ![t] = "wkey"]
        /\ bad' = bad
    BY <1>6 DEF sunxi_secure_object_write, w, f
  <2>2. idx' \in [Threads -> Items \cup {0}]
    BY <2>1, <1>4 DEF TypeInv, TypeOK
  <2>3. pc' \in [Threads -> PCs]
    BY <2>1 DEF TypeInv, TypeOK, PCs
  <2>4. TypeOK' /\ Bounded'
    BY <2>1, <2>2, <2>3, <1>4 DEF sunxi_secure_object_write, TypeInv, TypeOK, Bounded, disk
  <2>5. Args'
    <3> SUFFICES ASSUME NEW s \in Threads PROVE ArgsOf(s)'
      BY DEF Args
    <3>1. ArgsOf(s) /\ op' = op /\ todo' = todo /\ at' = at
      BY DEF sunxi_secure_object_write, TypeInv, Args
    <3>2. CASE s = t
      <4>1. pc'[s] = "wkey" /\ idx'[s] \in Items
        BY <3>2, <2>1, <1>4, <1>6 DEF TypeInv, TypeOK
      <4> QED BY <4>1, <3>1, <3>2, <1>1 DEF ArgsOf
    <3>3. CASE s # t
      BY <3>1, <3>3, <2>1 DEF ArgsOf
    <3> QED BY <3>2, <3>3
  <2> QED BY <2>4, <2>5 DEF TypeInv
<1> QED BY <1>5, <1>6

\* What wrap_secure_object writes is a key object.
LEMMA WrappedType ==
  ASSUME TypeInv, NEW t \in Threads, pc[t] = "wkey"
  PROVE  /\ Wrapped(t) \in Keys
         /\ idx[t] \in Items
         /\ keyItem[idx[t]] \in [raw : Keys, backup : Keys]
         /\ TornKey \in SUBSET Keys
<1>1. op[t] \in Writers /\ idx[t] \in Items /\ ArgsOf(t)
  BY DEF TypeInv, Args, ArgsOf
<1>2. todo[t][at[t]] \in [name : Names, val : Values]
  BY <1>1, ElementType DEF ArgsOf
<1>3. Wrapped(t) \in Objects
  BY <1>2 DEF Wrapped, Object, Objects
<1> QED BY <1>1, <1>3 DEF TypeInv, TypeOK, Keys, TornKey

\* The write of the key returned 0; a batch goes on with its next key.
LEMMA WroteKeyTypes ==
  ASSUME TypeInv, NEW t \in Threads, WroteKey(t), NEW it \in [raw : Keys, backup : Keys],
         keyItem' = [keyItem EXCEPT ![idx[t]] = it],
         faults' \in 0 .. MaxFaults, lost' \in SUBSET Names
  PROVE  TypeInv'
<1>1. pc[t] = "wkey" /\ ArgsOf(t)
  BY DEF WroteKey, TypeInv, Args
<1>3. keyItem' \in [Items -> [raw : Objects \cup {BAD}, backup : Objects \cup {BAD}]]
  BY DEF TypeInv, TypeOK, Keys
<1>4. dirty' \in BOOLEAN
  BY DEF WroteKey, MarkDirty
<1>5. pc' \in [Threads -> PCs]
  <2>1. pc' = [pc EXCEPT ![t] = "body"] \/ pc' = [pc EXCEPT ![t] = "exit"]
    BY DEF WroteKey
  <2> QED BY <2>1 DEF TypeInv, TypeOK, PCs
<1>6. at' \in [Threads -> Nat \ {0}]
  <2>1. at' = at \/ at' = [at EXCEPT ![t] = at[t] + 1]
    BY DEF WroteKey
  <2>2. at \in [Threads -> Nat \ {0}] /\ at[t] + 1 \in Nat \ {0}
    BY DEF TypeInv, TypeOK
  <2> QED BY <2>1, <2>2
<1>7. TypeOK' /\ Bounded'
  BY <1>3, <1>4, <1>5, <1>6 DEF WroteKey, TypeInv, TypeOK, Bounded
<1>8. Args'
  <2> SUFFICES ASSUME NEW s \in Threads PROVE ArgsOf(s)'
    BY DEF Args
  <2>1. /\ ArgsOf(s) /\ op' = op /\ todo' = todo /\ idx' = idx
        /\ pc'[s] \in {"idle", "wkey"} => pc'[s] = pc[s]
    BY DEF WroteKey, TypeInv, TypeOK, Args
  <2>2. CASE at' = at
    BY <2>1, <2>2 DEF ArgsOf
  <2>3. CASE at' = [at EXCEPT ![t] = @ + 1] /\ at[t] < Len(todo[t])
    <3>1. CASE s # t
      BY <3>1, <2>1, <2>3 DEF ArgsOf
    <3>2. CASE s = t
      <4>1. op[t] \in Writers /\ todo[t] \in Seq([name : Names, val : Values]) /\ at[t] \in DOMAIN todo[t]
        BY <1>1 DEF ArgsOf
      <4>2. at'[t] = at[t] + 1
        BY <2>3 DEF TypeInv, TypeOK
      <4>3. at'[t] \in DOMAIN todo[t]
        BY <2>3, <4>1, <4>2
      <4>4. pc'[s] # "idle" /\ pc'[s] # "wkey"
        BY <3>2, <1>1 DEF WroteKey, TypeInv, TypeOK
      <4> QED BY <2>1, <3>2, <4>3, <4>4 DEF ArgsOf
    <3> QED BY <3>1, <3>2
  <2> QED BY <2>2, <2>3 DEF WroteKey
<1> QED BY <1>7, <1>8 DEF TypeInv

\* The key is on the device.
LEMMA KeyWrittenTypes ==
  ASSUME TypeInv, NEW t \in Threads, KeyWritten(t)
  PROVE  TypeInv'
<1>1. nv_write(keyItem[idx[t]], Wrapped(t)) \in [raw : Keys, backup : Keys]
  BY WrappedType, WriteType DEF KeyWritten, WroteKey
<1>2. faults' \in 0 .. MaxFaults /\ lost' \in SUBSET Names
  BY DEF KeyWritten, TypeInv, TypeOK
<1> QED BY <1>1, <1>2, WroteKeyTypes DEF KeyWritten

\* The name of the key that is written.
LEMMA WrittenName ==
  ASSUME TypeInv, NEW t \in Threads, pc[t] = "wkey"
  PROVE  todo[t][at[t]].name \in Names
<1>1. todo[t][at[t]] \in [name : Names, val : Values]
  BY ElementType DEF TypeInv, Args, ArgsOf
<1> QED BY <1>1

\* A copy of the key is not, and nobody is told.
LEMMA KeyWriteDroppedTypes ==
  ASSUME TypeInv, NEW t \in Threads, KeyWriteDropped(t)
  PROVE  TypeInv'
<1>1. PICK it \in DroppedWrite(keyItem[idx[t]], Wrapped(t), TornKey, TornKey) :
        /\ keyItem' = [keyItem EXCEPT ![idx[t]] = it]
        /\ lost' = lost \/ lost' = lost \cup {todo[t][at[t]].name}
  BY DEF KeyWriteDropped
<1>2. it \in [raw : Keys, backup : Keys] /\ todo[t][at[t]].name \in Names
  BY WrappedType, WriteType, WrittenName DEF KeyWriteDropped, WroteKey
<1>3. lost' \in SUBSET Names
  BY <1>1, <1>2 DEF TypeInv, TypeOK
<1>4. faults' \in 0 .. MaxFaults
  BY ConstantTypes DEF KeyWriteDropped, TypeInv, TypeOK
<1> QED BY <1>1, <1>2, <1>3, <1>4, WroteKeyTypes DEF KeyWriteDropped

\* The write of the key fails in either copy.
LEMMA KeyWriteFailsTypes ==
  ASSUME TypeInv, NEW t \in Threads, KeyWriteFails(t)
  PROVE  TypeInv'
<1>1. PICK it \in FailedWrite(keyItem[idx[t]], Wrapped(t), TornKey, TornKey) :
        keyItem' = [keyItem EXCEPT ![idx[t]] = it]
  BY DEF KeyWriteFails
<1>2. it \in [raw : Keys, backup : Keys]
  BY WrappedType, WriteType DEF KeyWriteFails
<1>3. keyItem' \in [Items -> [raw : Objects \cup {BAD}, backup : Objects \cup {BAD}]]
  BY <1>1, <1>2 DEF TypeInv, TypeOK, Keys
<1>4. dirty' \in BOOLEAN
  BY DEF KeyWriteFails, MarkDirty
<1>5. pc' \in [Threads -> PCs]
  BY DEF KeyWriteFails, TypeInv, TypeOK, PCs
<1>6. bad' \in [Threads -> BOOLEAN]
  BY DEF KeyWriteFails, TypeInv, TypeOK
<1>7. faults' \in 0 .. MaxFaults
  BY ConstantTypes DEF KeyWriteFails, TypeInv, TypeOK
<1>8. TypeOK' /\ Bounded'
  BY <1>3, <1>4, <1>5, <1>6, <1>7 DEF KeyWriteFails, TypeInv, TypeOK, Bounded
<1>9. Args'
  <2> SUFFICES ASSUME NEW s \in Threads PROVE ArgsOf(s)'
    BY DEF Args
  <2>1. pc'[s] \in {"idle", "wkey"} => pc'[s] = pc[s]
    BY DEF KeyWriteFails, TypeInv, TypeOK
  <2> QED BY <2>1 DEF KeyWriteFails, TypeInv, Args, ArgsOf
<1> QED BY <1>8, <1>9 DEF TypeInv

\* sunxi_secure_object_read.
LEMMA ObjectReadTypes ==
  ASSUME TypeInv, NEW t \in Threads, sunxi_secure_object_read(t)
  PROVE  TypeInv'
<1> DEFINE p == probe_name_in_map(ram, todo[t][1].name)
<1>1. PICK u \in SUBSET Copies :
        /\ faults' = faults + Cardinality(u) /\ faults' <= MaxFaults
        /\ got' = [got EXCEPT ![t] = IF p = 0 THEN BAD ELSE nv_read_key(keyItem[p], u)]
  BY DEF sunxi_secure_object_read
<1>2. 1 \in DOMAIN todo[t]
  BY DEF sunxi_secure_object_read, TypeInv, Args, ArgsOf
<1>3. todo[t][1] \in [name : Names, val : Values \cup {BAD}]
  BY <1>2, ElementType DEF TypeInv, TypeOK
<1>4. p \in DOMAIN ram \cup {0}
  BY <1>3, ProbeRange DEF TypeInv, TypeOK
<1> HIDE DEF p
<1>5. DOMAIN ram \subseteq Items
  BY ConstantTypes DEF TypeInv, TypeOK, Bounded, Items
<1>6. p # 0 => nv_read_key(keyItem[p], u) \in Keys
  BY <1>4, <1>5, ReadKeyType DEF TypeInv, TypeOK, Keys
<1>7. got' \in [Threads -> Objects \cup {BAD}]
  BY <1>1, <1>6 DEF TypeInv, TypeOK, Keys
<1>8. faults' \in 0 .. MaxFaults
  BY <1>1, FaultTypes
<1>9. bad' \in [Threads -> BOOLEAN]
  BY DEF sunxi_secure_object_read, TypeInv, TypeOK
<1>10. pc' \in [Threads -> PCs]
  BY DEF sunxi_secure_object_read, TypeInv, TypeOK, PCs
<1>11. TypeOK' /\ Bounded'
  BY <1>7, <1>8, <1>9, <1>10
     DEF sunxi_secure_object_read, TypeInv, TypeOK, Bounded, disk, memory
<1>12. Args'
  <2> SUFFICES ASSUME NEW s \in Threads PROVE ArgsOf(s)'
    BY DEF Args
  <2>1. pc'[s] \in {"idle", "wkey"} => pc'[s] = pc[s]
    BY DEF sunxi_secure_object_read, TypeInv, TypeOK
  <2> QED BY <2>1 DEF sunxi_secure_object_read, TypeInv, Args, ArgsOf
<1> QED BY <1>11, <1>12 DEF TypeInv

\* sunxi_secure_object_erase: the empty map fits.
LEMMA ObjectEraseTypes ==
  ASSUME TypeInv, NEW t \in Threads, sunxi_secure_object_erase(t)
  PROVE  TypeInv'
<1>1. pc' \in [Threads -> PCs]
  BY DEF sunxi_secure_object_erase, TypeInv, TypeOK, PCs
<1>2. ram' \in Seq(Names) /\ Len(ram') < MaxItem
  BY ConstantTypes DEF sunxi_secure_object_erase
<1>3. dirty' \in BOOLEAN
  BY DEF sunxi_secure_object_erase
<1>4. TypeOK' /\ Bounded'
  BY <1>1, <1>2, <1>3 DEF sunxi_secure_object_erase, TypeInv, TypeOK, Bounded, disk
<1>5. Args'
  <2> SUFFICES ASSUME NEW s \in Threads PROVE ArgsOf(s)'
    BY DEF Args
  <2>1. pc'[s] \in {"idle", "wkey"} => pc'[s] = pc[s]
    BY DEF sunxi_secure_object_erase, TypeInv, TypeOK
  <2> QED BY <2>1 DEF sunxi_secure_object_erase, TypeInv, Args, ArgsOf
<1> QED BY <1>4, <1>5 DEF TypeInv

\* sunxi_secure_object_list, with its early return.
LEMMA ObjectListTypes ==
  ASSUME TypeInv, NEW t \in Threads, sunxi_secure_object_list(t)
  PROVE  TypeInv'
<1>1. PICK u \in SUBSET Copies : faults' = faults + Cardinality(u) /\ faults' <= MaxFaults
  BY DEF sunxi_secure_object_list
<1>2. faults' \in 0 .. MaxFaults
  BY <1>1, FaultTypes
<1>3. op' = op /\ todo' = todo /\ mapItem' = mapItem /\ ram' = ram
  BY DEF sunxi_secure_object_list, disk, memory
<1>4. ReturnTyped
  <2>1. CASE Return(t, "fail")
    BY <2>1, <1>3, ReturnTypes
  <2>2. CASE /\ pc' = [pc EXCEPT ![t] = "exit"]
             /\ UNCHANGED <<stage, at, idx, bad, ret, allowed>>
    <3>1. pc' \in [Threads -> PCs]
      BY <2>2 DEF TypeInv, TypeOK, PCs
    <3>2. Args'
      <4> SUFFICES ASSUME NEW s \in Threads PROVE ArgsOf(s)'
        BY DEF Args
      <4>1. pc'[s] \in {"idle", "wkey"} => pc'[s] = pc[s]
        BY <2>2 DEF TypeInv, TypeOK
      <4> QED BY <4>1, <2>2, <1>3 DEF TypeInv, Args, ArgsOf
    <3> QED BY <3>1, <3>2, <2>2 DEF ReturnTyped, TypeInv, TypeOK
  <2> QED BY <2>1, <2>2 DEF sunxi_secure_object_list
<1>5. TypeOK' /\ Bounded'
  BY <1>2, <1>3, <1>4
     DEF sunxi_secure_object_list, ReturnTyped, TypeInv, TypeOK, Bounded, disk, memory
<1> QED BY <1>4, <1>5 DEF ReturnTyped, TypeInv

\* sunxi_secure_storage_exit, whatever becomes of the map on the device.
LEMMA LeaveTypes ==
  ASSUME TypeInv, NEW t \in Threads, pc[t] = "exit", NEW saved \in BOOLEAN,
         Leave(t, saved), UNCHANGED <<keyItem, ram, op, todo, got, wild>>,
         lost' \in SUBSET Names,
         mapItem' \in [raw : FitMaps, backup : FitMaps],
         faults' \in 0 .. MaxFaults
  PROVE  TypeInv'
<1>1. mutex' \in Threads \cup {NoThread}
  BY DEF Leave, Unlock
<1>2. inited' \in BOOLEAN /\ dirty' \in BOOLEAN
  BY DEF Leave, Unload
<1>3. ReturnTyped
  <2>1. CASE stage[t] = "support"
    <3>1. /\ pc' = [pc EXCEPT ![t] = "init"]
          /\ stage' = [stage EXCEPT ![t] = "main"]
          /\ UNCHANGED <<at, idx, bad, ret, allowed>>
      BY <2>1 DEF Leave, AfterExit
    <3>2. pc' \in [Threads -> PCs] /\ stage' \in [Threads -> {"support", "main"}]
      BY <3>1 DEF TypeInv, TypeOK, PCs
    <3>3. Args'
      <4> SUFFICES ASSUME NEW s \in Threads PROVE ArgsOf(s)'
        BY DEF Args
      <4>1. pc'[s] \in {"idle", "wkey"} => pc'[s] = pc[s]
        BY <3>1 DEF TypeInv, TypeOK
      <4> QED BY <4>1, <3>1 DEF TypeInv, Args, ArgsOf
    <3> QED BY <3>1, <3>2, <3>3 DEF ReturnTyped, TypeInv, TypeOK
  <2>2. CASE stage[t] # "support"
    <3>1. PICK r \in {"ok", "fail"} : Return(t, r)
      BY <2>2 DEF Leave, AfterExit
    <3> QED BY <3>1, ReturnTypes
  <2> QED BY <2>1, <2>2
<1>4. mapItem' \in [raw : Maps, backup : Maps]
  BY DEF FitMaps
<1>5. TypeOK'
  BY <1>1, <1>2, <1>3, <1>4 DEF ReturnTyped, TypeInv, TypeOK
<1>6. Bounded'
  BY DEF TypeInv, Bounded
<1> QED BY <1>3, <1>5, <1>6 DEF ReturnTyped, TypeInv

\* What a save of the map in memory may leave on the device.
LEMMA SaveTypes ==
  ASSUME TypeInv
  PROVE  /\ GoodMap(ram) \in FitMaps
         /\ TornMap(mapItem.raw, GoodMap(ram)) \in SUBSET FitMaps
         /\ TornMap(mapItem.backup, GoodMap(ram)) \in SUBSET FitMaps
         /\ mapItem \in [raw : FitMaps, backup : FitMaps]
BY TornMapType DEF TypeInv, TypeOK, Bounded

\* sunxi_secure_storage_exit: the map that is saved fits.
LEMMA StorageExitTypes ==
  ASSUME TypeInv, NEW t \in Threads, sunxi_secure_storage_exit(t)
  PROVE  TypeInv'
<1>1. CASE ExitClean(t)
  <2>1. /\ pc[t] = "exit" /\ Leave(t, TRUE)
        /\ UNCHANGED <<keyItem, ram, op, todo, got, wild>>
        /\ mapItem' = mapItem /\ faults' = faults /\ lost' \in SUBSET Names
    BY <1>1 DEF ExitClean, disk, TypeInv, TypeOK
  <2>2. mapItem' \in [raw : FitMaps, backup : FitMaps] /\ faults' \in 0 .. MaxFaults
    BY <2>1 DEF TypeInv, TypeOK, Bounded
  <2> QED BY <2>1, <2>2, LeaveTypes
<1>2. CASE ExitSaves(t)
  <2>1. /\ pc[t] = "exit" /\ Leave(t, TRUE)
        /\ UNCHANGED <<keyItem, ram, op, todo, got, wild>>
        /\ mapItem' = nv_write(mapItem, GoodMap(ram)) /\ faults' = faults
        /\ lost' \in SUBSET Names
    BY <1>2 DEF ExitSaves, TypeInv, TypeOK
  <2>2. mapItem' \in [raw : FitMaps, backup : FitMaps]
    BY <2>1, SaveTypes, WriteType
  <2>3. faults' \in 0 .. MaxFaults
    BY <2>1 DEF TypeInv, TypeOK
  <2> QED BY <2>1, <2>2, <2>3, LeaveTypes
<1>3. CASE ExitFails(t)
  <2>1. /\ pc[t] = "exit" /\ Leave(t, FALSE)
        /\ UNCHANGED <<keyItem, ram, op, todo, got, wild>>
        /\ mapItem' \in FailedWrite(mapItem, GoodMap(ram),
                          TornMap(mapItem.raw, GoodMap(ram)),
                          TornMap(mapItem.backup, GoodMap(ram)))
        /\ faults < MaxFaults /\ faults' = faults + 1 /\ lost' \in SUBSET Names
    BY <1>3 DEF ExitFails, TypeInv, TypeOK
  <2>2. mapItem' \in [raw : FitMaps, backup : FitMaps]
    BY <2>1, SaveTypes, WriteType
  <2>3. faults' \in 0 .. MaxFaults
    BY <2>1, ConstantTypes DEF TypeInv, TypeOK
  <2> QED BY <2>1, <2>2, <2>3, LeaveTypes
<1>4. CASE ExitDropped(t)
  <2>1. /\ pc[t] = "exit" /\ Leave(t, TRUE)
        /\ UNCHANGED <<keyItem, ram, op, todo, got, wild>>
        /\ mapItem' \in DroppedWrite(mapItem, GoodMap(ram),
                          TornMap(mapItem.raw, GoodMap(ram)),
                          TornMap(mapItem.backup, GoodMap(ram)))
        /\ faults < MaxFaults /\ faults' = faults + 1
        /\ lost' = lost \/ lost' = lost \cup Touched(t)
    BY <1>4 DEF ExitDropped
  <2>2. mapItem' \in [raw : FitMaps, backup : FitMaps]
    BY <2>1, SaveTypes, WriteType
  <2>3. faults' \in 0 .. MaxFaults
    BY <2>1, ConstantTypes DEF TypeInv, TypeOK
  <2>4. lost' \in SUBSET Names
    BY <2>1 DEF Touched, TypeInv, TypeOK
  <2> QED BY <2>1, <2>2, <2>3, <2>4, LeaveTypes
<1> QED BY <1>1, <1>2, <1>3, <1>4 DEF sunxi_secure_storage_exit

\* A restart, and a power cut in the write of a key or of the map.
LEMMA CrashTypes ==
  ASSUME TypeInv,
         Restart \/ \E t \in Threads : CutKeyWrite(t) \/ CutMapWrite(t)
  PROVE  TypeInv'
<1>1. CASE Restart
  <2>1. /\ Reboot
        /\ mapItem' \in [raw : FitMaps, backup : FitMaps]
        /\ keyItem' \in [Items -> [raw : Keys, backup : Keys]]
        /\ faults' \in 0 .. MaxFaults
    BY <1>1 DEF Restart, disk, TypeInv, TypeOK, Bounded, Keys
  <2> QED BY <2>1, RebootTypes
<1>2. ASSUME NEW t \in Threads, CutKeyWrite(t) PROVE TypeInv'
  <2>1. PICK it \in CutWrite(keyItem[idx[t]], Wrapped(t), TornKey, TornKey) :
          keyItem' = [keyItem EXCEPT ![idx[t]] = it]
    BY <1>2 DEF CutKeyWrite
  <2>2. it \in [raw : Keys, backup : Keys]
    BY <1>2, WrappedType, WriteType DEF CutKeyWrite
  <2>3. keyItem' \in [Items -> [raw : Keys, backup : Keys]]
    BY <2>1, <2>2 DEF TypeInv, TypeOK, Keys
  <2>4. mapItem' \in [raw : FitMaps, backup : FitMaps] /\ Reboot
    BY <1>2 DEF CutKeyWrite, TypeInv, Bounded
  <2>5. faults' \in 0 .. MaxFaults
    BY <1>2, ConstantTypes DEF CutKeyWrite, TypeInv, TypeOK
  <2> QED BY <2>3, <2>4, <2>5, RebootTypes
<1>3. ASSUME NEW t \in Threads, CutMapWrite(t) PROVE TypeInv'
  <2>1. /\ mapItem' \in CutWrite(mapItem, GoodMap(ram),
                          TornMap(mapItem.raw, GoodMap(ram)),
                          TornMap(mapItem.backup, GoodMap(ram)))
        /\ keyItem' = keyItem /\ Reboot
        /\ faults < MaxFaults /\ faults' = faults + 1
    BY <1>3 DEF CutMapWrite
  <2>2. mapItem' \in [raw : FitMaps, backup : FitMaps]
    BY <2>1, SaveTypes, WriteType
  <2>3. keyItem' \in [Items -> [raw : Keys, backup : Keys]]
    BY <2>1 DEF TypeInv, TypeOK, Keys
  <2>4. faults' \in 0 .. MaxFaults
    BY <2>1, ConstantTypes DEF TypeInv, TypeOK
  <2> QED BY <2>1, <2>2, <2>3, <2>4, RebootTypes
<1> QED BY <1>1, <1>2, <1>3

\* Nothing happens.
LEMMA StutterTypes == TypeInv /\ UNCHANGED vars => TypeInv'
<1> SUFFICES ASSUME TypeInv, UNCHANGED vars PROVE TypeInv'
  OBVIOUS
<1>1. TypeOK' /\ Bounded'
  BY DEF vars, TypeInv, TypeOK, Bounded
<1>2. Args'
  BY DEF vars, TypeInv, Args, ArgsOf
<1> QED BY <1>1, <1>2 DEF TypeInv

\* Every step keeps the invariant.
LEMMA NextTypes == TypeInv /\ [Next]_vars => TypeInv'
<1> SUFFICES ASSUME TypeInv, [Next]_vars PROVE TypeInv'
  OBVIOUS
<1>1. CASE UNCHANGED vars
  BY <1>1, StutterTypes
<1>2. ASSUME NEW t \in Threads, Call(t) PROVE TypeInv'
  BY <1>2, CallTypes
<1>3. ASSUME NEW t \in Threads, Step(t) PROVE TypeInv'
  BY <1>3, StorageInitTypes, ObjectWriteTypes, KeyWrittenTypes, KeyWriteDroppedTypes, KeyWriteFailsTypes,
     ObjectReadTypes, ObjectEraseTypes, ObjectListTypes, StorageExitTypes DEF Step
<1>4. CASE Restart \/ \E t \in Threads : CutKeyWrite(t) \/ CutMapWrite(t)
  BY <1>4, CrashTypes
<1> QED BY <1>1, <1>2, <1>3, <1>4 DEF Next

\* Whatever the constants are, the variables keep their types; no call hands
\* the device an item number it does not have (__fill_name_in_map,
\* sunxi_secstorage_write).
THEOREM TypeCorrect == Spec => []TypeOK
<1>1. TypeInv => TypeOK
  BY DEF TypeInv
<1> QED BY <1>1, InitTypeInv, NextTypes, PTL DEF Spec

-----------------------------------------------------------------------------
(* The mutex.  A step of a thread enters, stays between init and exit,       *)
(* leaves, or stays outside; only the list has another way out.              *)

Inside == {"body", "wkey", "exit"}

Moves(t, loc) == pc' = [pc EXCEPT ![t] = loc]

Enters(t) == mutex = NoThread /\ mutex' = t /\ \E loc \in Inside : Moves(t, loc)
Stays(t)  == pc[t] \in Inside /\ mutex' = mutex /\ \E loc \in Inside : Moves(t, loc)
Leaves(t) ==
  pc[t] \in Inside /\ mutex' = NoThread /\ \E loc \in {"init", "idle"} : Moves(t, loc)
Waits(t)  ==
  pc[t] \notin Inside /\ mutex' = mutex /\ \E loc \in {"init", "idle"} : Moves(t, loc)

Held == \A t \in Threads : mutex = t <=> pc[t] \in Inside

LockInv == TypeInv /\ Held

\* Each of the four kinds of steps keeps the mutex with the thread inside.
LEMMA MovesHold ==
  ASSUME LockInv, NEW t \in Threads, Enters(t) \/ Stays(t) \/ Leaves(t) \/ Waits(t)
  PROVE  Held'
<1>1. pc \in [Threads -> PCs] /\ NoThread \notin Threads
  BY ConstantsAssumption DEF LockInv, TypeInv, TypeOK
<1>2. ASSUME NEW loc, Moves(t, loc), NEW u \in Threads
      PROVE  pc'[u] = IF u = t THEN loc ELSE pc[u]
  BY <1>1, <1>2 DEF Moves
<1>3. CASE Enters(t)
  BY <1>1, <1>2, <1>3 DEF Enters, LockInv, Held, Inside
<1>4. CASE Stays(t)
  BY <1>1, <1>2, <1>4 DEF Stays, LockInv, Held, Inside
<1>5. CASE Leaves(t)
  BY <1>1, <1>2, <1>5 DEF Leaves, LockInv, Held, Inside
<1>6. CASE Waits(t)
  BY <1>1, <1>2, <1>6 DEF Waits, LockInv, Held, Inside
<1> QED  BY <1>3, <1>4, <1>5, <1>6

\* A new process holds nothing.
LEMMA RebootHolds == Reboot => Held'
  BY ConstantsAssumption DEF Reboot, Held, Inside

\* sunxi_secure_storage_init locks when it succeeds and not when it fails.
LEMMA InitMoves ==
  ASSUME LockInv, NEW t \in Threads, sunxi_secure_storage_init(t)
  PROVE  Enters(t) \/ Waits(t)
<1>1. CASE InitDone(t) /\ CanLock(t)
  BY <1>1 DEF InitDone, CanLock, Enters, Moves, Inside
<1>2. CASE InitFails(t)
  BY <1>2 DEF InitFails, Return, memory, Waits, Moves, Inside
<1> QED  BY <1>1, <1>2 DEF sunxi_secure_storage_init, InitLoaded, InitLoads

\* The bodies of the other calls leave the mutex alone.
LEMMA BodyMoves ==
  ASSUME NEW t \in Threads,
         \/ sunxi_secure_object_write(t) \/ KeyWritten(t) \/ KeyWriteDropped(t)
         \/ KeyWriteFails(t) \/ sunxi_secure_object_read(t) \/ sunxi_secure_object_erase(t)
  PROVE  Stays(t)
<1>1. CASE sunxi_secure_object_write(t)
  BY <1>1 DEF sunxi_secure_object_write, Stays, Moves, Inside
<1>2. CASE KeyWritten(t)
  BY <1>2 DEF KeyWritten, WroteKey, Stays, Moves, Inside
<1>3. CASE KeyWriteFails(t)
  BY <1>3 DEF KeyWriteFails, Stays, Moves, Inside
<1>4. CASE sunxi_secure_object_read(t)
  BY <1>4 DEF sunxi_secure_object_read, memory, Stays, Moves, Inside
<1>5. CASE sunxi_secure_object_erase(t)
  BY <1>5 DEF sunxi_secure_object_erase, Stays, Moves, Inside
<1>6. CASE KeyWriteDropped(t)
  BY <1>6 DEF KeyWriteDropped, WroteKey, Stays, Moves, Inside
<1> QED  BY <1>1, <1>2, <1>3, <1>4, <1>5, <1>6

\* sunxi_secure_storage_exit unlocks on every path.
LEMMA ExitMoves ==
  ASSUME NEW t \in Threads, sunxi_secure_storage_exit(t)
  PROVE  Leaves(t)
<1>1. PICK saved \in BOOLEAN : pc[t] = "exit" /\ Leave(t, saved)
  BY DEF sunxi_secure_storage_exit, ExitClean, ExitSaves, ExitDropped, ExitFails
<1>2. \E loc \in {"init", "idle"} : Moves(t, loc)
  BY <1>1 DEF Leave, AfterExit, Return, Moves
<1> QED  BY <1>1, <1>2 DEF Leave, Unlock, Leaves, Inside

\* Every step keeps the mutex with the thread inside, if a list does that ends its
\* body.
LEMMA NextHolds ==
  ASSUME LockInv, [Next]_vars,
         \A t \in Threads : sunxi_secure_object_list(t) => Stays(t)
  PROVE  Held'
<1>1. CASE UNCHANGED vars
  BY <1>1 DEF vars, LockInv, Held
<1>2. ASSUME NEW t \in Threads, Call(t) PROVE Held'
  <2>1. Waits(t)
    BY <1>2 DEF Call, memory, Waits, Moves, Inside
  <2> QED  BY <2>1, MovesHold
<1>3. ASSUME NEW t \in Threads, Step(t) PROVE Held'
  BY <1>3, InitMoves, BodyMoves, ExitMoves, MovesHold DEF Step
<1>4. CASE Restart \/ \E t \in Threads : CutKeyWrite(t) \/ CutMapWrite(t)
  BY <1>4, RebootHolds DEF Restart, CutKeyWrite, CutMapWrite
<1> QED  BY <1>1, <1>2, <1>3, <1>4 DEF Next

\* No thread holds the mutex at first.
LEMMA InitHolds == Init => Held
  BY ConstantsAssumption DEF Init, Held, Inside

\* sec_mutex is held exactly between init and exit, for any number of threads,
\* faults and restarts, as long as nobody calls sunxi_secure_object_list, whose
\* early return (secure_storage.c:1056, :1078) keeps the mutex.
THEOREM MutexDiscipline == "list" \notin Kinds => (Spec => []LockDiscipline)
<1> SUFFICES ASSUME "list" \notin Kinds PROVE Spec => []LockDiscipline
  OBVIOUS
<1>1. Init => LockInv
  BY InitTypeInv, InitHolds DEF LockInv
<1>2. LockInv /\ [Next]_vars => LockInv'
  <2> SUFFICES ASSUME LockInv, [Next]_vars PROVE LockInv'
    OBVIOUS
  <2>1. \A t \in Threads : ~sunxi_secure_object_list(t)
    BY DEF sunxi_secure_object_list, LockInv, TypeInv, TypeOK
  <2> QED  BY <2>1, NextHolds, NextTypes DEF LockInv
<1>3. LockInv => LockDiscipline
  BY DEF LockInv, Held, Inside, LockDiscipline
<1> QED  BY <1>1, <1>2, <1>3, PTL DEF Spec
=============================================================================
