------------------------ MODULE ParallelInsmodProofs ------------------------
(***************************************************************************)
(* The order of the heights, for every list and any number of threads.     *)
(* The barrier looks at insmoding only.  That nothing of a lower height is *)
(* going on when insmoding is 0 takes three facts together: insmoding      *)
(* counts the threads between count and put, the children that have not    *)
(* been collected are as many as the threads that wait, and a line that    *)
(* has been read but not started is in the hands of a thread.              *)
(***************************************************************************)
EXTENDS ParallelInsmod, FiniteSetTheorems, TLAPS

Places == {"new", "get", "read", "barrier", "asleep", "count", "fork", "wait",
           "put", "done"}

Types ==
  /\ main \in {"open", "create", "join"} \cup Ended
  /\ pos \in 0 .. Len(Lines)
  /\ lock \in Threads \cup {Nobody}
  /\ cur_height \in Nat
  /\ insmoding \in Nat
  /\ pc \in [Threads -> Places]
  /\ mine \in [Threads -> 0 .. Len(Lines)]
  /\ insmod \in [LineNos -> {"none", "alive", "dead", "gone"}]
  /\ faults \in 0 .. MaxFaults

Waiting == {t \in Threads : pc[t] = "wait"}

Busy == {t \in Threads : pc[t] \in {"fork", "wait", "put"}}

CountInv == insmoding = Cardinality(Busy)

\* the threads inside get_module
LockInv ==
  \A t \in Threads : pc[t] \in {"read", "barrier", "asleep", "count"} => lock = t

Holds(t, i) == pc[t] \in {"count", "fork"} /\ mine[t] = i

\* a line that was read and not started is held by one thread
MineInv ==
  /\ \A t \in Threads : pc[t] \in {"count", "fork"} =>
        mine[t] \in Modules /\ mine[t] <= pos /\ insmod[mine[t]] = "none"
  /\ \A t \in Threads, u \in Threads : \A i \in LineNos :
        Holds(t, i) /\ Holds(u, i) => t = u
  /\ \A i \in Modules : i <= pos /\ insmod[i] = "none" => \E t \in Threads : Holds(t, i)

LineInv == \A i \in LineNos : i > pos => insmod[i] = "none"

AtBarrier == \E t \in Threads : pc[t] \in {"barrier", "asleep"}

PosInv == Height(pos) = cur_height + (IF AtBarrier THEN 1 ELSE 0)

HeightInv ==
  \A i \in Modules : i <= pos =>
     Height(i) <= cur_height /\ (insmod[i] # "gone" => Height(i) = cur_height)

\* how main comes to its end
EndInv ==
  /\ main \in {"join", "done"} => Threads # {}
  /\ main = "done" => \A t \in Threads : pc[t] = "done"
  /\ \A t \in Threads : pc[t] = "done" /\ faults = 0 => pos = Len(Lines)

IInv ==
  /\ Types /\ CountInv /\ AChildForEach /\ LockInv /\ MineInv /\ LineInv
  /\ PosInv /\ HeightInv /\ EndInv

-----------------------------------------------------------------------------
\* Heights

\* Height counts the headings of a prefix of the list.
LEMMA HeightNat ==
  ASSUME NEW i \in 0 .. Len(Lines)
  PROVE  IsFiniteSet({j \in 1 .. i : Lines[j] = "Height"}) /\ Height(i) \in Nat
<1> DEFINE H == {j \in 1 .. i : Lines[j] = "Height"}
<1>1. Len(Lines) \in Nat
  BY LinesAssumption
<1>2. IsFiniteSet(1 .. i)
  BY <1>1, FS_Interval
<1>3. IsFiniteSet(H)
  BY <1>2, FS_Subset
<1>4. QED
  BY <1>3, FS_CardinalityType DEF Height

\* One more line adds one for a heading and nothing for a module.
LEMMA HeightStep ==
  ASSUME NEW i \in 0 .. Len(Lines), i < Len(Lines)
  PROVE  Height(i + 1) = Height(i) + (IF Lines[i + 1] = "Height" THEN 1 ELSE 0)
<1> DEFINE H(k) == {j \in 1 .. k : Lines[j] = "Height"}
<1>1. Len(Lines) \in Nat
  BY LinesAssumption
<1>2. IsFiniteSet(H(i)) /\ Cardinality(H(i)) \in Nat
  BY HeightNat DEF Height
<1>3. CASE Lines[i + 1] = "Height"
  <2>1. H(i + 1) = H(i) \cup {i + 1} /\ i + 1 \notin H(i)
    BY <1>1, <1>3
  <2>2. Cardinality(H(i + 1)) = Cardinality(H(i)) + 1
    BY <1>2, <2>1, FS_AddElement
  <2>3. QED
    BY <1>3, <2>2 DEF Height
<1>4. CASE Lines[i + 1] # "Height"
  <2>1. H(i + 1) = H(i)
    BY <1>1, <1>4
  <2>2. QED
    BY <1>2, <1>4, <2>1 DEF Height
<1>5. QED
  BY <1>3, <1>4

\* A longer prefix has at least as many headings.
LEMMA HeightMonotone ==
  ASSUME NEW i \in 0 .. Len(Lines), NEW k \in 0 .. Len(Lines), i <= k
  PROVE  Height(i) <= Height(k)
<1> DEFINE H(n) == {j \in 1 .. n : Lines[j] = "Height"}
<1>1. Len(Lines) \in Nat
  BY LinesAssumption
<1>2. H(i) \subseteq H(k)
  BY <1>1
<1>3. IsFiniteSet(H(k))
  BY HeightNat
<1>4. QED
  BY <1>2, <1>3, FS_Subset DEF Height

\* No more headings than lines.
LEMMA HeightBound ==
  ASSUME NEW i \in 0 .. Len(Lines)
  PROVE  Height(i) <= i
<1> DEFINE H == {j \in 1 .. i : Lines[j] = "Height"}
<1>1. Len(Lines) \in Nat
  BY LinesAssumption
<1>2. IsFiniteSet(1 .. i) /\ Cardinality(1 .. i) = i
  BY <1>1, FS_Interval
<1>3. H \subseteq 1 .. i
  OBVIOUS
<1>4. QED
  BY <1>2, <1>3, FS_Subset DEF Height

\* The sets that are counted are finite.
LEMMA Finite ==
  /\ IsFiniteSet(Busy) /\ IsFiniteSet(Waiting) /\ IsFiniteSet(Children)
  /\ Cardinality(Busy) \in Nat /\ Cardinality(Waiting) \in Nat
  /\ Cardinality(Children) \in Nat
<1>1. Len(Lines) \in Nat
  BY LinesAssumption
<1>2. IsFiniteSet(LineNos)
  BY <1>1, FS_Interval DEF LineNos
<1>3. IsFiniteSet(Children)
  BY <1>2, FS_Subset DEF Children
<1>4. IsFiniteSet(Busy) /\ IsFiniteSet(Waiting)
  BY ThreadsAssumption, FS_Subset DEF Busy, Waiting
<1>5. QED
  BY <1>3, <1>4, FS_CardinalityType

-----------------------------------------------------------------------------
\* Initially and when nothing changes

\* Nothing has been read or started before main opens the list.
LEMMA InitInv == Init => IInv
<1> SUFFICES ASSUME Init PROVE IInv
  OBVIOUS
<1> USE DEF Init
<1>1. Len(Lines) \in Nat
  BY LinesAssumption
<1>2. Types
  BY <1>1, FaultsAssumption DEF Types, Places
<1>3. Busy = {} /\ Waiting = {} /\ Children = {}
  BY DEF Busy, Waiting, Children
<1>4. CountInv /\ AChildForEach
  BY <1>3, FS_EmptySet DEF CountInv, AChildForEach, Waiting
<1>5. LockInv /\ MineInv /\ LineInv /\ HeightInv
  <2>1. /\ \A t \in Threads : pc[t] = "new"
        /\ \A i \in LineNos : insmod[i] = "none"
        /\ \A i \in Modules : ~(i <= pos)
    BY <1>1 DEF Modules, LineNos
  <2>2. LockInv /\ LineInv /\ HeightInv
    BY <2>1 DEF LockInv, LineInv, HeightInv
  <2>3. MineInv
    BY <2>1 DEF MineInv, Holds
  <2>4. QED
    BY <2>2, <2>3
<1>6. Height(0) = 0
  <2>1. 0 \in 0 .. Len(Lines)
    BY <1>1
  <2>2. Height(0) \in Nat /\ Height(0) <= 0
    BY <2>1, HeightBound, HeightNat
  <2>3. QED
    BY <2>2
<1>7. PosInv
  BY <1>6 DEF PosInv, AtBarrier
<1>8. EndInv
  BY DEF EndInv
<1>9. QED
  BY <1>2, <1>4, <1>5, <1>7, <1>8 DEF IInv

\* A step that keeps pc, mine, insmod, lock, pos, cur_height and insmoding, as
\* the steps of main do, keeps all that is said of the threads.
LEMMA Frame ==
  ASSUME IInv, UNCHANGED <<pos, lock, cur_height, insmoding, pc, mine, insmod>>
  PROVE  (CountInv /\ AChildForEach /\ LockInv /\ MineInv /\ LineInv /\ PosInv /\ HeightInv)'
<1> USE DEF IInv
<1>1. CountInv' /\ AChildForEach'
  BY DEF CountInv, AChildForEach, Busy, Children
<1>2. LockInv' /\ MineInv' /\ LineInv'
  BY DEF LockInv, MineInv, LineInv, Holds
<1>3. PosInv' /\ HeightInv'
  BY DEF PosInv, HeightInv, AtBarrier, Height
<1>4. QED
  BY <1>1, <1>2, <1>3

\* main's own steps, the exits of the program, and stuttering.
LEMMA MainInv ==
  ASSUME IInv,
         \/ Open \/ CreateFails \/ Return \/ Stopped
         \/ \E t \in Threads : ForkFails(t)
         \/ UNCHANGED vars
  PROVE  IInv'
<1>1. UNCHANGED <<pos, lock, cur_height, insmoding, pc, mine, insmod>>
  BY DEF Open, CreateFails, Return, Stopped, ForkFails, ExitFailure, vars
<1>2. (CountInv /\ AChildForEach /\ LockInv /\ MineInv /\ LineInv /\ PosInv /\ HeightInv)'
  BY <1>1, Frame
<1>3. Types'
  BY <1>1, FaultsAssumption DEF IInv, Types, Open, CreateFails, Return, Stopped,
     ForkFails, ExitFailure, Fault, Ended, vars
<1>4. EndInv'
  BY <1>1, FaultsAssumption DEF IInv, Types, EndInv, Open, CreateFails, Return, Stopped,
     ForkFails, ExitFailure, Fault, Ended, Joined, vars
<1>5. QED
  BY <1>2, <1>3, <1>4 DEF IInv

-----------------------------------------------------------------------------
\* The steps that move one thread and leave the lines alone

Sleeping == {"barrier", "asleep"}

\* A thread that goes from one place to another without entering or leaving
\* those that are counted keeps the counts.
LEMMA CountsKept ==
  ASSUME IInv, NEW t \in Threads, NEW l \in Places, Goto(t, l),
         UNCHANGED <<insmoding, insmod>>,
         pc[t] \notin {"fork", "wait", "put"}, l \notin {"fork", "wait", "put"}
  PROVE  CountInv' /\ AChildForEach'
<1>1. Busy' = Busy /\ Waiting' = Waiting /\ Children' = Children
  BY DEF Busy, Waiting, Children, IInv, Types, Goto
<1>2. QED
  BY <1>1 DEF CountInv, AChildForEach, IInv, Waiting

\* The same for the lines in the hands of the threads.
LEMMA LinesKept ==
  ASSUME IInv, NEW t \in Threads, NEW l \in Places, Goto(t, l),
         UNCHANGED <<pos, mine, insmod>>,
         \/ pc[t] \notin {"count", "fork"} /\ l \notin {"count", "fork"}
         \/ pc[t] = "count" /\ l = "fork"
  PROVE  MineInv' /\ LineInv'
<1>1. \A u \in Threads : pc'[u] \in {"count", "fork"} <=> pc[u] \in {"count", "fork"}
  BY DEF IInv, Types, Goto
<1>2. MineInv'
  BY <1>1 DEF IInv, MineInv, Holds
<1>3. LineInv'
  BY DEF IInv, LineInv
<1>4. QED
  BY <1>2, <1>3

\* The same for the heights.
LEMMA HeightsKept ==
  ASSUME IInv, NEW t \in Threads, NEW l \in Places, Goto(t, l),
         UNCHANGED <<pos, cur_height, insmod>>,
         pc[t] \in Sleeping <=> l \in Sleeping
  PROVE  PosInv' /\ HeightInv'
<1>1. \A u \in Threads : pc'[u] \in Sleeping <=> pc[u] \in Sleeping
  BY DEF IInv, Types, Goto
<1>2. AtBarrier' <=> AtBarrier
  BY <1>1 DEF AtBarrier, Sleeping
<1>3. PosInv'
  BY <1>2 DEF IInv, PosInv, Height
<1>4. HeightInv'
  BY DEF IInv, HeightInv, Height
<1>5. QED
  BY <1>3, <1>4

\* pthread_create
LEMMA CreateInv ==
  ASSUME IInv, NEW t \in Threads, Create(t)
  PROVE  IInv'
<1> USE DEF Create
<1>1. Types' /\ LockInv' /\ EndInv'
  <2>1. Types'
    BY DEF IInv, Types, Places, Goto
  <2>2. LockInv'
    BY DEF IInv, Types, LockInv, Goto
  <2>3. EndInv'
    BY DEF IInv, Types, EndInv, Goto
  <2>4. QED
    BY <2>1, <2>2, <2>3
<1>2. "get" \in Places /\ "get" \notin Sleeping /\ pc[t] \notin Sleeping
  BY DEF Places, Sleeping
<1>3. QED
  BY <1>1, <1>2, CountsKept, LinesKept, HeightsKept DEF IInv

\* pthread_mutex_lock(&lock)
LEMMA LockListInv ==
  ASSUME IInv, NEW t \in Threads, LockList(t)
  PROVE  IInv'
<1> USE DEF LockList, At
<1>1. Types'
  BY DEF IInv, Types, Places, Goto
<1>2. LockInv'
  BY NobodyAssumption DEF IInv, Types, LockInv, Goto
<1>3. EndInv'
  BY DEF IInv, Types, EndInv, Goto
<1>4. "read" \in Places /\ "read" \notin Sleeping /\ pc[t] \notin Sleeping
  BY DEF Places, Sleeping
<1>5. QED
  BY <1>1, <1>2, <1>3, <1>4, CountsKept, LinesKept, HeightsKept DEF IInv

\* The end of the list, or an error; the only step to "done".
LEMMA ReadNothingInv ==
  ASSUME IInv, NEW t \in Threads, ReadNothing(t)
  PROVE  IInv'
<1> USE DEF ReadNothing, At
<1>1. Types'
  BY FaultsAssumption DEF IInv, Types, Places, Goto, Fault
<1>2. LockInv'
  BY NobodyAssumption DEF IInv, Types, LockInv, Goto
<1>3. EndInv'
  BY FaultsAssumption DEF IInv, Types, EndInv, Goto, Fault, Running, Ended
<1>4. "done" \in Places /\ "done" \notin Sleeping /\ pc[t] \notin Sleeping
  BY DEF Places, Sleeping
<1>5. QED
  BY <1>1, <1>2, <1>3, <1>4, CountsKept, LinesKept, HeightsKept DEF IInv

\* pthread_cond_wait returns for no reason.
LEMMA WakeSpuriouslyInv ==
  ASSUME IInv, NEW t \in Threads, WakeSpuriously(t)
  PROVE  IInv'
<1> USE DEF WakeSpuriously, At
<1>1. Types'
  BY DEF IInv, Types, Places, Goto
<1>2. LockInv'
  BY NobodyAssumption DEF IInv, Types, LockInv, Goto
<1>3. EndInv'
  BY DEF IInv, Types, EndInv, Goto
<1>4. "barrier" \in Places /\ "barrier" \in Sleeping /\ pc[t] \in Sleeping
  BY DEF Places, Sleeping
<1>5. QED
  BY <1>1, <1>2, <1>3, <1>4, CountsKept, LinesKept, HeightsKept DEF IInv

\* A heading is read: the list is one height ahead of cur_height until the
\* barrier is passed.
LEMMA ReadHeightInv ==
  ASSUME IInv, NEW t \in Threads, ReadHeight(t)
  PROVE  IInv'
<1> USE DEF ReadHeight, At
<1>1. Len(Lines) \in Nat /\ pos \in 0 .. Len(Lines) /\ pos < Len(Lines)
  BY LinesAssumption DEF IInv, Types
<1>2. Types'
  BY <1>1 DEF IInv, Types, Places, Goto
<1>3. LockInv'
  BY DEF IInv, Types, LockInv, Goto
<1>4. EndInv'
  BY <1>1 DEF IInv, Types, EndInv, Goto
<1>5. pos + 1 \notin Modules
  BY DEF Modules
<1>6. \A i \in Modules : i <= pos + 1 => i <= pos
  BY <1>1, <1>5 DEF Modules, LineNos
<1>7. MineInv'
  <2>1. \A u \in Threads : pc'[u] \in {"count", "fork"} <=> pc[u] \in {"count", "fork"}
    BY DEF IInv, Types, Goto
  <2>2. QED
    BY <1>1, <1>6, <2>1 DEF IInv, MineInv, Holds, Modules, LineNos
<1>8. LineInv'
  BY <1>1 DEF IInv, LineInv, LineNos
<1>9. PosInv'
  <2>1. Height(pos + 1) = Height(pos) + 1
    BY <1>1, HeightStep
  <2>2. ~AtBarrier
    BY DEF IInv, Types, LockInv, AtBarrier
  <2>3. AtBarrier'
    BY DEF IInv, Types, AtBarrier, Goto
  <2>4. Height(pos)' = Height(pos + 1)
    BY DEF Height
  <2>5. Height(pos) = cur_height
    BY <2>2 DEF IInv, Types, PosInv
  <2>6. QED
    BY <2>1, <2>3, <2>4, <2>5 DEF PosInv
<1>10. HeightInv'
  BY <1>6 DEF IInv, HeightInv, Height
<1>11. "barrier" \in Places
  BY DEF Places
<1>12. CountInv' /\ AChildForEach'
  BY <1>11, CountsKept
<1>13. QED
  BY <1>2, <1>3, <1>4, <1>7, <1>8, <1>9, <1>10, <1>12 DEF IInv

\* A module is read: it is at cur_height, because the thread that holds the
\* list has passed every heading in front of it.
LEMMA ReadModuleInv ==
  ASSUME IInv, NEW t \in Threads, ReadModule(t)
  PROVE  IInv'
<1> USE DEF ReadModule, At
<1>1. Len(Lines) \in Nat /\ pos \in 0 .. Len(Lines) /\ pos < Len(Lines)
  BY LinesAssumption DEF IInv, Types
<1>2. Types'
  BY <1>1 DEF IInv, Types, Places, Goto
<1>3. LockInv'
  BY DEF IInv, Types, LockInv, Goto
<1>4. EndInv'
  BY <1>1 DEF IInv, Types, EndInv, Goto
<1>5. pos + 1 \in Modules /\ insmod[pos + 1] = "none"
  BY <1>1 DEF IInv, LineInv, Modules, LineNos
<1>6. MineInv'
  <2>1. pc'[t] = "count" /\ mine'[t] = pos + 1
    BY DEF IInv, Types, Goto
  <2>2. \A u \in Threads \ {t} : pc'[u] = pc[u] /\ mine'[u] = mine[u]
    BY DEF IInv, Types, Goto
  <2>3. \A u \in Threads \ {t} : pc[u] \in {"count", "fork"} => mine[u] <= pos /\ mine[u] \in LineNos
    BY DEF IInv, MineInv, Modules
  <2>4. pc[t] \notin {"count", "fork"}
    OBVIOUS
  <2>5. \A u \in Threads : pc'[u] \in {"count", "fork"} =>
           mine'[u] \in Modules /\ mine'[u] <= pos + 1 /\ insmod[mine'[u]] = "none"
    BY <1>1, <1>5, <2>1, <2>2 DEF IInv, MineInv, Modules, LineNos
  <2>6. \A u \in Threads, v \in Threads : \A i \in LineNos :
           Holds(u, i)' /\ Holds(v, i)' => u = v
    BY <1>1, <2>1, <2>2, <2>3 DEF IInv, MineInv, Holds, LineNos
  <2>7. \A i \in Modules : i <= pos + 1 /\ insmod[i] = "none" => \E u \in Threads : Holds(u, i)'
    <3>1. SUFFICES ASSUME NEW i \in Modules, i <= pos + 1, insmod[i] = "none"
                   PROVE  \E u \in Threads : Holds(u, i)'
      OBVIOUS
    <3>2. CASE i = pos + 1
      BY <2>1, <3>2 DEF Holds
    <3>3. CASE i # pos + 1
      <4>1. i <= pos
        BY <1>1, <3>1, <3>3 DEF Modules, LineNos
      <4>2. PICK u \in Threads : Holds(u, i)
        BY <3>1, <4>1 DEF IInv, MineInv
      <4>3. u # t
        BY <2>4, <4>2 DEF Holds
      <4>4. QED
        BY <2>2, <4>2, <4>3 DEF Holds
    <3>4. QED
      BY <3>2, <3>3
  <2>8. QED
    BY <2>5, <2>6, <2>7 DEF MineInv
<1>7. LineInv'
  BY <1>1 DEF IInv, LineInv, LineNos
<1>8. ~AtBarrier /\ ~AtBarrier'
  BY DEF IInv, Types, LockInv, AtBarrier, Goto
<1>9. Height(pos + 1) = cur_height
  <2>1. Height(pos) \in Nat
    BY <1>1, HeightNat
  <2>2. Height(pos + 1) = Height(pos)
    BY <1>1, <2>1, HeightStep
  <2>3. QED
    BY <1>8, <2>2 DEF IInv, Types, PosInv
<1>10. PosInv'
  <2>1. Height(pos)' = Height(pos + 1)
    BY DEF Height
  <2>2. QED
    BY <1>8, <1>9, <2>1 DEF IInv, Types, PosInv
<1>11. HeightInv'
  <2>1. SUFFICES ASSUME NEW i \in Modules, i <= pos + 1
                 PROVE  Height(i) <= cur_height /\ (insmod[i] # "gone" => Height(i) = cur_height)
    BY DEF HeightInv, Height
  <2>2. CASE i = pos + 1
    BY <1>9, <2>2 DEF IInv, Types
  <2>3. CASE i # pos + 1
    <3>1. i <= pos
      BY <1>1, <2>1, <2>3 DEF Modules, LineNos
    <3>2. QED
      BY <3>1 DEF IInv, HeightInv
  <2>4. QED
    BY <2>2, <2>3
<1>12. "count" \in Places
  BY DEF Places
<1>13. CountInv' /\ AChildForEach'
  BY <1>12, CountsKept
<1>14. QED
  BY <1>2, <1>3, <1>4, <1>6, <1>7, <1>10, <1>11, <1>13 DEF IInv

\* With insmoding 0 and the list in the hands of a thread at the barrier,
\* everything that has been read has been started, has ended and is collected.
LEMMA IdleMeansGone ==
  ASSUME IInv, NEW t \in Threads, pc[t] = "barrier", insmoding = 0
  PROVE  \A i \in Modules : i <= pos => insmod[i] = "gone"
<1>1. Busy = {}
  BY Finite, FS_EmptySet DEF IInv, CountInv
<1>2. Waiting = {} /\ \A u \in Threads : pc[u] # "fork"
  BY <1>1 DEF Waiting, Busy
<1>3. Cardinality(Children) = Cardinality(Waiting)
  BY DEF IInv, AChildForEach, Waiting
<1>4. Children = {}
  BY <1>2, <1>3, Finite, FS_EmptySet
<1>5. \A u \in Threads : pc[u] # "count"
  BY DEF IInv, LockInv
<1>6. \A i \in Modules : i <= pos => insmod[i] # "none"
  BY <1>2, <1>5 DEF IInv, MineInv, Holds
<1>7. QED
  BY <1>4, <1>6 DEF Children, IInv, Types, Modules

\* The barrier.
LEMMA BarrierInv ==
  ASSUME IInv, NEW t \in Threads, Barrier(t)
  PROVE  IInv'
<1> USE DEF Barrier, At
<1>1. Types'
  <2>1. pc' \in [Threads -> Places]
    BY DEF IInv, Types, Places, Goto
  <2>2. cur_height' \in Nat
    BY DEF IInv, Types
  <2>3. QED
    BY <2>1, <2>2 DEF IInv, Types
<1>2. LockInv'
  BY DEF IInv, Types, LockInv, Goto
<1>3. EndInv'
  BY DEF IInv, Types, EndInv, Goto
<1>4. {"read", "asleep"} \subseteq Places
  BY DEF Places
<1>5. CountInv' /\ AChildForEach' /\ MineInv' /\ LineInv'
  <2>1. PICK l \in {"read", "asleep"} : Goto(t, l)
    OBVIOUS
  <2>2. l \in Places
    BY <1>4
  <2>3. CountInv' /\ AChildForEach'
    BY <2>1, <2>2, CountsKept
  <2>4. MineInv' /\ LineInv'
    BY <2>1, <2>2, LinesKept
  <2>5. QED
    BY <2>3, <2>4
<1>6. PosInv' /\ HeightInv'
  <2>1. CASE ~Idle
    <3>1. Goto(t, "asleep") /\ UNCHANGED <<pos, cur_height, insmod>>
      BY <2>1
    <3>2. "asleep" \in Sleeping /\ pc[t] \in Sleeping
      BY DEF Sleeping
    <3>3. QED
      BY <1>4, <3>1, <3>2, HeightsKept
  <2>2. CASE Idle
    <3>1. insmoding = 0 /\ cur_height' = cur_height + 1 /\ Goto(t, "read")
      BY <2>2 DEF Idle
    <3>2. \A i \in Modules : i <= pos => insmod[i] = "gone"
      BY <3>1, IdleMeansGone
    <3>3. HeightInv'
      <4>1. SUFFICES ASSUME NEW i \in Modules, i <= pos
                     PROVE  Height(i) <= cur_height + 1 /\ insmod[i] = "gone"
        BY <3>1 DEF HeightInv, Height
      <4>2. Height(i) \in Nat
        <5>1. i \in 0 .. Len(Lines)
          BY LinesAssumption DEF Modules, LineNos
        <5>2. QED
          BY <5>1, HeightNat
      <4>3. Height(i) <= cur_height
        BY <4>1 DEF IInv, HeightInv
      <4>4. QED
        BY <3>2, <4>1, <4>2, <4>3 DEF IInv, Types
    <3>4. AtBarrier
      BY DEF AtBarrier
    <3>5. ~AtBarrier'
      BY <3>1 DEF IInv, Types, LockInv, AtBarrier, Goto
    <3>6. Height(pos)' = Height(pos)
      BY DEF Height
    <3>7. QED
      BY <3>1, <3>3, <3>4, <3>5, <3>6 DEF IInv, Types, PosInv
  <2>3. QED
    BY <2>1, <2>2
<1>7. QED
  BY <1>1, <1>2, <1>3, <1>5, <1>6 DEF IInv

\* insmoding++
LEMMA CountedInv ==
  ASSUME IInv, NEW t \in Threads, Count(t)
  PROVE  IInv'
<1> USE DEF Count, At
<1>1. Types'
  BY DEF IInv, Types, Places, Goto
<1>2. LockInv'
  BY DEF IInv, Types, LockInv, Goto
<1>3. EndInv'
  BY DEF IInv, Types, EndInv, Goto
<1>4. "fork" \in Places /\ "fork" \notin Sleeping /\ pc[t] \notin Sleeping
  BY DEF Places, Sleeping
<1>5. CountInv'
  <2>1. Busy' = Busy \cup {t} /\ t \notin Busy
    BY DEF IInv, Types, Busy, Goto
  <2>2. Cardinality(Busy') = Cardinality(Busy) + 1
    BY <2>1, Finite, FS_AddElement
  <2>3. QED
    BY <2>2 DEF IInv, CountInv
<1>6. AChildForEach'
  <2>1. Waiting' = Waiting /\ Children' = Children
    BY DEF IInv, Types, Waiting, Children, Goto
  <2>2. QED
    BY <2>1 DEF IInv, AChildForEach, Waiting
<1>7. QED
  BY <1>1, <1>2, <1>3, <1>4, <1>5, <1>6, LinesKept, HeightsKept DEF IInv

\* vfork: one more child and one more thread that waits.
LEMMA ForkInv ==
  ASSUME IInv, NEW t \in Threads, Fork(t)
  PROVE  IInv'
<1> USE DEF Fork, At
<1> DEFINE m == mine[t]
<1>1. m \in Modules /\ m \in LineNos /\ m <= pos /\ insmod[m] = "none"
  BY DEF IInv, MineInv, Modules
<1>2. Types'
  BY DEF IInv, Types, Places, Goto
<1>3. LockInv'
  BY DEF IInv, Types, LockInv, Goto
<1>4. EndInv'
  BY DEF IInv, Types, EndInv, Goto
<1>5. CountInv'
  <2>1. Busy' = Busy
    BY DEF IInv, Types, Busy, Goto
  <2>2. QED
    BY <2>1 DEF IInv, CountInv
<1>6. AChildForEach'
  <2>1. Waiting' = Waiting \cup {t} /\ t \notin Waiting
    BY DEF IInv, Types, Waiting, Goto
  <2>2. Children' = Children \cup {m} /\ m \notin Children
    BY <1>1 DEF IInv, Types, Children
  <2>3. Cardinality(Waiting') = Cardinality(Waiting) + 1
    BY <2>1, Finite, FS_AddElement
  <2>4. Cardinality(Children') = Cardinality(Children) + 1
    BY <2>2, Finite, FS_AddElement
  <2>5. QED
    BY <2>3, <2>4 DEF IInv, AChildForEach, Waiting
<1>7. insmod' \in [LineNos -> {"none", "alive", "dead", "gone"}] /\ insmod'[m] = "alive"
      /\ \A i \in LineNos \ {m} : insmod'[i] = insmod[i]
  BY <1>1 DEF IInv, Types
<1>8. pc'[t] = "wait" /\ \A u \in Threads \ {t} : pc'[u] = pc[u]
  BY DEF IInv, Types, Goto
<1>9. Holds(t, m)
  BY DEF Holds
<1>10. MineInv'
  <2>1. \A u \in Threads : pc'[u] \in {"count", "fork"} => u # t /\ pc[u] \in {"count", "fork"}
    BY <1>8
  <2>2. \A u \in Threads \ {t} : pc[u] \in {"count", "fork"} => mine[u] # m
    BY <1>1, <1>9 DEF IInv, MineInv, Holds
  <2>3. \A u \in Threads : pc'[u] \in {"count", "fork"} =>
           mine[u] \in Modules /\ mine[u] <= pos /\ insmod'[mine[u]] = "none"
    BY <1>7, <2>1, <2>2 DEF IInv, MineInv, Modules
  <2>4. \A u \in Threads, v \in Threads : \A i \in LineNos :
           Holds(u, i)' /\ Holds(v, i)' => u = v
    BY <2>1 DEF IInv, MineInv, Holds
  <2>5. \A i \in Modules : i <= pos /\ insmod'[i] = "none" => \E u \in Threads : Holds(u, i)'
    <3>1. SUFFICES ASSUME NEW i \in Modules, i <= pos, insmod'[i] = "none"
                   PROVE  \E u \in Threads : Holds(u, i)'
      OBVIOUS
    <3>2. i # m /\ insmod[i] = "none"
      BY <1>7, <3>1 DEF Modules
    <3>3. PICK u \in Threads : Holds(u, i)
      BY <3>1, <3>2 DEF IInv, MineInv
    <3>4. u # t
      BY <3>2, <3>3 DEF Holds
    <3>5. QED
      BY <1>8, <3>3, <3>4 DEF Holds
  <2>6. QED
    BY <2>3, <2>4, <2>5 DEF MineInv
<1>11. LineInv'
  BY <1>1, <1>7 DEF IInv, Types, LineInv, LineNos
<1>12. PosInv'
  <2>1. AtBarrier' <=> AtBarrier
    BY <1>8 DEF AtBarrier
  <2>2. QED
    BY <2>1 DEF IInv, PosInv, Height
<1>13. HeightInv'
  BY <1>1, <1>7 DEF IInv, HeightInv, Height, Modules
<1>14. QED
  BY <1>2, <1>3, <1>4, <1>5, <1>6, <1>10, <1>11, <1>12, <1>13 DEF IInv

\* An insmod ends: it is a child still.
LEMMA InsmodEndsInv ==
  ASSUME IInv, NEW i \in LineNos, InsmodEnds(i)
  PROVE  IInv'
<1> USE DEF InsmodEnds
<1>1. Types'
  BY DEF IInv, Types
<1>2. EndInv' /\ LockInv'
  BY DEF IInv, EndInv, LockInv
<1>3. insmod'[i] = "dead" /\ \A j \in LineNos \ {i} : insmod'[j] = insmod[j]
  BY DEF IInv, Types
<1>4. CountInv' /\ AChildForEach'
  <2>1. Children' = Children
    BY DEF IInv, Types, Children
  <2>2. QED
    BY <2>1 DEF IInv, CountInv, Busy, AChildForEach
<1>5. MineInv'
  BY <1>3 DEF IInv, MineInv, Holds, Modules
<1>6. LineInv'
  BY <1>3 DEF IInv, LineInv
<1>7. PosInv'
  BY DEF IInv, PosInv, AtBarrier, Height
<1>8. HeightInv'
  BY <1>3 DEF IInv, HeightInv, Height, Modules
<1>9. QED
  BY <1>1, <1>2, <1>4, <1>5, <1>6, <1>7, <1>8 DEF IInv

\* wait(NULL): one child less and one thread less that waits; there is a
\* child, so the error return is not taken.
LEMMA WaitInv ==
  ASSUME IInv, NEW t \in Threads, Wait(t)
  PROVE  IInv'
<1> USE DEF Wait, At
<1>1. t \in Waiting
  BY DEF Waiting
<1>2. Children # {}
  <2>1. Waiting # {}
    BY <1>1
  <2>2. Cardinality(Children) = Cardinality(Waiting)
    BY DEF IInv, AChildForEach, Waiting
  <2>3. QED
    BY <2>1, <2>2, Finite, FS_EmptySet
<1>3. PICK i \in LineNos : insmod[i] = "dead" /\ insmod' = [insmod EXCEPT ![i] = "gone"]
  BY <1>2 DEF Reap
<1>4. Types'
  BY <1>3 DEF IInv, Types, Places, Goto
<1>5. LockInv'
  BY DEF IInv, Types, LockInv, Goto
<1>6. EndInv'
  BY DEF IInv, Types, EndInv, Goto
<1>7. insmod'[i] = "gone" /\ \A j \in LineNos \ {i} : insmod'[j] = insmod[j]
  BY <1>3 DEF IInv, Types
<1>8. pc'[t] = "put" /\ \A u \in Threads \ {t} : pc'[u] = pc[u]
  BY DEF IInv, Types, Goto
<1>9. CountInv'
  <2>1. Busy' = Busy
    BY <1>8 DEF Busy
  <2>2. QED
    BY <2>1 DEF IInv, CountInv
<1>10. AChildForEach'
  <2>1. Waiting' = Waiting \ {t}
    BY <1>8 DEF Waiting
  <2>2. Children' = Children \ {i} /\ i \in Children
    BY <1>3, <1>7 DEF Children
  <2>3. Cardinality(Waiting') = Cardinality(Waiting) - 1
    BY <1>1, <2>1, Finite, FS_RemoveElement
  <2>4. Cardinality(Children') = Cardinality(Children) - 1
    BY <2>2, Finite, FS_RemoveElement
  <2>5. QED
    BY <2>3, <2>4 DEF IInv, AChildForEach, Waiting
<1>11. MineInv'
  <2>1. \A u \in Threads : pc'[u] \in {"count", "fork"} <=> pc[u] \in {"count", "fork"}
    BY <1>8
  <2>2. QED
    BY <1>3, <1>7, <2>1 DEF IInv, MineInv, Holds, Modules
<1>12. LineInv'
  BY <1>3, <1>7 DEF IInv, LineInv
<1>13. PosInv'
  <2>1. AtBarrier' <=> AtBarrier
    BY <1>8 DEF AtBarrier
  <2>2. QED
    BY <2>1 DEF IInv, PosInv, Height
<1>14. HeightInv'
  BY <1>7 DEF IInv, HeightInv, Height, Modules
<1>15. QED
  BY <1>4, <1>5, <1>6, <1>9, <1>10, <1>11, <1>12, <1>13, <1>14 DEF IInv

\* put_module: insmoding-- and the signal to the thread at the barrier.
LEMMA PutModuleInv ==
  ASSUME IInv, NEW t \in Threads, PutModule(t)
  PROVE  IInv'
<1> USE DEF PutModule, At
<1>1. t \in Busy
  BY DEF Busy
<1>2. insmoding > 0
  <2>1. Busy # {}
    BY <1>1
  <2>2. QED
    BY <2>1, Finite, FS_EmptySet DEF IInv, CountInv
<1>3. insmoding' = insmoding - 1
  BY <1>2 DEF Uncounted
<1>4. /\ pc' \in [Threads -> Places] /\ pc'[t] = "get"
      /\ \A u \in Threads \ {t} :
            pc'[u] = pc[u] \/ (pc[u] = "asleep" /\ pc'[u] = "barrier")
  <2>1. pc \in [Threads -> Places]
    BY DEF IInv, Types
  <2>2. "get" \in Places /\ "barrier" \in Places
    BY DEF Places
  <2>3. QED
    BY <2>1, <2>2 DEF Signal
<1>5. mine' \in [Threads -> 0 .. Len(Lines)] /\ \A u \in Threads \ {t} : mine'[u] = mine[u]
  BY LinesAssumption DEF IInv, Types
<1>6. Types'
  BY <1>2, <1>3, <1>4, <1>5 DEF IInv, Types
<1>7. LockInv'
  BY <1>4 DEF IInv, LockInv
<1>8. EndInv'
  BY <1>4 DEF IInv, EndInv
<1>9. CountInv'
  <2>1. Busy' = Busy \ {t}
    BY <1>4 DEF Busy
  <2>2. Cardinality(Busy') = Cardinality(Busy) - 1
    BY <1>1, <2>1, Finite, FS_RemoveElement
  <2>3. QED
    BY <1>3, <2>2 DEF IInv, CountInv
<1>10. AChildForEach'
  <2>1. Waiting' = Waiting /\ Children' = Children
    BY <1>4 DEF Waiting, Children
  <2>2. QED
    BY <2>1 DEF IInv, AChildForEach, Waiting
<1>11. MineInv'
  <2>1. \A u \in Threads : pc'[u] \in {"count", "fork"} <=> pc[u] \in {"count", "fork"}
    BY <1>4
  <2>2. \A u \in Threads : pc[u] \in {"count", "fork"} => mine'[u] = mine[u]
    BY <1>5
  <2>3. \A u \in Threads, i \in LineNos : Holds(u, i)' <=> Holds(u, i)
    BY <2>1, <2>2 DEF Holds
  <2>4. QED
    BY <2>1, <2>2, <2>3 DEF IInv, MineInv, Modules
<1>12. LineInv'
  BY DEF IInv, LineInv
<1>13. PosInv'
  <2>1. AtBarrier' <=> AtBarrier
    BY <1>4 DEF AtBarrier
  <2>2. QED
    BY <2>1 DEF IInv, PosInv, Height
<1>14. HeightInv'
  BY DEF IInv, HeightInv, Height
<1>15. QED
  BY <1>6, <1>7, <1>8, <1>9, <1>10, <1>11, <1>12, <1>13, <1>14 DEF IInv

-----------------------------------------------------------------------------
\* The theorems

\* Every step keeps the inductive invariant.
LEMMA StepInv == IInv /\ [Next]_vars => IInv'
<1> SUFFICES ASSUME IInv, [Next]_vars PROVE IInv'
  OBVIOUS
<1>1. CASE Open \/ CreateFails \/ Return \/ Stopped \/ UNCHANGED vars
  BY <1>1, MainInv
<1>2. ASSUME NEW t \in Threads,
             Create(t) \/ Step(t) \/ WakeSpuriously(t) \/ ForkFails(t)
      PROVE  IInv'
  <2>1. CASE Create(t)
    BY <2>1, CreateInv
  <2>2. CASE WakeSpuriously(t)
    BY <2>2, WakeSpuriouslyInv
  <2>3. CASE ForkFails(t)
    BY <2>3, MainInv
  <2>4. CASE Step(t)
    BY <2>4, LockListInv, ReadNothingInv, ReadHeightInv, ReadModuleInv, BarrierInv,
       CountedInv, ForkInv, WaitInv, PutModuleInv DEF Step
  <2>5. QED
    BY <1>2, <2>1, <2>2, <2>3, <2>4
<1>3. ASSUME NEW i \in LineNos, InsmodEnds(i)
      PROVE  IInv'
  BY <1>3, InsmodEndsInv
<1>4. QED
  BY <1>1, <1>2, <1>3 DEF Next

\* The inductive invariant holds in every behaviour.
LEMMA Always == Spec => []IInv
<1>1. QED
  BY InitInv, StepInv, PTL DEF Spec

\* From the parts of the inductive invariant: what has been started is at
\* cur_height or below, what is below has been read, and is gone.
LEMMA OrderFollows == IInv => HeightOrder
<1> SUFFICES ASSUME IInv, NEW i \in Modules, NEW j \in Modules,
                    insmod[j] # "none", Height(i) < Height(j)
             PROVE  insmod[i] = "gone"
  BY DEF HeightOrder
<1>1. /\ Len(Lines) \in Nat /\ pos \in 0 .. Len(Lines)
      /\ i \in 0 .. Len(Lines) /\ j \in 0 .. Len(Lines) /\ j \in LineNos
  BY LinesAssumption DEF Modules, LineNos, IInv, Types
<1>2. j <= pos
  BY <1>1 DEF IInv, LineInv
<1>3. Height(i) \in Nat /\ Height(j) \in Nat
  BY <1>1, HeightNat
<1>4. i <= j
  <2>1. j <= i => Height(j) <= Height(i)
    BY <1>1, HeightMonotone
  <2>2. QED
    BY <1>1, <1>3, <2>1
<1>5. Height(j) <= cur_height
  BY <1>2 DEF IInv, HeightInv
<1>6. Height(i) # cur_height /\ i <= pos
  BY <1>1, <1>2, <1>3, <1>4, <1>5 DEF IInv, Types
<1>7. QED
  BY <1>6 DEF IInv, HeightInv

\* Heights are inserted in order, for every list and any number of threads:
\* the insmod of a module starts when all those at lower heights have ended.
THEOREM HeightsInOrder == Spec => []HeightOrder
<1>1. QED
  BY Always, OrderFollows, PTL

\* A thread in wait(NULL) always has a child to wait for, whichever thread
\* started it: the error return of wait is never taken.
THEOREM NoWaitWithoutChild == Spec => []AChildForEach
<1>1. IInv => AChildForEach
  BY DEF IInv
<1>2. QED
  BY <1>1, Always, PTL

\* Bounds of the two counters, from what they count.
LEMMA CountersBounded == IInv => TypeOK
<1> SUFFICES ASSUME IInv PROVE TypeOK
  OBVIOUS
<1>1. insmoding \in 0 .. Cardinality(Threads)
  <2>1. Busy \subseteq Threads
    BY DEF Busy
  <2>2. Cardinality(Busy) <= Cardinality(Threads)
    BY <2>1, ThreadsAssumption, FS_Subset
  <2>3. Cardinality(Threads) \in Nat
    BY ThreadsAssumption, FS_CardinalityType
  <2>4. QED
    BY <2>2, <2>3, Finite DEF IInv, CountInv
<1>2. cur_height \in 0 .. Len(Lines)
  <2>1. Len(Lines) \in Nat /\ pos \in 0 .. Len(Lines) /\ cur_height \in Nat
    BY LinesAssumption DEF IInv, Types
  <2>2. Height(pos) \in Nat /\ Height(pos) <= pos
    BY <2>1, HeightNat, HeightBound
  <2>3. cur_height <= Height(pos)
    BY <2>1, <2>2 DEF IInv, PosInv
  <2>4. QED
    BY <2>1, <2>2, <2>3
<1>3. QED
  BY <1>1, <1>2 DEF TypeOK, IInv, Types, Places

\* The variables keep their types; insmoding never exceeds the number of
\* threads and never falls below 0.
THEOREM TypesHold == Spec => []TypeOK
<1>1. QED
  BY Always, CountersBounded, PTL

\* From the parts of the inductive invariant: when all threads are done, none
\* holds a line, none waits, and the list has been read to its end.
LEMMA EndFollows == IInv => AllInserted
<1> SUFFICES ASSUME IInv, main = "done", faults = 0, NEW i \in Modules
             PROVE  insmod[i] = "gone"
  BY DEF AllInserted
<1>1. Threads # {} /\ \A t \in Threads : pc[t] = "done"
  BY DEF IInv, EndInv
<1>2. i <= pos
  <2>1. pos = Len(Lines)
    BY <1>1 DEF IInv, EndInv
  <2>2. QED
    BY <2>1, LinesAssumption DEF Modules, LineNos
<1>3. insmod[i] # "none"
  BY <1>1, <1>2 DEF IInv, MineInv, Holds
<1>4. Waiting = {}
  BY <1>1 DEF Waiting
<1>5. Cardinality(Children) = Cardinality(Waiting)
  BY DEF IInv, AChildForEach, Waiting
<1>6. Children = {}
  BY <1>4, <1>5, Finite, FS_EmptySet
<1>7. QED
  BY <1>3, <1>6 DEF Children, IInv, Types, Modules

\* When main returns and no call has failed, every module of the list has
\* been inserted and its process collected.
THEOREM EveryModuleInserted == Spec => []AllInserted
<1>1. QED
  BY Always, EndFollows, PTL
=============================================================================
