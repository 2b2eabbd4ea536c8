--------------------------- MODULE ParallelInsmod ---------------------------
(***************************************************************************)
(* parallel_insmod: the boot time tool that inserts the kernel modules of  *)
(* a list made by modparse.py.  The list has a line "Height n:" in front   *)
(* of the modules whose dependencies are all at lower heights.  A pool of  *)
(* threads takes the modules from the list, starts an insmod process for   *)
(* each and waits; a thread that meets a "Height" line holds the list      *)
(* until every insmod that was started has ended.                          *)
(*                                                                         *)
(* wait(NULL) returns for any child of the process, so that a thread may   *)
(* collect the insmod of another one.  `mutex' only guards single          *)
(* sections that read or change insmoding: each is one step here.  `lock'  *)
(* is held over several of them and is a variable.                         *)
(***************************************************************************)
EXTENDS Integers, Sequences, FiniteSets

CONSTANTS
  Threads,     \* NUM_THREAD threads, 4 in the code
  Lines,       \* the list: "Height" or "module" for each of its lines
  MaxFaults,   \* bound on the calls that fail
  Nobody       \* the holder of a free mutex

ASSUME ThreadsAssumption == IsFiniteSet(Threads)
ASSUME LinesAssumption == Lines \in Seq({"Height", "module"})
ASSUME NobodyAssumption == Nobody \notin Threads
ASSUME FaultsAssumption == MaxFaults \in Nat

LineNos == 1 .. Len(Lines)

\* the lines that are inserted: whatever does not begin with "Height"
Modules == {i \in LineNos : Lines[i] = "module"}

VARIABLES
  main,        \* main(): "open", "create", "join", or how the program ended
  pos,         \* lines read from fp
  lock,        \* the thread that holds `lock', the list's mutex
  cur_height,
  insmoding,   \* insmods counted as going on
  pc,          \* where each thread is
  mine,        \* the line each thread has in name[], 0 for none
  insmod,      \* the insmod process of each line
  faults       \* calls that have failed

vars == <<main, pos, lock, cur_height, insmoding, pc, mine, insmod, faults>>

Ended == {"unopened", "failed", "done"}

Init ==
  /\ main = "open" /\ pos = 0 /\ lock = Nobody
  /\ cur_height = 0 /\ insmoding = 0
  /\ pc = [t \in Threads |-> "new"]
  /\ mine = [t \in Threads |-> 0]
  /\ insmod = [i \in LineNos |-> "none"]
  /\ faults = 0

Fault == faults < MaxFaults /\ faults' = faults + 1

Running == main \in {"create", "join"}

At(t, l) == Running /\ pc[t] = l

Goto(t, l) == pc' = [pc EXCEPT ![t] = l]

-----------------------------------------------------------------------------
\* main

Open ==
  /\ main = "open"
  /\ \/ main' = "create" /\ UNCHANGED faults
     \/ main' = "unopened" /\ Fault
  /\ UNCHANGED <<pos, lock, cur_height, insmoding, pc, mine, insmod>>

Create(t) ==
  /\ main = "create" /\ pc[t] = "new"
  /\ Goto(t, "get")
  /\ main' = IF \A u \in Threads \ {t} : pc[u] # "new" THEN "join" ELSE "create"
  /\ UNCHANGED <<pos, lock, cur_height, insmoding, mine, insmod, faults>>

\* exit() in main or in a thread: the other threads go with the program
ExitFailure ==
  /\ main' = "failed" /\ Fault
  /\ UNCHANGED <<pos, lock, cur_height, insmoding, pc, mine, insmod>>

CreateFails == main = "create" /\ ExitFailure

JoinedOne == \E t \in Threads : pc[t] = "done"

Joined == \A t \in Threads : pc[t] = "done"

Return ==
  /\ main = "join" /\ Joined
  /\ main' = "done"
  /\ UNCHANGED <<pos, lock, cur_height, insmoding, pc, mine, insmod, faults>>

-----------------------------------------------------------------------------
\* get_module

LockList(t) ==
  /\ At(t, "get") /\ lock = Nobody
  /\ lock' = t
  /\ Goto(t, "read")
  /\ UNCHANGED <<main, pos, cur_height, insmoding, mine, insmod, faults>>

\* getline returns nothing, at the end of the list or for an error
ReadNothing(t) ==
  /\ At(t, "read")
  /\ \/ pos = Len(Lines) /\ UNCHANGED faults
     \/ Fault
  /\ lock' = Nobody
  /\ Goto(t, "done")
  /\ UNCHANGED <<main, pos, cur_height, insmoding, mine, insmod>>

ReadHeight(t) ==
  /\ At(t, "read") /\ pos < Len(Lines) /\ Lines[pos + 1] = "Height"
  /\ pos' = pos + 1
  /\ Goto(t, "barrier")
  /\ UNCHANGED <<main, lock, cur_height, insmoding, mine, insmod, faults>>

ReadModule(t) ==
  /\ At(t, "read") /\ pos < Len(Lines) /\ Lines[pos + 1] = "module"
  /\ pos' = pos + 1
  /\ mine' = [mine EXCEPT ![t] = pos + 1]
  /\ Goto(t, "count")
  /\ UNCHANGED <<main, lock, cur_height, insmoding, insmod, faults>>

NearlyIdle == insmoding <= 1

Idle == insmoding = 0

\* the test of the loop around pthread_cond_wait
Barrier(t) ==
  /\ At(t, "barrier")
  /\ \/ /\ Idle
        /\ cur_height' = cur_height + 1
        /\ Goto(t, "read")
     \/ /\ ~Idle
        /\ Goto(t, "asleep")
        /\ UNCHANGED cur_height
  /\ UNCHANGED <<main, pos, lock, insmoding, mine, insmod, faults>>

\* pthread_cond_wait may return without a signal
WakeSpuriously(t) ==
  /\ At(t, "asleep")
  /\ Goto(t, "barrier")
  /\ UNCHANGED <<main, pos, lock, cur_height, insmoding, mine, insmod, faults>>

\* insmoding++ and the release of `lock'
Count(t) ==
  /\ At(t, "count")
  /\ insmoding' = insmoding + 1
  /\ lock' = Nobody
  /\ Goto(t, "fork")
  /\ UNCHANGED <<main, pos, cur_height, mine, insmod, faults>>

-----------------------------------------------------------------------------
\* insmod_thread and put_module

Fork(t) ==
  /\ At(t, "fork")
  /\ insmod' = [insmod EXCEPT ![mine[t]] = "alive"]
  /\ Goto(t, "wait")
  /\ UNCHANGED <<main, pos, lock, cur_height, insmoding, mine, faults>>

ForkFails(t) == At(t, "fork") /\ ExitFailure

\* the insmod process, or the failed execvp, comes to its end
InsmodEnds(i) ==
  /\ insmod[i] = "alive"
  /\ insmod' = [insmod EXCEPT ![i] = "dead"]
  /\ UNCHANGED <<main, pos, lock, cur_height, insmoding, pc, mine, faults>>

Children == {i \in LineNos : insmod[i] \in {"alive", "dead"}}

ReapAll(i) == [j \in LineNos |-> IF insmod[j] = "dead" THEN "gone" ELSE insmod[j]]

Reap(i) == [insmod EXCEPT ![i] = "gone"]

\* wait(NULL): any child that has died, or an error when there is none
Wait(t) ==
  /\ At(t, "wait")
  /\ \/ \E i \in LineNos : insmod[i] = "dead" /\ insmod' = Reap(i)
     \/ Children = {} /\ UNCHANGED insmod
  /\ Goto(t, "put")
  /\ UNCHANGED <<main, pos, lock, cur_height, insmoding, mine, faults>>

NotUncounted == insmoding

Uncounted == IF insmoding > 0 THEN insmoding - 1 ELSE insmoding

SignalNobody(t) == [pc EXCEPT ![t] = "get"]

\* the one thread that may sleep on cond is told when nothing is going on
Signal(t) ==
  [u \in Threads |-> IF u = t THEN "get" ELSE
                     IF Uncounted = 0 /\ pc[u] = "asleep" THEN "barrier" ELSE pc[u]]

PutModule(t) ==
  /\ At(t, "put")
  /\ insmoding' = Uncounted
  /\ pc' = Signal(t)
  /\ mine' = [mine EXCEPT ![t] = 0]
  /\ UNCHANGED <<main, pos, lock, cur_height, insmod, faults>>

-----------------------------------------------------------------------------

\* one round of insmod_thread's loop, step by step
Step(t) ==
  \/ LockList(t) \/ ReadNothing(t) \/ ReadHeight(t) \/ ReadModule(t)
  \/ Barrier(t) \/ Count(t) \/ Fork(t) \/ Wait(t) \/ PutModule(t)

Stopped == main \in Ended /\ UNCHANGED vars

Next ==
  \/ Open \/ CreateFails \/ Return \/ Stopped
  \/ \E t \in Threads : Create(t) \/ Step(t) \/ WakeSpuriously(t) \/ ForkFails(t)
  \/ \E i \in LineNos : InsmodEnds(i)

Spec == Init /\ [][Next]_vars

\* the kernel runs every thread that can go on, and an insmod ends; a thread
\* may lose the race for `lock' or for a child again and again
FairSpec ==
  /\ Spec
  /\ WF_vars(Open) /\ WF_vars(Return)
  /\ \A t \in Threads : WF_vars(Create(t)) /\ WF_vars(Step(t))
  /\ \A i \in LineNos : WF_vars(InsmodEnds(i))

-----------------------------------------------------------------------------
\* Properties

\* Types; insmoding, an int shared by all threads, stays between 0 and the
\* number of threads, so the test in front of insmoding-- is never needed.
TypeOK ==
  /\ main \in {"open", "create", "join"} \cup Ended
  /\ pos \in 0 .. Len(Lines)
  /\ lock \in Threads \cup {Nobody}
  /\ cur_height \in 0 .. Len(Lines)
  /\ insmoding \in 0 .. Cardinality(Threads)
  /\ pc \in [Threads -> {"new", "get", "read", "barrier", "asleep", "count",
                         "fork", "wait", "put", "done"}]
  /\ mine \in [Threads -> 0 .. Len(Lines)]
  /\ insmod \in [LineNos -> {"none", "alive", "dead", "gone"}]
  /\ faults \in 0 .. MaxFaults

\* the height a line of the list is at: the headings up to it
Height(i) == Cardinality({j \in 1 .. i : Lines[j] = "Height"})

\* What the list is for: when the insmod of a module is started, the insmods
\* of all modules at lower heights have been started, have ended and have been
\* collected, whichever threads collected them.
HeightOrder ==
  \A i \in Modules, j \in Modules :
     insmod[j] # "none" /\ Height(i) < Height(j) => insmod[i] = "gone"

\* wait(NULL) takes any child, yet there is one for every thread that waits:
\* no call returns ECHILD and counts an insmod as ended that has not.
AChildForEach ==
  Cardinality(Children) = Cardinality({t \in Threads : pc[t] = "wait"})

\* The program returns from main only when every module of the list has been
\* inserted and its process collected, unless reading the list failed.
AllInserted ==
  main = "done" /\ faults = 0 => \A i \in Modules : insmod[i] = "gone"

\* The program ends: no thread waits for ever for the list's lock, for the
\* condition or for a child that another thread has collected.
Terminates == <>(main \in Ended)
=============================================================================
