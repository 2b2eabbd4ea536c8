-------------------------------- MODULE Aactd --------------------------------
(***************************************************************************)
(* The side of the audio tuning daemon aactd that hands equaliser           *)
(* parameters to the players (eq_sw.c): the main thread takes an update     *)
(* from the tuning tool, a server thread accepts players into a table of    *)
(* slots, and one thread per player writes the parameters to it, once at    *)
(* the start and then after every update it is woken for.  What happens     *)
(* between lock and unlock of a mutex is one step: nothing blocks there but *)
(* pthread_cond_wait, and frames are small enough for the socket's buffer.  *)
(***************************************************************************)
EXTENDS EqSocket

CONSTANTS
  Slots,        \* client_connects
  Workers,      \* the threads that may exist at one time
  MaxUpdates,   \* how often the tool writes parameters
  MaxFaults     \* failed pthread_create calls, spurious wake-ups and deaths

ASSUME AactdAssumption ==
  /\ Slots \subseteq Nat \ {0} /\ IsFiniteSet(Slots)
  /\ Workers \subseteq Nat \ {0} /\ IsFiniteSet(Workers)
  /\ MaxUpdates \in Nat /\ MaxFaults \in Nat

VARIABLES
  local,      \* local_com: the number of the update it holds, 0 if none
  updates,    \* how many updates the tool has sent
  connects,   \* client_connects: connection (0 if none yet) and is_used
  worker,     \* each client_connect_thread: where it is, its slot, and
              \* whether an update has found it asleep (history)
  faults

daemonVars == <<local, updates, connects, worker, faults>>

NoWorker == [st |-> "none", slot |-> 0, owed |-> FALSE]
Empty    == [s \in Slots |-> [fd |-> 0, is_used |-> FALSE]]

DaemonInit ==
  /\ local = 0 /\ updates = 0 /\ faults = 0
  /\ connects = Empty
  /\ worker = [w \in Workers |-> NoWorker]

Alive == {w \in Workers : worker[w].st # "none"}

\* connect->fd of a thread.
FdOf(w) == connects[worker[w].slot].fd

Goes(w, st) == worker' = [worker EXCEPT ![w].st = st]

\* eq_sw_local_init and server_thread up to accept.
server_thread ==
  /\ ~listening
  /\ listening' = TRUE
  /\ local' = 0 /\ connects' = Empty
  /\ UNCHANGED <<sock, updates, worker, faults>>

OneTooMany == {s \in Slots \cup {Cardinality(Slots) + 1} : s \in Slots => ~connects[s].is_used}

FreeSlots == {s \in Slots : ~connects[s].is_used}

\* The server thread has accepted c: the first free slot and a thread for it,
SlotTaken(c) ==
  LET s == Least(FreeSlots)
  IN  connects' = [connects EXCEPT ![s] = [fd |-> c, is_used |-> TRUE]]

Accept ==
  \E c \in Pending :
    /\ listening /\ FreeSlots # {} /\ Alive # Workers
    /\ SlotTaken(c)
    /\ worker' = [worker EXCEPT ![Least(Workers \ Alive)] =
                    [st |-> "hello", slot |-> Least(FreeSlots), owed |-> FALSE]]
    /\ sock' = [sock EXCEPT ![c].srv = "open"]
    /\ UNCHANGED <<listening, local, updates, faults>>

\* or no thread, which nobody notices,
AcceptWithoutThread ==
  \E c \in Pending :
    /\ listening /\ FreeSlots # {} /\ faults < MaxFaults
    /\ SlotTaken(c)
    /\ sock' = [sock EXCEPT ![c].srv = "open"]
    /\ faults' = faults + 1
    /\ UNCHANGED <<listening, local, updates, worker>>

\* or the table is full.
Refuse ==
  \E c \in Pending :
    /\ listening /\ FreeSlots = {}
    /\ sock' = ServerCloses({c})
    /\ UNCHANGED <<listening, daemonVars>>

\* Write local_com to the player under mutex_local_com; a failed write ends
\* the thread.
Write(w) ==
  \/ /\ CanSend(FdOf(w))
     /\ sock' = Sent(FdOf(w), local)
     /\ worker' = [worker EXCEPT ![w].st = "lock", ![w].owed = FALSE]
  \/ /\ ~CanSend(FdOf(w))
     /\ Goes(w, "close")
     /\ UNCHANGED sock

\* The parameters a new player gets, if there are any.
Hello(w) ==
  /\ worker[w].st = "hello"
  /\ IF local # 0 THEN Write(w) ELSE Goes(w, "lock") /\ UNCHANGED sock
  /\ UNCHANGED <<listening, local, updates, connects, faults>>

\* pthread_cond_wait, without a look at whether something was missed.
Sleep(w) ==
  /\ worker[w].st = "lock"
  /\ Goes(w, "asleep")
  /\ UNCHANGED <<sock, listening, local, updates, connects, faults>>

\* Before the first update it would write uninitialised bytes; left out.
WakeSpuriously(w) ==
  /\ worker[w].st = "asleep" /\ faults < MaxFaults /\ local # 0
  /\ Goes(w, "woken")
  /\ faults' = faults + 1
  /\ UNCHANGED <<sock, listening, local, updates, connects>>

WriteUpdate(w) ==
  /\ worker[w].st = "woken"
  /\ Write(w)
  /\ UNCHANGED <<listening, local, updates, connects, faults>>

\* The end of a thread: first the connection, then the slot.
CloseFd(w) ==
  /\ sock' = ServerCloses({FdOf(w)})
  /\ UNCHANGED connects

\* (The fd of an unused slot is never read; it is 0 here.)
FreeSlot(w) ==
  /\ connects' = [connects EXCEPT ![worker[w].slot] = [fd |-> 0, is_used |-> FALSE]]
  /\ UNCHANGED sock

FreeThenClose(k, w) == IF k = 1 THEN FreeSlot(w) ELSE CloseFd(w)

CloseThenFree(k, w) == IF k = 1 THEN CloseFd(w) ELSE FreeSlot(w)

Close(w) ==
  /\ worker[w].st = "close"
  /\ CloseThenFree(1, w)
  /\ Goes(w, "free")
  /\ UNCHANGED <<listening, local, updates, faults>>

Free(w) ==
  /\ worker[w].st = "free"
  /\ CloseThenFree(2, w)
  /\ worker' = [worker EXCEPT ![w] = NoWorker]
  /\ UNCHANGED <<listening, local, updates, faults>>

Asleep == {w \in Workers : worker[w].st = "asleep"}

SignalOne(A) == IF A = {} THEN {} ELSE {Least(A)}

\* pthread_cond_broadcast wakes every thread that sleeps.
Broadcast(A) == A

\* An EQ_SW frame of the tool: new parameters and the wake-up.
eq_sw_write_com_to_local ==
  /\ listening /\ updates < MaxUpdates
  /\ updates' = updates + 1
  /\ local' = updates + 1
  /\ worker' = [w \in Workers |->
                  [worker[w] EXCEPT !.st = IF w \in Broadcast(Asleep) THEN "woken" ELSE @,
                                    !.owed = @ \/ w \in Asleep]]
  /\ UNCHANGED <<sock, listening, connects, faults>>

\* The daemon is killed; the kernel closes its ends.
Die ==
  /\ listening /\ faults < MaxFaults
  /\ faults' = faults + 1
  /\ listening' = FALSE
  /\ sock' = ServerCloses(Conns)
  /\ local' = 0 /\ connects' = Empty
  /\ worker' = [w \in Workers |-> NoWorker]
  /\ UNCHANGED updates

WorkerStep(w) == Hello(w) \/ Sleep(w) \/ WriteUpdate(w) \/ Close(w) \/ Free(w)

ServerStep == Accept \/ Refuse

DaemonNext ==
  \/ server_thread \/ ServerStep \/ AcceptWithoutThread
  \/ eq_sw_write_com_to_local \/ Die
  \/ \E w \in Workers : WorkerStep(w) \/ WakeSpuriously(w)
=============================================================================
