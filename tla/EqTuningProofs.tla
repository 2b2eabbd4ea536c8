--------------------------- MODULE EqTuningProofs ---------------------------
(***************************************************************************)
(* Theorems about EqTuning, for every number of slots, threads, connections *)
(* and updates.                                                             *)
(***************************************************************************)
EXTENDS EqTuning, TLAPS, SequenceTheorems, NaturalsInduction, WellFoundedInduction

\* The threads that live have a slot each, which is marked as used, and none
\* lives while nobody listens; a thread that serves has an open connection
\* that no other thread serves.
Slotted ==
  /\ \A w \in Alive : worker[w].slot \in Slots /\ connects[worker[w].slot].is_used
  /\ \A w, x \in Alive : worker[w].slot = worker[x].slot => w = x
  /\ Alive # {} => listening

Attached ==
  /\ \A w \in Serving : FdOf(w) \in Conns /\ sock[FdOf(w)].srv = "open"
  /\ \A w, x \in Serving : FdOf(w) = FdOf(x) => w = x

\* tuning_thread polls a connection it has.
Polls == tuning \in {"poll", "event", "rebuild"} => tuning_fd # 0

TuneInv == TypeOK /\ OneConnection /\ Polls /\ Slotted /\ Attached

\* The least number of a set is one of it.
LEMMA LeastIsIn ==
  ASSUME NEW S \in SUBSET Nat, S # {}
  PROVE  Least(S) \in S
<1>1. \E x \in S : \A y \in S : ~ (<<y, x>> \in OpToRel(<, Nat))
  BY NatLessThanWellFounded, WFMin, Zenon
<1>2. PICK x \in S : \A y \in S : ~ (<<y, x>> \in OpToRel(<, Nat))
  BY <1>1
<1>3. ASSUME NEW y \in S PROVE x <= y
  <2>1. x \in Nat /\ y \in Nat /\ <<y, x>> \in Nat \X Nat
    OBVIOUS
  <2>2. y < x => <<y, x>> \in OpToRel(<, Nat)
    BY <2>1 DEF OpToRel
  <2>3. ~ (y < x)
    BY <2>2, <1>2, Zenon
  <2> QED BY <2>1, <2>3
<1>4. \E z \in S : \A y \in S : z <= y
  BY <1>3
<1> QED BY <1>4, Zenon DEF Least

\* connect gets a connection that nobody has.
LEMMA NewConnUnused ==
  ASSUME CanConnect
  PROVE  NewConn \in Conns /\ sock[NewConn].cl = "closed" /\ sock[NewConn].srv = "closed"
<1>1. Unused \in SUBSET Nat /\ Unused # {}
  BY ConnsAssumption DEF Unused, CanConnect
<1>2. NewConn \in Unused
  BY <1>1, LeastIsIn DEF NewConn
<1> QED BY <1>2 DEF Unused

\* A player is accepted into a slot of the table that is free, with a thread
\* that does not live yet.
LEMMA SlotFree ==
  ASSUME FreeSlots # {}
  PROVE  Least(FreeSlots) \in Slots /\ ~connects[Least(FreeSlots)].is_used
<1>1. FreeSlots \in SUBSET Nat
  BY AactdAssumption DEF FreeSlots
<1>2. Least(FreeSlots) \in FreeSlots
  BY <1>1, LeastIsIn
<1> QED BY <1>2 DEF FreeSlots

\* The same for the thread.
LEMMA WorkerFree ==
  ASSUME Alive # Workers
  PROVE  Least(Workers \ Alive) \in Workers /\ worker[Least(Workers \ Alive)].st = "none"
<1>1. Workers \ Alive \in SUBSET Nat /\ Workers \ Alive # {}
  BY AactdAssumption DEF Alive
<1>2. Least(Workers \ Alive) \in Workers \ Alive
  BY <1>1, LeastIsIn
<1> QED BY <1>2 DEF Alive

\* The invariant holds at the start.
LEMMA InitTune == Init => TuneInv
<1> SUFFICES ASSUME Init PROVE TuneInv
  OBVIOUS
<1> USE DEF Init, SocketInit, DaemonInit, PluginInit, Closed, Empty, NoWorker
<1>0. MaxUpdates \in Nat /\ MaxFaults \in Nat
  BY AactdAssumption
<1>1. SocketType
  <2>1. <<>> \in Seq(0..MaxUpdates)
    OBVIOUS
  <2> QED BY <2>1 DEF SocketType
<1>2. DaemonType
  BY <1>0 DEF DaemonType
<1>3. PluginType
  <2>1. should_stop \in BOOLEAN
    BY Zenon
  <2>2. eq \in 0..MaxUpdates /\ lost \in 0..MaxUpdates /\ tuning_fd \in Conns \cup {0}
    BY <1>0
  <2>3. /\ app = "closed" /\ trying = "none" /\ tuning = "none" /\ event = "none"
    OBVIOUS
  <2> HIDE DEF Init, SocketInit, DaemonInit, PluginInit
  <2> QED BY <2>1, <2>2, <2>3 DEF PluginType
<1>4. OneConnection /\ Polls
  <2>1. \A c \in Conns : sock[c].cl = "closed"
    OBVIOUS
  <2>2. OneConnection
    BY <2>1 DEF OneConnection
  <2>3. Polls
    BY DEF Polls
  <2> QED BY <2>2, <2>3
<1>5. Slotted /\ Attached
  BY DEF Slotted, Attached, Alive, Serving
<1> QED BY <1>1, <1>2, <1>3, <1>4, <1>5 DEF TuneInv, TypeOK

-----------------------------------------------------------------------------
\* A step of the player leaves the daemon's part alone as long as it does
\* not close the daemon's ends.
LEMMA PlayerKeeps ==
  ASSUME TuneInv, UNCHANGED <<listening, daemonVars>>,
         SocketType', PluginType', OneConnection', Polls',
         \A c \in Conns : sock[c].srv = "open" => sock'[c].srv = "open"
  PROVE  TuneInv'
<1> USE DEF daemonVars
<1>1. DaemonType'
  BY DEF TuneInv, TypeOK, DaemonType
<1>2. Slotted'
  BY DEF TuneInv, Slotted, Alive
<1>3. Attached'
  BY DEF TuneInv, Attached, Serving, FdOf
<1> QED BY <1>1, <1>2, <1>3 DEF TuneInv, TypeOK

\* The same for a step that has nothing to do with the socket.
LEMMA PlayerAlone ==
  ASSUME TuneInv, UNCHANGED <<sock, listening, tuning_fd, daemonVars>>, PluginType', Polls'
  PROVE  TuneInv'
<1>1. SocketType' /\ OneConnection'
  BY DEF TuneInv, TypeOK, SocketType, OneConnection
<1> QED BY <1>1, PlayerKeeps

\* A step of the daemon leaves the player's part alone.
LEMMA DaemonKeeps ==
  ASSUME TuneInv, UNCHANGED pluginVars, SocketType', DaemonType', Slotted', Attached',
         \A c \in Conns : sock[c].cl = "closed" => sock'[c].cl = "closed"
  PROVE  TuneInv'
<1> USE DEF pluginVars, equaliser
<1>1. PluginType'
  BY DEF TuneInv, TypeOK, PluginType
<1>2. OneConnection'
  BY DEF TuneInv, OneConnection
<1>3. Polls'
  BY DEF TuneInv, Polls
<1> QED BY <1>1, <1>2, <1>3 DEF TuneInv, TypeOK

\* What the player's close does to the connections.
LEMMA ClientClosesKeeps ==
  ASSUME SocketType, NEW C, sock' = ClientCloses(C), UNCHANGED listening
  PROVE  /\ SocketType'
         /\ \A c \in Conns : /\ sock'[c].srv = sock[c].srv
                             /\ c \in C => sock'[c].cl = "closed"
                             /\ c \notin C => sock'[c] = sock[c]
<1> DEFINE Rec == [cl : {"open", "shut", "closed"}, srv : {"pending", "open", "closed"},
                   q : Seq(0..MaxUpdates), news : BOOLEAN]
<1>1. <<>> \in Seq(0..MaxUpdates)
  OBVIOUS
<1>2. ASSUME NEW c \in Conns
      PROVE  /\ sock'[c] \in Rec
             /\ sock'[c].srv = sock[c].srv
             /\ c \in C => sock'[c].cl = "closed"
             /\ c \notin C => sock'[c] = sock[c]
  <2>1. sock[c] \in Rec
    BY DEF SocketType
  <2>2. sock'[c] = IF c \notin C THEN sock[c] ELSE [Closed EXCEPT !.srv = sock[c].srv]
    BY DEF ClientCloses
  <2>3. CASE c \in C
    <3>1. sock'[c] = [Closed EXCEPT !.srv = sock[c].srv]
      BY <2>2, <2>3
    <3> QED BY <3>1, <2>1, <2>3, <1>1 DEF Closed
  <2> QED BY <2>1, <2>2, <2>3
<1>3. sock' \in [Conns -> Rec]
  BY <1>2 DEF ClientCloses
<1> QED BY <1>2, <1>3 DEF SocketType

\* What the daemon's close does to them.
LEMMA ServerClosesKeeps ==
  ASSUME SocketType, NEW C, sock' = ServerCloses(C), listening' \in BOOLEAN
  PROVE  /\ SocketType'
         /\ \A c \in Conns : /\ sock'[c].cl = sock[c].cl
                             /\ c \notin C => sock'[c] = sock[c]
<1> DEFINE Rec == [cl : {"open", "shut", "closed"}, srv : {"pending", "open", "closed"},
                   q : Seq(0..MaxUpdates), news : BOOLEAN]
<1>1. <<>> \in Seq(0..MaxUpdates)
  OBVIOUS
<1>2. ASSUME NEW c \in Conns
      PROVE  sock'[c] \in Rec /\ sock'[c].cl = sock[c].cl /\ (c \notin C => sock'[c] = sock[c])
  <2>1. sock[c] \in Rec
    BY DEF SocketType
  <2>2. sock'[c] = IF c \notin C THEN sock[c]
                   ELSE IF sock[c].cl = "closed" THEN Closed
                   ELSE [sock[c] EXCEPT !.srv = "closed", !.news = TRUE]
    BY DEF ServerCloses
  <2>3. CASE c \in C /\ sock[c].cl = "closed"
    <3>1. sock'[c] = Closed
      BY <2>2, <2>3
    <3> QED BY <3>1, <2>3, <1>1 DEF Closed
  <2>4. CASE c \in C /\ sock[c].cl # "closed"
    <3>1. sock'[c] = [sock[c] EXCEPT !.srv = "closed", !.news = TRUE]
      BY <2>2, <2>4
    <3> QED BY <3>1, <2>1, <2>4
  <2> QED BY <2>1, <2>2, <2>3, <2>4
<1>3. sock' \in [Conns -> Rec]
  BY <1>2 DEF ServerCloses
<1> QED BY <1>2, <1>3 DEF SocketType

\* hw_params and its eq_create, hw_free, the joins and the end of the player.
LEMMA PlayerStep ==
  ASSUME TuneInv, UNCHANGED daemonVars,
         \/ awequal_hw_params \/ eq_create \/ awequal_hw_free
         \/ JoinTrying \/ JoinTuning \/ Exit
  PROVE  TuneInv'
<1> USE DEF TuneInv
<1>1. CASE awequal_hw_params
  <2>1. PluginType' /\ Polls'
    BY <1>1, AactdAssumption DEF awequal_hw_params, TypeOK, PluginType, Polls
  <2> QED BY <1>1, <2>1, PlayerAlone DEF awequal_hw_params
<1>2. CASE awequal_hw_free
  <2>1. PluginType' /\ Polls'
    BY <1>2 DEF awequal_hw_free, TypeOK, PluginType, Polls, Signalled, equaliser
  <2>2. CASE tuning_fd = 0
    BY <1>2, <2>1, <2>2, PlayerAlone DEF awequal_hw_free
  <2>3. CASE tuning_fd # 0
    <3>1. tuning_fd \in Conns /\ sock' = ShutDown(tuning_fd) /\ UNCHANGED <<listening, tuning_fd>>
      BY <1>2, <2>3 DEF awequal_hw_free, TypeOK, PluginType
    <3>2. SocketType'
      BY <3>1 DEF TypeOK, SocketType, ShutDown
    <3>3. OneConnection'
      BY <3>1 DEF TypeOK, SocketType, ShutDown, OneConnection
    <3>4. \A c \in Conns : sock[c].srv = "open" => sock'[c].srv = "open"
      BY <3>1 DEF TypeOK, SocketType, ShutDown
    <3> QED BY <3>1, <3>2, <3>3, <3>4, <2>1, PlayerKeeps
  <2> QED BY <2>2, <2>3
<1>3. CASE JoinTrying
  <2>1. PluginType' /\ Polls'
    BY <1>3 DEF JoinTrying, TypeOK, PluginType, Polls, equaliser
  <2> QED BY <1>3, <2>1, PlayerAlone DEF JoinTrying
<1>4. CASE JoinTuning
  <2>1. PluginType' /\ Polls'
    BY <1>4, AactdAssumption DEF JoinTuning, TypeOK, PluginType, Polls
  <2> QED BY <1>4, <2>1, PlayerAlone DEF JoinTuning
<1>5. CASE Exit
  <2>0. MaxUpdates \in Nat
    BY AactdAssumption
  <2>1. PluginType' /\ Polls'
    <3>1. should_stop' \in BOOLEAN
      BY <1>5, Zenon DEF Exit
    <3>2. /\ eq' = 0 /\ lost' = 0 /\ tuning_fd' = 0 /\ app' = "closed"
          /\ trying' = "none" /\ tuning' = "none" /\ event' = "none"
      BY <1>5 DEF Exit
    <3> QED BY <3>1, <3>2, <2>0 DEF PluginType, Polls
  <2>2. sock' = ClientCloses(Conns) /\ UNCHANGED listening
    BY <1>5 DEF Exit
  <2>3. SocketType' /\ \A c \in Conns : sock'[c].cl = "closed" /\ sock'[c].srv = sock[c].srv
    BY <2>2, ClientClosesKeeps DEF TypeOK
  <2>4. OneConnection'
    BY <2>3 DEF OneConnection
  <2> QED BY <2>1, <2>2, <2>3, <2>4, PlayerKeeps
<1>6. CASE eq_create
  <2>1. PluginType' /\ Polls'
    BY <1>6 DEF eq_create, TypeOK, PluginType, Polls, equaliser
  <2> QED BY <1>6, <2>1, PlayerAlone DEF eq_create
<1> QED BY <1>1, <1>2, <1>3, <1>4, <1>5, <1>6

\* The thread that connects.
LEMMA TryStep ==
  ASSUME TuneInv, UNCHANGED daemonVars, try_connecting_thread
  PROVE  TuneInv'
<1> USE DEF TuneInv
<1>1. ASSUME UNCHANGED <<sock, listening, app, tuning, event, tuning_fd, should_stop, equaliser>>,
             trying' \in {"wait", "test", "lock", "end"}
      PROVE  TuneInv'
  <2>1. PluginType' /\ Polls'
    BY <1>1 DEF TypeOK, PluginType, Polls, equaliser
  <2> QED BY <1>1, <2>1, PlayerAlone
<1>2. ASSUME tuning_fd = 0, ConnectsNow
      PROVE  TuneInv'
  <2>1. PluginType' /\ Polls' /\ UNCHANGED listening
    <3>1. tuning_fd' \in Conns \cup {0}
      BY <1>2, NewConnUnused DEF ConnectsNow
    <3>2. tuning \notin {"poll", "event", "rebuild"}
      BY <1>2 DEF Polls
    <3> QED BY <1>2, <3>1, <3>2 DEF ConnectsNow, TypeOK, PluginType, Polls, Signalled, equaliser
  <2>2. CASE ~CanConnect
    <3>1. UNCHANGED <<sock, tuning_fd>>
      BY <1>2, <2>2 DEF ConnectsNow
    <3> QED BY <3>1, <2>1, PlayerAlone
  <2>3. CASE CanConnect
    <3> DEFINE n == NewConn
    <3>1. n \in Conns /\ sock[n].srv = "closed" /\ tuning_fd' = n /\ sock' = Connected(n)
      BY <1>2, <2>3, NewConnUnused DEF ConnectsNow
    <3> HIDE DEF n
    <3>2. \A c \in Conns : c # n => sock'[c] = sock[c]
      BY <3>1 DEF Connected, TypeOK, SocketType
    <3>3. SocketType'
      <4>1. <<>> \in Seq(0..MaxUpdates)
        OBVIOUS
      <4> QED BY <3>1, <2>1, <4>1 DEF Connected, TypeOK, SocketType
    <3>4. OneConnection'
      BY <1>2, <3>1, <3>2, ConnsAssumption DEF OneConnection
    <3>5. \A c \in Conns : sock[c].srv = "open" => sock'[c].srv = "open"
      BY <3>1, <3>2
    <3> QED BY <3>3, <3>4, <3>5, <2>1, PlayerKeeps
  <2> QED BY <2>2, <2>3
<1>3. ASSUME ConnectOrWait PROVE TuneInv'
  BY <1>1, <1>2, <1>3 DEF ConnectOrWait
<1>4. CASE TryTest
  BY <1>4, <1>1 DEF TryTest
<1>5. CASE TryLock
  BY <1>5, <1>3 DEF TryLock
<1>6. CASE TryWoken
  BY <1>6, <1>1, <1>3 DEF TryWoken, BackToWhile
<1>7. CASE TryAgain
  BY <1>7, <1>1 DEF TryAgain
<1> QED BY <1>4, <1>5, <1>6, <1>7 DEF try_connecting_thread

\* The thread that reads parameters.
LEMMA TuneStep ==
  ASSUME TuneInv, UNCHANGED daemonVars, tuning_thread
  PROVE  TuneInv'
<1> USE DEF TuneInv
<1>1. ASSUME UNCHANGED <<sock, listening, app, trying, event, tuning_fd, should_stop, equaliser>>,
             tuning' \in {"test", "lock", "wait", "poll", "end"}, tuning' = "poll" => tuning_fd # 0
      PROVE  TuneInv'
  <2>1. PluginType' /\ Polls'
    BY <1>1 DEF TypeOK, PluginType, Polls, equaliser
  <2> QED BY <1>1, <2>1, PlayerAlone
<1>2. CASE TuneTest
  BY <1>2, <1>1 DEF TuneTest
<1>3. ASSUME AddOrWait PROVE TuneInv'
  BY <1>3, <1>1 DEF AddOrWait
<1>4. CASE TuneLock
  BY <1>4, <1>3 DEF TuneLock
<1>5. CASE TuneWoken
  BY <1>5, <1>1, <1>3 DEF TuneWoken
<1>6. CASE EpollReturns
  <2>1. tuning_fd \in Conns
    BY <1>6 DEF EpollReturns, Polls, TypeOK, PluginType
  <2>2. PluginType' /\ Polls'
    BY <1>6, <2>1 DEF EpollReturns, TypeOK, PluginType, Polls, equaliser
  <2>3. sock' = [sock EXCEPT ![tuning_fd].news = FALSE] /\ UNCHANGED <<listening, tuning_fd>>
    BY <1>6 DEF EpollReturns
  <2>4. SocketType'
    BY <2>1, <2>3 DEF TypeOK, SocketType
  <2>5. \A c \in Conns : sock'[c].cl = sock[c].cl /\ sock'[c].srv = sock[c].srv
    BY <2>1, <2>3 DEF TypeOK, SocketType
  <2>6. OneConnection'
    BY <2>3, <2>5 DEF OneConnection
  <2> QED BY <2>2, <2>3, <2>4, <2>5, <2>6, PlayerKeeps
<1>7. CASE Event
  <2>1. tuning_fd \in Conns
    BY <1>7 DEF Event, Polls, TypeOK, PluginType
  <2>2. CASE /\ event = "in" /\ sock[tuning_fd].q # <<>>
             /\ LET v == Head(sock[tuning_fd].q)
                IN  ResetEq(v) \/ ResetFails(v) \/ Discard(v)
             /\ sock' = [sock EXCEPT ![tuning_fd].q = Tail(@)] /\ tuning' = "poll"
    <3> DEFINE frames == sock[tuning_fd].q
    <3>1. /\ frames \in Seq(0..MaxUpdates) /\ frames # <<>>
          /\ ResetEq(Head(frames)) \/ ResetFails(Head(frames)) \/ Discard(Head(frames))
      BY <2>1, <2>2 DEF TypeOK, SocketType
    <3> HIDE DEF frames
    <3>a. Head(frames) \in 0..MaxUpdates /\ Tail(frames) \in Seq(0..MaxUpdates)
      BY <3>1, HeadTailProperties, Zenon
    <3>b. 0 \in 0..MaxUpdates
      BY AactdAssumption
    <3>2. eq' \in 0..MaxUpdates /\ lost' \in 0..MaxUpdates
      BY <3>1, <3>a, <3>b DEF ResetEq, ResetFails, Discard, Overtaken, TypeOK, PluginType
    <3>c. Tail(sock[tuning_fd].q) \in Seq(0..MaxUpdates)
      BY <3>a DEF frames
    <3>3. PluginType' /\ Polls' /\ UNCHANGED <<listening, tuning_fd>>
      BY <1>7, <2>1, <2>2, <3>2 DEF Event, TypeOK, PluginType, Polls
    <3>4. SocketType'
      BY <2>1, <2>2, <3>c, <3>3 DEF TypeOK, SocketType
    <3>5. \A c \in Conns : sock'[c].cl = sock[c].cl /\ sock'[c].srv = sock[c].srv
      BY <2>1, <2>2 DEF TypeOK, SocketType
    <3>6. OneConnection'
      BY <3>3, <3>5 DEF OneConnection
    <3> QED BY <3>3, <3>4, <3>5, <3>6, PlayerKeeps
  <2>3. CASE tuning' = "rebuild" /\ UNCHANGED <<sock, equaliser>>
    <3>1. PluginType' /\ Polls'
      BY <1>7, <2>1, <2>3 DEF Event, TypeOK, PluginType, Polls, equaliser
    <3> QED BY <1>7, <2>3, <3>1, PlayerAlone DEF Event
  <2> QED BY <1>7, <2>2, <2>3 DEF Event
<1>8. CASE Rebuild
  <2>1. sock' = ClientCloses({tuning_fd}) /\ tuning_fd' = 0 /\ UNCHANGED listening
    BY <1>8 DEF Rebuild
  <2> DEFINE C == {tuning_fd}
  <2>a. sock' = ClientCloses(C) /\ \A c : c \in C <=> c = tuning_fd
    BY <2>1
  <2> HIDE DEF C
  <2>b. SocketType' /\ \A c \in Conns : /\ sock'[c].srv = sock[c].srv
                                        /\ c \in C => sock'[c].cl = "closed"
                                        /\ c \notin C => sock'[c] = sock[c]
    BY <2>1, <2>a, ClientClosesKeeps DEF TypeOK
  <2>2. SocketType' /\ \A c \in Conns : /\ sock'[c].srv = sock[c].srv
                                        /\ c = tuning_fd => sock'[c].cl = "closed"
                                        /\ c # tuning_fd => sock'[c] = sock[c]
    BY <2>a, <2>b
  <2>3. OneConnection'
    BY <2>1, <2>2 DEF OneConnection
  <2>4. PluginType' /\ Polls'
    BY <1>8, AactdAssumption DEF Rebuild, TypeOK, PluginType, Polls, Reconnect, Signalled
  <2> QED BY <2>1, <2>2, <2>3, <2>4, PlayerKeeps
<1> QED BY <1>2, <1>4, <1>5, <1>6, <1>7, <1>8 DEF tuning_thread

\* A wake-up without signal.
LEMMA NothingStep ==
  ASSUME TuneInv, UNCHANGED daemonVars, WakeForNothing
  PROVE  TuneInv'
<1>1. PluginType' /\ Polls'
  BY DEF WakeForNothing, TuneInv, TypeOK, PluginType, Polls, equaliser
<1> QED BY <1>1, PlayerAlone DEF WakeForNothing

-----------------------------------------------------------------------------
\* A step of one thread of the daemon that keeps its slot, or leaves it for
\* good, and does not touch the connections of the others.
LEMMA ThreadKeeps ==
  ASSUME TuneInv, NEW w \in Alive, NEW st, NEW owed \in BOOLEAN,
         UNCHANGED <<pluginVars, listening, local, updates, connects, faults>>,
         worker' = [worker EXCEPT ![w].st = st, ![w].owed = owed],
         st \in {"hello", "lock", "asleep", "woken", "close", "free"},
         worker[w].st # "free",
         SocketType',
         \A c \in Conns : sock[c].cl = "closed" => sock'[c].cl = "closed",
         \A c \in Conns : (sock[c].srv = "open" /\ (c # FdOf(w) \/ st # "free"))
                            => sock'[c].srv = "open"
  PROVE  TuneInv'
<1> USE DEF TuneInv, TypeOK
<1>1. DaemonType'
  BY DEF DaemonType, Alive
<1>2. /\ w \in Workers
      /\ \A x \in Workers : worker'[x].slot = worker[x].slot
      /\ \A x \in Workers : x # w => worker'[x].st = worker[x].st
      /\ worker'[w].st = st
  BY DEF DaemonType, Alive
<1>3. \A x \in Alive' : x \in Alive
  BY <1>2 DEF Alive
<1>4. Slotted'
  <2>1. \A x \in Alive' : x \in Workers /\ worker'[x].slot = worker[x].slot
    BY <1>2 DEF Alive
  <2>2. Alive' # {} => Alive # {}
    BY <1>3
  <2>3. connects' = connects /\ listening' = listening
    OBVIOUS
  <2>4. \A x \in Alive' : worker'[x].slot \in Slots /\ connects'[worker'[x].slot].is_used
    BY <1>3, <2>1, <2>3 DEF Slotted
  <2>5. \A x, y \in Alive' : worker'[x].slot = worker'[y].slot => x = y
    BY <1>3, <2>1 DEF Slotted
  <2>6. Alive' # {} => listening'
    BY <2>2, <2>3 DEF Slotted
  <2> QED BY <2>4, <2>5, <2>6 DEF Slotted
<1>5. \A x \in Serving' : x \in Serving /\ FdOf(x)' = FdOf(x) /\ (x = w => st # "free")
  <2>1. connects' = connects
    OBVIOUS
  <2>2. ASSUME NEW x \in Serving' PROVE x \in Serving /\ FdOf(x)' = FdOf(x) /\ (x = w => st # "free")
    <3>1. x \in Workers /\ worker'[x].st \in {"hello", "lock", "asleep", "woken", "close"}
      BY <2>2 DEF Serving
    <3>2. FdOf(x)' = FdOf(x)
      BY <3>1, <2>1, <1>2 DEF FdOf
    <3>3. x \in Serving
      BY <3>1, <1>2 DEF Serving, Alive, DaemonType
    <3>4. x = w => st # "free"
      BY <3>1, <1>2
    <3> QED BY <3>2, <3>3, <3>4
  <2> QED BY <2>2
<1>6. Attached'
  <2>1. w \in Serving
    BY DEF Serving, Alive, DaemonType
  <2>2. ASSUME NEW x \in Serving' PROVE FdOf(x)' \in Conns /\ sock'[FdOf(x)'].srv = "open"
    <3>1. x \in Serving /\ FdOf(x)' = FdOf(x) /\ FdOf(x) \in Conns /\ sock[FdOf(x)].srv = "open"
      BY <1>5, <2>2 DEF Attached
    <3>2. CASE st # "free"
      BY <3>1, <3>2
    <3>3. CASE st = "free"
      <4>1. x # w
        BY <1>5, <3>3, <2>2
      <4>2. FdOf(x) # FdOf(w)
        BY <4>1, <2>1, <3>1 DEF Attached
      <4> QED BY <4>2, <3>1
    <3> QED BY <3>2, <3>3
  <2>3. \A x, y \in Serving' : FdOf(x)' = FdOf(y)' => x = y
    BY <1>5 DEF Attached
  <2> QED BY <2>2, <2>3 DEF Attached
<1> QED BY <1>1, <1>4, <1>6, DaemonKeeps

\* The same for a thread that only moves.
LEMMA ThreadMoves ==
  ASSUME TuneInv, NEW w \in Alive, NEW st,
         UNCHANGED <<pluginVars, sock, listening, local, updates, connects, faults>>,
         Goes(w, st), worker[w].st # "free", st \in {"lock", "asleep", "woken", "close"}
  PROVE  TuneInv'
<1> DEFINE owed == worker[w].owed
<1>1. owed \in BOOLEAN /\ worker' = [worker EXCEPT ![w].st = st, ![w].owed = owed]
  BY DEF TuneInv, TypeOK, DaemonType, Alive, Goes
<1>2. SocketType' /\ \A c \in Conns : sock'[c] = sock[c]
  BY DEF TuneInv, TypeOK, SocketType
<1> HIDE DEF owed
<1> QED BY <1>1, <1>2, ThreadKeeps

\* A thread writes local_com to its player.
LEMMA WriteStep ==
  ASSUME TuneInv, NEW w \in Serving, Write(w),
         UNCHANGED <<pluginVars, listening, local, updates, connects, faults>>
  PROVE  TuneInv'
<1>1. w \in Alive /\ worker[w].st # "free" /\ FdOf(w) \in Conns
  BY DEF Serving, Alive, TuneInv, Attached
<1>2. CASE sock' = Sent(FdOf(w), local)
           /\ worker' = [worker EXCEPT ![w].st = "lock", ![w].owed = FALSE]
  <2> DEFINE fd == FdOf(w)
  <2>1. sock[fd].q \in Seq(0..MaxUpdates) /\ local \in 0..MaxUpdates
    BY <1>1 DEF TuneInv, TypeOK, SocketType, DaemonType
  <2>2. Append(sock[fd].q, local) \in Seq(0..MaxUpdates)
    BY <2>1, AppendProperties, Zenon
  <2>3. sock' = Sent(fd, local) /\ fd \in Conns
    BY <1>1, <1>2
  <2> HIDE DEF fd
  <2>4. SocketType'
    BY <2>2, <2>3 DEF TuneInv, TypeOK, SocketType, Sent
  <2>5. \A c \in Conns : sock'[c].cl = sock[c].cl /\ sock'[c].srv = sock[c].srv
    BY <2>3 DEF TuneInv, TypeOK, SocketType, Sent
  <2>6. FALSE \in BOOLEAN
    OBVIOUS
  <2> QED BY <1>1, <1>2, <2>4, <2>5, <2>6, ThreadKeeps
<1>3. CASE Goes(w, "close") /\ UNCHANGED sock
  BY <1>1, <1>3, ThreadMoves
<1> QED BY <1>2, <1>3 DEF Write

\* The end of a thread, first half.
LEMMA CloseStep ==
  ASSUME TuneInv, NEW w \in Workers, Close(w), UNCHANGED pluginVars
  PROVE  TuneInv'
<1>1. w \in Alive /\ worker[w].st # "free" /\ sock' = ServerCloses({FdOf(w)})
  BY DEF Close, Alive, CloseThenFree, CloseFd
<1>2. UNCHANGED <<pluginVars, listening, local, updates, connects, faults>>
  BY DEF Close, CloseThenFree, CloseFd
<1> DEFINE owed == worker[w].owed
           C == {FdOf(w)}
<1>3. owed \in BOOLEAN /\ worker' = [worker EXCEPT ![w].st = "free", ![w].owed = owed]
  BY DEF Close, Goes, TuneInv, TypeOK, DaemonType
<1>4. sock' = ServerCloses(C) /\ listening' \in BOOLEAN /\ \A c : c \in C <=> c = FdOf(w)
  BY <1>1, <1>2 DEF TuneInv, TypeOK, SocketType
<1> HIDE DEF owed, C
<1>5. SocketType' /\ \A c \in Conns : /\ sock'[c].cl = sock[c].cl
                                      /\ c \notin C => sock'[c] = sock[c]
  BY <1>4, ServerClosesKeeps DEF TuneInv, TypeOK
<1>6. \A c \in Conns : c # FdOf(w) => sock'[c] = sock[c]
  BY <1>4, <1>5
<1> QED BY <1>1, <1>2, <1>3, <1>5, <1>6, ThreadKeeps

\* The second half: nobody else has the slot it gives back.
LEMMA FreeStep ==
  ASSUME TuneInv, NEW w \in Workers, Free(w), UNCHANGED pluginVars
  PROVE  TuneInv'
<1> USE DEF TuneInv, TypeOK
<1> DEFINE s == worker[w].slot
<1>1. /\ w \in Alive /\ s \in Slots /\ w \notin Serving
      /\ connects' = [connects EXCEPT ![s] = [fd |-> 0, is_used |-> FALSE]]
      /\ worker' = [worker EXCEPT ![w] = NoWorker]
      /\ sock' = sock /\ listening' = listening
      /\ UNCHANGED <<local, updates, faults>>
  BY DEF Free, Alive, Serving, CloseThenFree, FreeSlot, Slotted
<1>2. \A x \in Workers : x # w => worker'[x] = worker[x]
  BY <1>1 DEF DaemonType
<1>3. worker'[w].st = "none"
  BY <1>1 DEF DaemonType, NoWorker
<1>4. \A x \in Alive' : x \in Alive /\ x # w /\ worker'[x] = worker[x]
  BY <1>2, <1>3 DEF Alive
<1>5. \A x \in Alive' : worker[x].slot # s /\ worker[x].slot \in Slots
  BY <1>1, <1>4 DEF Slotted
<1>6. \A t \in Slots : t # s => connects'[t] = connects[t]
  BY <1>1 DEF DaemonType
<1> HIDE DEF s
<1>7. DaemonType'
  BY <1>1 DEF DaemonType, NoWorker
<1>8. Slotted'
  <2>1. \A x \in Alive' : worker'[x].slot \in Slots /\ connects'[worker'[x].slot].is_used
    BY <1>4, <1>5, <1>6 DEF Slotted
  <2>2. \A x, y \in Alive' : worker'[x].slot = worker'[y].slot => x = y
    BY <1>4 DEF Slotted
  <2>3. Alive' # {} => listening'
    BY <1>1, <1>4 DEF Slotted
  <2> QED BY <2>1, <2>2, <2>3 DEF Slotted
<1>9. \A x \in Serving' : x \in Serving /\ FdOf(x)' = FdOf(x)
  <2>1. \A x \in Serving' : x \in Alive' /\ x \in Serving
    BY <1>2, <1>3 DEF Alive, Serving
  <2> QED BY <2>1, <1>4, <1>5, <1>6 DEF FdOf
<1>10. Attached'
  BY <1>1, <1>9 DEF Attached
<1>11. SocketType' /\ \A c \in Conns : sock[c].cl = "closed" => sock'[c].cl = "closed"
  BY <1>1 DEF SocketType
<1> QED BY <1>7, <1>8, <1>10, <1>11, DaemonKeeps

\* The steps of a thread of the daemon.
LEMMA WorkerKeeps ==
  ASSUME TuneInv, NEW w \in Workers, WorkerStep(w) \/ WakeSpuriously(w), UNCHANGED pluginVars
  PROVE  TuneInv'
<1>1. CASE Hello(w)
  <2>1. w \in Serving /\ w \in Alive /\ worker[w].st # "free"
    BY <1>1 DEF Hello, Serving, Alive
  <2>2. UNCHANGED <<pluginVars, listening, local, updates, connects, faults>>
    BY <1>1 DEF Hello
  <2>3. CASE Write(w)
    BY <2>1, <2>2, <2>3, WriteStep
  <2>4. CASE Goes(w, "lock") /\ UNCHANGED sock
    BY <2>1, <2>2, <2>4, ThreadMoves
  <2> QED BY <1>1, <2>3, <2>4 DEF Hello
<1>2. CASE Sleep(w)
  <2>1. w \in Alive /\ worker[w].st # "free"
    BY <1>2 DEF Sleep, Alive
  <2> QED BY <1>2, <2>1, ThreadMoves DEF Sleep
<1>3. CASE WriteUpdate(w)
  <2>1. w \in Serving
    BY <1>3 DEF WriteUpdate, Serving
  <2> QED BY <1>3, <2>1, WriteStep DEF WriteUpdate
<1>4. CASE Close(w)
  BY <1>4, CloseStep
<1>5. CASE Free(w)
  BY <1>5, FreeStep
<1>6. CASE WakeSpuriously(w)
  <2> USE DEF TuneInv, TypeOK
  <2>1. /\ sock' = sock /\ listening' = listening /\ connects' = connects
        /\ local' = local /\ updates' = updates /\ faults' = faults + 1 /\ faults < MaxFaults
        /\ worker' = [worker EXCEPT ![w].st = "woken"] /\ worker[w].st = "asleep"
    BY <1>6 DEF WakeSpuriously, Goes
  <2>2. \A x \in Workers : worker'[x].slot = worker[x].slot
    BY <2>1 DEF DaemonType
  <2>3. \A x \in Workers : (x \in Alive' <=> x \in Alive) /\ (x \in Serving' <=> x \in Serving)
    BY <2>1 DEF DaemonType, Alive, Serving
  <2>4. DaemonType'
    BY <2>1, AactdAssumption DEF DaemonType
  <2>5. \A x \in Alive' : x \in Alive /\ worker'[x].slot = worker[x].slot
    BY <2>2, <2>3 DEF Alive
  <2>6. Slotted'
    BY <2>1, <2>5 DEF Slotted
  <2>7. \A x \in Serving' : x \in Serving /\ FdOf(x)' = FdOf(x)
    BY <2>1, <2>2, <2>3 DEF Serving, FdOf
  <2>8. Attached'
    BY <2>1, <2>7 DEF Attached
  <2>9. SocketType' /\ \A c \in Conns : sock[c].cl = "closed" => sock'[c].cl = "closed"
    BY <2>1 DEF SocketType
  <2> QED BY <2>4, <2>6, <2>8, <2>9, DaemonKeeps
<1> QED BY <1>1, <1>2, <1>3, <1>4, <1>5, <1>6 DEF WorkerStep

\* The start and the death of the daemon.
LEMMA StartAndDeath ==
  ASSUME TuneInv, server_thread \/ Die, UNCHANGED pluginVars
  PROVE  TuneInv'
<1> USE DEF TuneInv, TypeOK
<1>0. MaxUpdates \in Nat /\ MaxFaults \in Nat
  BY AactdAssumption
<1>1. CASE server_thread
  <2>1. sock' = sock /\ worker' = worker /\ listening = FALSE
    <3>1. ~listening /\ sock' = sock /\ worker' = worker
      BY <1>1 DEF server_thread
    <3>2. listening \in BOOLEAN
      BY DEF SocketType
    <3> QED BY <3>1, <3>2, Zenon
  <2>2. listening' \in BOOLEAN
    BY <1>1, Zenon DEF server_thread
  <2>3. \A w \in Workers : worker'[w].st = "none"
    BY <2>1 DEF Slotted, Alive
  <2>4. Slotted' /\ Attached'
    BY <2>3 DEF Slotted, Attached, Alive, Serving
  <2>5. DaemonType'
    BY <1>0, <1>1 DEF server_thread, DaemonType, Empty
  <2>6. SocketType' /\ \A c \in Conns : sock[c].cl = "closed" => sock'[c].cl = "closed"
    BY <2>1, <2>2 DEF SocketType
  <2> QED BY <2>4, <2>5, <2>6, DaemonKeeps
<1>2. CASE Die
  <2>1. listening' \in BOOLEAN
    BY <1>2, Zenon DEF Die
  <2>2. sock' = ServerCloses(Conns)
    BY <1>2 DEF Die
  <2>3. SocketType' /\ \A c \in Conns : sock'[c].cl = sock[c].cl
    BY <2>1, <2>2, ServerClosesKeeps
  <2>4. DaemonType'
    BY <1>0, <1>2 DEF Die, DaemonType, Empty, NoWorker
  <2>5. \A w \in Workers : worker'[w].st = "none"
    BY <1>2 DEF Die, NoWorker
  <2>6. Slotted' /\ Attached'
    BY <2>5 DEF Slotted, Attached, Alive, Serving
  <2> QED BY <2>3, <2>4, <2>6, DaemonKeeps
<1> QED BY <1>1, <1>2

\* A connection that leaves the backlog for a free slot was nobody's.
LEMMA AcceptStep ==
  ASSUME TuneInv, Accept \/ AcceptWithoutThread, UNCHANGED pluginVars
  PROVE  TuneInv'
<1> USE DEF TuneInv, TypeOK
<1>1. PICK c \in Pending : /\ SlotTaken(c) /\ FreeSlots # {} /\ listening
                          /\ sock' = [sock EXCEPT ![c].srv = "open"]
                          /\ UNCHANGED <<listening, local, updates>>
                          /\ \/ /\ Alive # Workers /\ UNCHANGED faults
                                /\ worker' = [worker EXCEPT ![Least(Workers \ Alive)] =
                                     [st |-> "hello", slot |-> Least(FreeSlots), owed |-> FALSE]]
                             \/ faults < MaxFaults /\ faults' = faults + 1 /\ UNCHANGED worker
  BY DEF Accept, AcceptWithoutThread
<1> DEFINE s == Least(FreeSlots)
           n == Least(Workers \ Alive)
<1>2. /\ s \in Slots /\ ~connects[s].is_used
      /\ connects' = [connects EXCEPT ![s] = [fd |-> c, is_used |-> TRUE]]
  BY <1>1, SlotFree DEF SlotTaken
<1>3. CASE /\ Alive # Workers /\ UNCHANGED faults
           /\ worker' = [worker EXCEPT ![n] = [st |-> "hello", slot |-> s, owed |-> FALSE]]
  <2>a. n \in Workers /\ worker[n].st = "none"
    BY <1>3, WorkerFree
  <2>1. PICK m \in Workers : m = n /\ worker[m].st = "none"
    BY <2>a, Zenon
  <2>b. worker' = [worker EXCEPT ![m] = [st |-> "hello", slot |-> s, owed |-> FALSE]]
    BY <1>3, <2>1
  <2> HIDE DEF s, n
  <2>2. c \in Conns /\ sock[c].srv = "pending"
    BY DEF Pending
  <2>3. \A x \in Workers : x # m => worker'[x] = worker[x]
    BY <2>b, <2>1 DEF DaemonType
  <2>4. worker'[m].st = "hello" /\ worker'[m].slot = s
    BY <2>b, <2>1 DEF DaemonType
  <2>5. \A t \in Slots : t # s => connects'[t] = connects[t]
    BY <1>2 DEF DaemonType
  <2>6. connects'[s].fd = c /\ connects'[s].is_used
    BY <1>2 DEF DaemonType
  <2>7. \A x \in Alive : worker[x].slot \in Slots /\ worker[x].slot # s
    BY <1>2 DEF Slotted
  <2>8. \A x \in Alive' : x # m => x \in Alive /\ worker'[x] = worker[x]
    BY <2>3 DEF Alive
  <2>9. Slotted'
    <3>1. \A x \in Alive' : worker'[x].slot \in Slots /\ connects'[worker'[x].slot].is_used
      BY <1>2, <2>4, <2>5, <2>6, <2>7, <2>8 DEF Slotted
    <3>2. \A x, y \in Alive' : worker'[x].slot = worker'[y].slot => x = y
      BY <2>4, <2>7, <2>8 DEF Slotted
    <3>3. listening'
      BY <1>1
    <3> QED BY <3>1, <3>2, <3>3 DEF Slotted
  <2>10. \A d \in Conns : sock[d].srv = "open" => sock'[d].srv = "open" /\ d # c
    BY <1>1, <2>2 DEF SocketType
  <2>11. sock'[c].srv = "open"
    BY <1>1, <2>2 DEF SocketType
  <2>12. \A x \in Serving' : x # m => /\ x \in Serving /\ FdOf(x)' = FdOf(x) /\ FdOf(x) \in Conns
                                      /\ sock[FdOf(x)].srv = "open"
    <3>1. ASSUME NEW x \in Serving', x # m
          PROVE  x \in Serving /\ FdOf(x)' = FdOf(x)
      <4>1. x \in Serving /\ x \in Alive /\ worker'[x] = worker[x]
        BY <3>1, <2>3 DEF Serving, Alive
      <4> QED BY <4>1, <2>5, <2>7 DEF FdOf
    <3> QED BY <3>1 DEF Attached
  <2>13. FdOf(m)' = c
    BY <2>4, <2>6 DEF FdOf
  <2>14. Attached'
    <3>1. \A x \in Serving' : FdOf(x)' \in Conns /\ sock'[FdOf(x)'].srv = "open"
      BY <2>2, <2>10, <2>11, <2>12, <2>13
    <3>2. \A x, y \in Serving' : FdOf(x)' = FdOf(y)' => x = y
      <4>1. \A x \in Serving' : x # m => FdOf(x)' # c
        BY <2>10, <2>12
      <4>2. \A x, y \in Serving' : x # m /\ y # m /\ FdOf(x)' = FdOf(y)' => x = y
        BY <2>12 DEF Attached
      <4> QED BY <4>1, <4>2, <2>13
    <3> QED BY <3>1, <3>2 DEF Attached
  <2>15. DaemonType'
    BY <1>1, <1>2, <1>3, <2>b, <2>1, <2>2 DEF DaemonType
  <2>16. SocketType' /\ \A d \in Conns : sock'[d].cl = sock[d].cl
    BY <1>1, <2>2 DEF SocketType
  <2> QED BY <2>9, <2>14, <2>15, <2>16, DaemonKeeps
<1>4. CASE faults < MaxFaults /\ faults' = faults + 1 /\ worker' = worker
  <2> HIDE DEF s, n
  <2>2. c \in Conns /\ sock[c].srv = "pending"
    BY DEF Pending
  <2>5. \A t \in Slots : t # s => connects'[t] = connects[t]
    BY <1>2 DEF DaemonType
  <2>7. \A x \in Alive : worker[x].slot \in Slots /\ worker[x].slot # s
    BY <1>2 DEF Slotted
  <2>8. Alive' = Alive /\ Serving' = Serving
    BY <1>4 DEF Alive, Serving
  <2>9. Slotted'
    <3>1. \A x \in Alive' : worker'[x].slot \in Slots /\ connects'[worker'[x].slot].is_used
      BY <1>4, <2>5, <2>7, <2>8 DEF Slotted
    <3>2. \A x, y \in Alive' : worker'[x].slot = worker'[y].slot => x = y
      BY <1>4, <2>8 DEF Slotted
    <3>3. listening'
      BY <1>1
    <3> QED BY <3>1, <3>2, <3>3 DEF Slotted
  <2>10. \A d \in Conns : sock[d].srv = "open" => sock'[d].srv = "open"
    BY <1>1, <2>2 DEF SocketType
  <2>12. \A x \in Serving : FdOf(x)' = FdOf(x)
    <3>1. \A x \in Serving : x \in Alive
      BY DEF Serving, Alive
    <3> QED BY <3>1, <1>4, <2>5, <2>7 DEF FdOf
  <2>14. Attached'
    BY <2>8, <2>10, <2>12 DEF Attached
  <2>15. DaemonType'
    BY <1>1, <1>2, <1>4, <2>2, AactdAssumption DEF DaemonType
  <2>16. SocketType' /\ \A d \in Conns : sock'[d].cl = sock[d].cl
    BY <1>1, <2>2 DEF SocketType
  <2> QED BY <2>9, <2>14, <2>15, <2>16, DaemonKeeps
<1> QED BY <1>1, <1>3, <1>4

\* A connection refused was nobody's.
LEMMA RefuseStep ==
  ASSUME TuneInv, Refuse, UNCHANGED pluginVars
  PROVE  TuneInv'
<1> USE DEF TuneInv, TypeOK
<1>1. PICK c \in Pending : sock' = ServerCloses({c}) /\ UNCHANGED <<listening, daemonVars>>
  BY DEF Refuse
<1> DEFINE C == {c}
<1>2. /\ sock' = ServerCloses(C) /\ listening' = listening /\ listening' \in BOOLEAN
      /\ \A d : d \in C <=> d = c
  BY <1>1 DEF SocketType
<1> HIDE DEF C
<1>3. SocketType' /\ \A d \in Conns : /\ sock'[d].cl = sock[d].cl
                                      /\ d \notin C => sock'[d] = sock[d]
  BY <1>2, ServerClosesKeeps
<1>4. \A d \in Conns : sock[d].srv = "open" => sock'[d].srv = "open"
  BY <1>2, <1>3 DEF Pending
<1>5. worker' = worker /\ connects' = connects
  BY <1>1 DEF daemonVars
<1>6. DaemonType'
  BY <1>1 DEF daemonVars, DaemonType
<1>7. Slotted'
  BY <1>2, <1>5 DEF Slotted, Alive
<1>8. Attached'
  BY <1>4, <1>5 DEF Attached, Serving, FdOf
<1> QED BY <1>3, <1>6, <1>7, <1>8, DaemonKeeps

\* An update wakes sleepers and changes nothing else of the threads.
LEMMA UpdateStep ==
  ASSUME TuneInv, eq_sw_write_com_to_local, UNCHANGED pluginVars
  PROVE  TuneInv'
<1> USE DEF TuneInv, TypeOK
<1>1. /\ sock' = sock /\ listening' = listening /\ connects' = connects /\ faults' = faults
      /\ updates < MaxUpdates /\ updates' = updates + 1 /\ local' = updates + 1
      /\ worker' = [w \in Workers |->
                      [worker[w] EXCEPT !.st = IF w \in Broadcast(Asleep) THEN "woken" ELSE @,
                                        !.owed = @ \/ w \in Asleep]]
  BY DEF eq_sw_write_com_to_local
<1> DEFINE W == [st : {"none", "hello", "lock", "asleep", "woken", "close", "free"},
                 slot : Slots \cup {0}, owed : BOOLEAN]
<1>2. ASSUME NEW w \in Workers
      PROVE  /\ worker'[w] \in W
             /\ worker'[w].slot = worker[w].slot
             /\ worker'[w].st = IF worker[w].st = "asleep" THEN "woken" ELSE worker[w].st
  <2>1. worker[w] \in W
    BY DEF DaemonType
  <2>2. w \in Broadcast(Asleep) <=> worker[w].st = "asleep"
    BY DEF Broadcast, Asleep
  <2> DEFINE o == worker[w].owed \/ w \in Asleep
             t == IF worker[w].st = "asleep" THEN "woken" ELSE worker[w].st
  <2>3. o \in BOOLEAN
    BY Zenon
  <2>4. worker'[w] = [worker[w] EXCEPT !.st = t, !.owed = o]
    BY <1>1, <2>2
  <2>5. t \in {"none", "hello", "lock", "asleep", "woken", "close", "free"}
    BY <2>1
  <2> HIDE DEF o, t
  <2>6. worker'[w] \in W /\ worker'[w].slot = worker[w].slot /\ worker'[w].st = t
    BY <2>1, <2>3, <2>4, <2>5
  <2> QED BY <2>6 DEF t
<1>3. worker' \in [Workers -> W]
  BY <1>1, <1>2
<1>4. DaemonType'
  <2>0. updates \in 0..MaxUpdates /\ updates < MaxUpdates /\ updates' = updates + 1 /\ local' = updates + 1
    BY <1>1 DEF DaemonType
  <2>1. local' \in 0..MaxUpdates /\ updates' \in 0..MaxUpdates
    BY <2>0, AactdAssumption
  <2> QED BY <1>1, <1>3, <2>1 DEF DaemonType
<1>5. Alive' = Alive
  BY <1>2 DEF Alive
<1>6. Serving' = Serving
  BY <1>2 DEF Serving
<1>7. Slotted'
  <2>1. \A x \in Alive' : x \in Alive /\ worker'[x].slot = worker[x].slot
    BY <1>2, <1>5 DEF Alive
  <2>2. connects' = connects /\ listening' = listening /\ (Alive' # {} => Alive # {})
    BY <1>1, <1>5
  <2> QED BY <2>1, <2>2 DEF Slotted
<1>8. Attached'
  <2>1. \A x \in Serving' : x \in Serving /\ FdOf(x)' = FdOf(x)
    BY <1>1, <1>2, <1>6 DEF Serving, FdOf
  <2>2. sock' = sock
    BY <1>1
  <2> QED BY <2>1, <2>2 DEF Attached
<1>9. SocketType' /\ \A c \in Conns : sock[c].cl = "closed" => sock'[c].cl = "closed"
  BY <1>1 DEF SocketType
<1> QED BY <1>4, <1>7, <1>8, <1>9, DaemonKeeps

-----------------------------------------------------------------------------
\* Every step keeps the invariant.
LEMMA NextTune == TuneInv /\ [Next]_vars => TuneInv'
<1> SUFFICES ASSUME TuneInv, [Next]_vars PROVE TuneInv'
  OBVIOUS
<1>1. CASE DaemonNext /\ UNCHANGED pluginVars
  <2>1. CASE server_thread \/ Die
    BY <1>1, <2>1, StartAndDeath
  <2>2. CASE Accept \/ AcceptWithoutThread
    BY <1>1, <2>2, AcceptStep
  <2>3. CASE Refuse
    BY <1>1, <2>3, RefuseStep
  <2>4. CASE eq_sw_write_com_to_local
    BY <1>1, <2>4, UpdateStep
  <2>5. CASE \E w \in Workers : WorkerStep(w) \/ WakeSpuriously(w)
    BY <1>1, <2>5, WorkerKeeps
  <2> QED BY <1>1, <2>1, <2>2, <2>3, <2>4, <2>5 DEF DaemonNext, ServerStep
<1>2. CASE PluginNext /\ UNCHANGED daemonVars
  <2>1. CASE awequal_hw_params \/ eq_create \/ awequal_hw_free \/ JoinTrying \/ JoinTuning \/ Exit
    BY <1>2, <2>1, PlayerStep
  <2>2. CASE try_connecting_thread
    BY <1>2, <2>2, TryStep
  <2>3. CASE tuning_thread
    BY <1>2, <2>3, TuneStep
  <2>4. CASE WakeForNothing
    BY <1>2, <2>4, NothingStep
  <2> QED BY <1>2, <2>1, <2>2, <2>3, <2>4 DEF PluginNext
<1>3. CASE UNCHANGED vars
  <2>1. UNCHANGED <<sock, listening, tuning_fd, daemonVars>> /\ PluginType' /\ Polls'
    BY <1>3 DEF vars, pluginVars, equaliser, TuneInv, TypeOK, PluginType, Polls
  <2> QED BY <2>1, PlayerAlone
<1> QED BY <1>1, <1>2, <1>3 DEF Next

\* The types hold: a player only ever gets a slot of the daemon's table and
\* a thread of its own, and the equaliser only runs with what the tool sent.
THEOREM TuningTypes == Spec => []TypeOK
<1>1. TuneInv => TypeOK
  BY DEF TuneInv
<1> QED BY <1>1, InitTune, NextTune, PTL DEF Spec

\* A player has at most one connection, the one in tuning_fd: the two
\* threads of the plugin neither leak one nor open a second.
THEOREM OneConnectionAlways == Spec => []OneConnection
<1>1. TuneInv => OneConnection
  BY DEF TuneInv
<1> QED BY <1>1, InitTune, NextTune, PTL DEF Spec

\* A thread of the daemon has its slot for itself and writes to, and closes,
\* the connection it was started for.
THEOREM OwnConnectionAlways == Spec => []OwnConnection
<1>1. TuneInv => OwnConnection
  BY DEF TuneInv, OwnConnection, Slotted, Attached
<1> QED BY <1>1, InitTune, NextTune, PTL DEF Spec
=============================================================================
