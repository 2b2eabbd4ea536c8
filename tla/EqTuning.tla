------------------------------ MODULE EqTuning ------------------------------
(***************************************************************************)
(* The daemon aactd and a player with the equaliser plugin, over their      *)
(* socket.                                                                  *)
(***************************************************************************)
EXTENDS Aactd, AwEqual

vars == <<sock, listening, daemonVars, pluginVars>>

Init == SocketInit /\ DaemonInit /\ PluginInit

Next ==
  \/ DaemonNext /\ UNCHANGED pluginVars
  \/ PluginNext /\ UNCHANGED daemonVars

Spec == Init /\ [][Next]_vars

\* Threads run; sleep(1) and epoll_wait end; the kernel's accept returns.
\* Nothing is assumed of the tool, the player, spurious wake-ups and deaths.
Fairness ==
  /\ WF_vars(ServerStep /\ UNCHANGED pluginVars)
  /\ \A w \in Workers : WF_vars(WorkerStep(w) /\ UNCHANGED pluginVars)
  /\ WF_vars(try_connecting_thread /\ UNCHANGED daemonVars)
  /\ WF_vars(tuning_thread /\ UNCHANGED daemonVars)
  /\ WF_vars((eq_create \/ JoinTrying \/ JoinTuning) /\ UNCHANGED daemonVars)

FairSpec == Spec /\ Fairness

-----------------------------------------------------------------------------
SocketType ==
  /\ sock \in [Conns -> [cl : {"open", "shut", "closed"}, srv : {"pending", "open", "closed"},
                         q : Seq(0..MaxUpdates), news : BOOLEAN]]
  /\ listening \in BOOLEAN

DaemonType ==
  /\ local \in 0..MaxUpdates /\ updates \in 0..MaxUpdates /\ faults \in 0..MaxFaults
  /\ connects \in [Slots -> [fd : Conns \cup {0}, is_used : BOOLEAN]]
  /\ worker \in [Workers -> [st : {"none", "hello", "lock", "asleep", "woken", "close", "free"},
                             slot : Slots \cup {0}, owed : BOOLEAN]]

PluginType ==
  /\ app \in {"closed", "create", "open", "join1", "join2", "freed"}
  /\ trying \in {"none", "test", "lock", "wait", "woken", "sleep", "end"}
  /\ tuning \in {"none", "test", "lock", "wait", "woken", "poll", "event", "rebuild", "end"}
  /\ event \in {"none", "in", "hup"}
  /\ tuning_fd \in Conns \cup {0}
  /\ should_stop \in BOOLEAN
  /\ eq \in 0..MaxUpdates /\ lost \in 0..MaxUpdates

\* The types; in particular a player only ever gets a slot of the table, and
\* the equaliser only what the tool has sent.
TypeOK == SocketType /\ DaemonType /\ PluginType

Serving == {w \in Workers : worker[w].st \in {"hello", "lock", "asleep", "woken", "close"}}

\* A thread of the daemon has its slot for itself and the connection in it
\* is the one it was started for, still open: the slot is given back only
\* after close(connect->fd), or the close would hit the next player's.
OwnConnection ==
  /\ \A w \in Serving : sock[FdOf(w)].srv = "open"
  /\ \A w, x \in Alive : worker[w].slot = worker[x].slot => w = x

\* While a player is open it has at most one connection, the one in
\* tuning_fd, whatever wakes its threads; after hw_free none is left but
\* one tuning_thread did not come to close.
OneConnection ==
  \A c \in Conns : sock[c].cl # "closed" => c = tuning_fd

\* Its slot has no thread: pthread_create failed.
NotServed == \E s \in Slots : /\ connects[s].is_used /\ connects[s].fd = tuning_fd
                             /\ \A w \in Alive : worker[w].slot # s

ServedBy(w) == w \in Serving /\ tuning_fd # 0 /\ FdOf(w) = tuning_fd

\* A player whose threads run is served by the daemon in the end, also after
\* the daemon was started late, died or closed the connection, unless the
\* daemon dies again, has no free slot, or could not start a thread.
Reconnects ==
  (app = "open" /\ ~should_stop /\ listening)
    ~> \/ \E w \in Workers : ServedBy(w)
       \/ app # "open" \/ should_stop \/ ~listening
       \/ FreeSlots = {} \/ NotServed

\* An update that finds the daemon's thread for the player asleep, and the player with
\* its equaliser made and nothing to read, is what the equaliser runs with in the end,
\* however many other players sleep on the same condition, unless the connection is
\* given up or the plugin has found the update unusable.
UpdatesArrive ==
  \A w \in Workers, v \in 1..MaxUpdates :
    (/\ worker[w].owed /\ ServedBy(w) /\ local = v /\ lost < v
     /\ app = "open" /\ tuning = "poll" /\ sock[tuning_fd].q = <<>>)
      ~> (eq >= v \/ lost >= v \/ ~listening \/ app # "open" \/ tuning_fd = 0)

\* hw_free returns: both threads end once it has signalled and shut down.
StopReturns == app \in {"join1", "join2"} ~> app \notin {"join1", "join2"}
=============================================================================
