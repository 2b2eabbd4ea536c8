------------------------------- MODULE AwEqual -------------------------------
(***************************************************************************)
(* The equaliser plugin of a player (pcm_awequal.c): one thread that keeps  *)
(* a connection to aactd, one that reads parameters from it, and the        *)
(* player's thread, which starts both in hw_params and ends them in         *)
(* hw_free.  What happens between lock and unlock of mutex_tuning_fd is one *)
(* step; should_stop is also read without it.  One object per player:       *)
(* awequal_close, after which a player could open the next, is left out.    *)
(***************************************************************************)
EXTENDS EqSocket

VARIABLES
  app,           \* the player: closed, in eq_create of hw_params, open, in the two
                 \* joins of hw_free, freed
  trying,        \* where try_connecting_thread is
  tuning,        \* where tuning_thread is
  event,         \* what epoll_wait has returned to it
  tuning_fd,     \* the connection, 0 for -1
  should_stop,
  eq,            \* the update whose parameters the equaliser runs with, or eq_create
                 \* will read or has read; 0 for the config file or no equaliser
  lost           \* history: the last update read from this connection, when not used

equaliser  == <<eq, lost>>
pluginVars == <<app, trying, tuning, event, tuning_fd, should_stop, equaliser>>

PluginInit ==
  /\ app = "closed" /\ trying = "none" /\ tuning = "none" /\ event = "none"
  /\ tuning_fd = 0 /\ should_stop = FALSE
  /\ eq = 0 /\ lost = 0

\* pthread_cond_signal: at is where the only thread that may wait is.
Signalled(at) == IF at = "wait" THEN "woken" ELSE at

\* Parameters from the file, and the two threads, before there is an equaliser.
\* should_stop is not reset: after hw_free of the same object they end at once.
awequal_hw_params ==
  /\ app \in {"closed", "freed"}
  /\ app' = "create" /\ trying' = "test" /\ tuning' = "test"
  /\ eq' = 0
  /\ UNCHANGED <<sock, listening, event, tuning_fd, should_stop, lost>>

\* eq_create reads the parameters, and its handle is stored, without mutex_eq.
eq_create ==
  /\ app = "create" /\ app' = "open"
  /\ UNCHANGED <<sock, listening, trying, tuning, event, tuning_fd, should_stop, equaliser>>

\* hw_free up to the joins.
awequal_hw_free ==
  /\ app = "open"
  /\ IF tuning_fd # 0
     THEN /\ trying' = Signalled(trying) /\ UNCHANGED tuning
          /\ sock' = ShutDown(tuning_fd)
     ELSE /\ tuning' = Signalled(tuning) /\ UNCHANGED <<trying, sock>>
  /\ should_stop' = TRUE
  /\ app' = "join1"
  /\ UNCHANGED <<listening, event, tuning_fd, equaliser>>

JoinTrying ==
  /\ app = "join1" /\ trying = "end"
  /\ app' = "join2" /\ trying' = "none"
  /\ UNCHANGED <<sock, listening, tuning, event, tuning_fd, should_stop, equaliser>>

JoinTuning ==
  /\ app = "join2" /\ tuning = "end"
  /\ app' = "freed" /\ tuning' = "none"
  /\ eq' = 0
  /\ UNCHANGED <<sock, listening, trying, event, tuning_fd, should_stop, lost>>

\* The player ends, at any time; the kernel closes what it has open.
Exit ==
  /\ app # "closed"
  /\ sock' = ClientCloses(Conns)
  /\ app' = "closed" /\ trying' = "none" /\ tuning' = "none" /\ event' = "none"
  /\ tuning_fd' = 0 /\ should_stop' = FALSE
  /\ eq' = 0 /\ lost' = 0
  /\ UNCHANGED listening

\* while (!should_stop), without the mutex.
TryTest ==
  /\ trying = "test"
  /\ trying' = IF should_stop THEN "end" ELSE "lock"
  /\ UNCHANGED <<sock, listening, app, tuning, event, tuning_fd, should_stop, equaliser>>

\* connect_to_tuning_server; a failure is tried again after a second.
ConnectsNow ==
  /\ IF CanConnect
     THEN /\ tuning_fd' = NewConn
          /\ sock' = Connected(NewConn)
          /\ tuning' = Signalled(tuning)
          /\ trying' = "test"
     ELSE /\ tuning_fd' = 0
          /\ trying' = "sleep"
          /\ UNCHANGED <<sock, tuning>>
  /\ UNCHANGED <<listening, app, event, should_stop, equaliser>>

\* while (tuning_fd >= 0) pthread_cond_wait.
ConnectOrWait ==
  \/ /\ tuning_fd # 0
     /\ trying' = "wait"
     /\ UNCHANGED <<sock, listening, app, tuning, event, tuning_fd, should_stop, equaliser>>
  \/ tuning_fd = 0 /\ ConnectsNow

TryLock == trying = "lock" /\ ConnectOrWait

\* After pthread_cond_wait the thread goes back to the test of the while.
BackToWhile == ConnectOrWait

TryWoken ==
  /\ trying = "woken"
  /\ \/ /\ should_stop
        /\ trying' = "end"
        /\ UNCHANGED <<sock, listening, app, tuning, event, tuning_fd, should_stop, equaliser>>
     \/ ~should_stop /\ BackToWhile

\* sleep(1) is over.
TryAgain ==
  /\ trying = "sleep"
  /\ trying' = "test"
  /\ UNCHANGED <<sock, listening, app, tuning, event, tuning_fd, should_stop, equaliser>>

try_connecting_thread == TryTest \/ TryLock \/ TryWoken \/ TryAgain

TuneTest ==
  /\ tuning = "test"
  /\ tuning' = IF should_stop THEN "end" ELSE "lock"
  /\ UNCHANGED <<sock, listening, app, trying, event, tuning_fd, should_stop, equaliser>>

\* while (tuning_fd < 0) pthread_cond_wait, then EPOLL_CTL_ADD: what is there
\* already counts as news.
AddOrWait ==
  /\ tuning' = IF tuning_fd = 0 THEN "wait" ELSE "poll"
  /\ UNCHANGED <<sock, listening, app, trying, event, tuning_fd, should_stop, equaliser>>

TuneLock == tuning = "lock" /\ AddOrWait

TuneWoken ==
  /\ tuning = "woken"
  /\ \/ /\ should_stop
        /\ tuning' = "end"
        /\ UNCHANGED <<sock, listening, app, trying, event, tuning_fd, should_stop, equaliser>>
     \/ ~should_stop /\ AddOrWait

\* epoll_wait is edge triggered: it returns once for all that is new.
EpollReturns ==
  /\ tuning = "poll" /\ sock[tuning_fd].news
  /\ sock' = [sock EXCEPT ![tuning_fd].news = FALSE]
  /\ event' = IF Hup(tuning_fd) THEN "hup" ELSE "in"
  /\ tuning' = "event"
  /\ UNCHANGED <<listening, app, trying, tuning_fd, should_stop, equaliser>>

\* eq_create may have read the parameters before, and its handle then takes the place
\* of the one made from this update.
Overtaken == app = "create" /\ UNCHANGED eq

\* The parameters of update v are set, and the equaliser is made from them.
ResetEq(v) == lost' = 0 /\ (eq' = v \/ Overtaken)

\* eq_setpara_reset fails: the handle is gone, and only eq_create could use the parameters.
ResetFails(v) ==
  /\ lost' = v
  /\ eq' = (IF app = "create" THEN v ELSE 0) \/ Overtaken

\* A frame that is read short or does not check, or has too many filters, is not used.
Discard(v) == lost' = v /\ UNCHANGED eq

\* One frame is read; a hang-up, or nothing to read, ends the connection.
Event ==
  /\ tuning = "event"
  /\ event' = "none"
  /\ \/ /\ event = "in" /\ sock[tuning_fd].q # <<>>
        /\ LET v == Head(sock[tuning_fd].q)
           IN  ResetEq(v) \/ ResetFails(v) \/ Discard(v)
        /\ sock' = [sock EXCEPT ![tuning_fd].q = Tail(@)]
        /\ tuning' = "poll"
     \/ /\ event = "hup" \/ sock[tuning_fd].q = <<>>
        /\ tuning' = "rebuild"
        /\ UNCHANGED <<sock, equaliser>>
  /\ UNCHANGED <<listening, app, trying, tuning_fd, should_stop>>

NotTold(at) == at

\* The other thread is told to connect again.
Reconnect(at) == Signalled(at)

Rebuild ==
  /\ tuning = "rebuild"
  /\ sock' = ClientCloses({tuning_fd})
  /\ tuning_fd' = 0
  /\ trying' = Reconnect(trying)
  /\ tuning' = "test"
  /\ lost' = 0
  /\ UNCHANGED <<listening, app, event, should_stop, eq>>

tuning_thread == TuneTest \/ TuneLock \/ TuneWoken \/ EpollReturns \/ Event \/ Rebuild

\* pthread_cond_wait may return without a signal.
WakeForNothing ==
  /\ \/ trying = "wait" /\ trying' = "woken" /\ UNCHANGED tuning
     \/ tuning = "wait" /\ tuning' = "woken" /\ UNCHANGED trying
  /\ UNCHANGED <<sock, listening, app, event, tuning_fd, should_stop, equaliser>>

PluginNext ==
  \/ awequal_hw_params \/ eq_create \/ awequal_hw_free \/ JoinTrying \/ JoinTuning \/ Exit
  \/ try_connecting_thread \/ tuning_thread \/ WakeForNothing
=============================================================================
