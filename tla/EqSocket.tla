------------------------------ MODULE EqSocket ------------------------------
(***************************************************************************)
(* The connections over /tmp/aactd.eq_sw.sock between the audio tuning      *)
(* daemon aactd and an equaliser in a player: what the kernel does with the *)
(* calls of eq_sw.c on one side and of pcm_awequal.c on the other.  A frame *)
(* is the number of the update whose parameters it carries.                 *)
(***************************************************************************)
EXTENDS Naturals, Sequences, FiniteSets

\* The connections that can exist at one time, a set of numbers from 1 on.
CONSTANT Conns

ASSUME ConnsAssumption == Conns \subseteq Nat \ {0} /\ IsFiniteSet(Conns)

VARIABLES
  sock,       \* both ends of each connection, what the client has not read,
              \* and whether epoll has something new to say of it
  listening   \* the daemon listens on the path

Closed == [cl |-> "closed", srv |-> "closed", q |-> <<>>, news |-> FALSE]

SocketInit == sock = [c \in Conns |-> Closed] /\ listening = FALSE

\* The least element of a set of numbers.
Least(S) == CHOOSE x \in S : \A y \in S : x <= y

Unused  == {c \in Conns : sock[c].cl = "closed" /\ sock[c].srv = "closed"}
Pending == {c \in Conns : sock[c].srv = "pending"}

\* connect succeeds as soon as the connection is in the backlog.
CanConnect == listening /\ Unused # {}
NewConn    == Least(Unused)

Connected(c) == [sock EXCEPT ![c] = [cl |-> "open", srv |-> "pending", q |-> <<>>, news |-> FALSE]]

\* A write arrives unless the client has closed or shut down its end.
CanSend(c) == sock[c].cl = "open"

Sent(c, v) == [sock EXCEPT ![c].q = Append(@, v), ![c].news = TRUE]

\* The daemon closes its ends of the connections C.
ServerCloses(C) ==
  [c \in Conns |-> IF c \notin C THEN sock[c]
                   ELSE IF sock[c].cl = "closed" THEN Closed
                   ELSE [sock[c] EXCEPT !.srv = "closed", !.news = TRUE]]

\* The player closes its ends; what it has not read is lost.
ClientCloses(C) ==
  [c \in Conns |-> IF c \notin C THEN sock[c]
                   ELSE [Closed EXCEPT !.srv = sock[c].srv]]

\* shutdown(fd, SHUT_RDWR) by the player.
ShutDown(c) == [sock EXCEPT ![c].cl = "shut", ![c].news = TRUE]

\* What epoll reports as EPOLLRDHUP.
Hup(c) == sock[c].srv = "closed" \/ sock[c].cl = "shut"
=============================================================================
