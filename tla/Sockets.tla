------------------------------ MODULE Sockets -------------------------------
(***************************************************************************)
(* What the core's connections and relays get from the port: each has at   *)
(* most one socket, opened on its own behalf or as the answer to a lookup  *)
(* it asked for, under the lowest number that nobody uses.  A socket is    *)
(* kept until it is closed, and its number is in use just that long.       *)
(***************************************************************************)
EXTENDS Integers

CONSTANTS Users, NumFds

VARIABLES
  sock,    \* the number of each user's socket, NoFd without one
  asked    \* who has a name looked up

vars == <<sock, asked>>

Fds == 1 .. NumFds
NoFd == -1
InUse == {sock[u] : u \in Users} \ {NoFd}

Init ==
  /\ sock = [u \in Users |-> NoFd]
  /\ asked = {}

Ask(u) ==
  /\ u \notin asked /\ sock[u] = NoFd
  /\ asked' = asked \cup {u}
  /\ UNCHANGED sock

\* The lookup fails, or there is no socket for its answer.
Fail(u) ==
  /\ u \in asked
  /\ asked' = asked \ {u}
  /\ UNCHANGED sock

Open(u) ==
  /\ sock[u] = NoFd
  /\ \E fd \in Fds \ InUse :
       /\ \A g \in Fds \ InUse : fd <= g
       /\ sock' = [sock EXCEPT ![u] = fd]
  /\ asked' = asked \ {u}

Close(u) ==
  /\ sock[u] # NoFd
  /\ sock' = [sock EXCEPT ![u] = NoFd]
  /\ UNCHANGED asked

Next == \E u \in Users : Ask(u) \/ Fail(u) \/ Open(u) \/ Close(u)
Spec == Init /\ [][Next]_vars
=============================================================================
