-------------------------------- MODULE Wire --------------------------------
(***************************************************************************)
(* The sockets between one client and the hub: two queues of frames each.  *)
(* Frames arrive in order, and once.  Each side may learn at any moment    *)
(* that a socket has ended, the other side learns it later or never, and   *)
(* what was still under way is lost.                                       *)
(***************************************************************************)
EXTENDS Naturals, Sequences

CONSTANTS
  Uris,         \* channel URIs that match a route of the client
  Stateless,    \* ... of channels without state
  MaxSockets    \* bound: sockets the client may open, one after the other

VARIABLES
  up, down,     \* frames to the hub, frames to the client
  reader,       \* the socket the client reads (0: none)
  detached      \* the sockets the hub no longer answers

Sockets == 1..MaxSockets
Stateful == Uris \ Stateless

WireInit ==
  /\ up = [s \in Sockets |-> << >>] /\ down = [s \in Sockets |-> << >>]
  /\ reader = 1 /\ detached = {}

\* A queue after one more frame, if there is still somebody at the other end.
SentUp(queues, s, frame) ==
  IF s \in detached THEN queues ELSE [queues EXCEPT ![s] = Append(@, frame)]

SentDown(queues, s, frame) ==
  IF s \in detached \/ s # reader THEN queues ELSE [queues EXCEPT ![s] = Append(@, frame)]
=============================================================================
