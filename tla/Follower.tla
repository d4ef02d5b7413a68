------------------------------ MODULE Follower ------------------------------
(***************************************************************************)
(* What a client promises of its confirmed states.  Each channel it knows  *)
(* has a position in the hub's log and shows the state as of that          *)
(* position; a position moves forward, in one step or over many envelopes, *)
(* and never back.                                                         *)
(***************************************************************************)
EXTENDS Mirror

VARIABLES
  log,        \* what the hub has committed
  position,   \* the sequence a known channel has reached
  shown       \* its confirmed state

vars == <<log, position, shown>>

Init == log = << >> /\ position = << >> /\ shown = << >>

Commit ==
  /\ Len(log') = Len(log) + 1 /\ IsPrefix(log, log')
  /\ UNCHANGED <<position, shown>>

\* Channels appear, disappear and move on.
Move ==
  /\ DOMAIN shown' = DOMAIN position'
  /\ \A u \in DOMAIN position' :
       /\ position'[u] <= Len(log)
       /\ shown'[u] = StateAt(log, u, position'[u])
       /\ u \in DOMAIN position => position[u] <= position'[u]
  /\ UNCHANGED log

Next == Commit \/ Move

Spec == Init /\ [][Next]_vars
=============================================================================
