----------------------------- MODULE CommitLog ------------------------------
(***************************************************************************)
(* What the hub promises, whatever fails: one log of envelopes.  A number  *)
(* is reserved durably before it is used, the numbers of the log increase, *)
(* and a link is told an envelope live only when it is published.          *)
(***************************************************************************)
EXTENDS Naturals, Sequences

CONSTANT Links

VARIABLES stored,   \* the highest number that a restart will know
          log,      \* everything published, in order
          told      \* the envelopes each link received live

vars == <<stored, log, told>>

Init == stored \in Nat /\ log = << >> /\ told = [l \in Links |-> {}]

Reserve ==
  /\ stored' \in Nat /\ stored' > stored
  /\ UNCHANGED <<log, told>>

Publish(e) ==
  /\ e.seq <= stored
  /\ \A i \in DOMAIN log : log[i].seq < e.seq
  /\ log' = Append(log, e)
  /\ \E reached \in SUBSET Links :
       told' = [l \in Links |-> IF l \in reached THEN told[l] \cup {e} ELSE told[l]]
  /\ UNCHANGED stored

\* One envelope at a time, and only the last one is new.
Commit == Len(log') = Len(log) + 1 /\ Publish(log'[Len(log')])

Next == Reserve \/ Commit

Spec == Init /\ [][Next]_vars
=============================================================================
