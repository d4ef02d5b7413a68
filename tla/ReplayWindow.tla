---------------------------- MODULE ReplayWindow ----------------------------
(***************************************************************************)
(* What the hub's replay ring promises: a window over the most recent      *)
(* committed envelopes, oldest first, never longer than Capacity.  The hub *)
(* model uses these operators; ReplayRing shows that the circular buffer   *)
(* of hub.ts implements them.  An envelope is any record with a field seq. *)
(***************************************************************************)
EXTENDS Naturals, Sequences

CONSTANT Capacity   \* slots of the ring: Math.max(1, replayLimit), at least one

\* The window after one more commit: the oldest envelope makes room when it is full.
Push(window, envelope) ==
  IF Len(window) = Capacity THEN Append(Tail(window), envelope)
                            ELSE Append(window, envelope)

\* Mutant: an off-by-one in the test for a window that reaches back far enough.
CoversOneShort(window, seq) ==
  window # << >> /\ window[1].seq <= seq + 2

\* "The ring still holds every sequence after seq."
Covers(window, seq) ==
  window # << >> /\ window[1].seq <= seq + 1

\* Mutant: the boundary envelope the client already has is sent again.
MissedInclusive(window, seq) ==
  {window[i] : i \in {j \in DOMAIN window : window[j].seq >= seq}}

\* The envelopes of the window a client that saw everything up to seq has not seen.
Missed(window, seq) ==
  {window[i] : i \in {j \in DOMAIN window : window[j].seq > seq}}
=============================================================================
