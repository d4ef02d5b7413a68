---------------------------- MODULE EventWindows ----------------------------
(***************************************************************************)
(* What an event stream of the client promises its readers: each has a     *)
(* window of its own over what was published since it was opened, never    *)
(* longer than Capacity.  It takes the values in order; when it lags, its  *)
(* window gives way at the old end, and no other reader notices.           *)
(***************************************************************************)
EXTENDS ReplayWindow

CONSTANTS Readers,    \* iterators that may be opened
          Values      \* what can be published

VARIABLES iterator,   \* "unused", "open" or "detached", by reader
          window,     \* what a reader has still to take
          parked,     \* readers whose next() waits
          got,        \* what next() has handed out
          shut        \* the stream has been closed

vars == <<iterator, window, parked, got, shut>>

Opened == {r \in Readers : iterator[r] = "open"}

Init ==
  /\ iterator = [r \in Readers |-> "unused"]
  /\ window = [r \in Readers |-> << >>]
  /\ got = [r \in Readers |-> << >>]
  /\ parked = {} /\ shut = FALSE

Publish(v) ==
  /\ ~shut
  /\ got' = [r \in Readers |-> IF r \in parked THEN Append(got[r], v) ELSE got[r]]
  /\ window' = [r \in Readers |-> IF r \in Opened \ parked THEN Push(window[r], v)
                                  ELSE window[r]]
  /\ parked' = {}
  /\ UNCHANGED <<iterator, shut>>

Open(r) ==
  /\ iterator[r] = "unused"
  /\ iterator' = [iterator EXCEPT ![r] = IF shut THEN "detached" ELSE "open"]
  /\ UNCHANGED <<window, parked, got, shut>>

Take(r) ==
  /\ r \in Opened \ parked /\ window[r] # << >>
  /\ got' = [got EXCEPT ![r] = Append(@, Head(window[r]))]
  /\ window' = [window EXCEPT ![r] = Tail(@)]
  /\ UNCHANGED <<iterator, parked, shut>>

Wait(r) ==
  /\ r \in Opened \ parked /\ window[r] = << >> /\ ~shut
  /\ parked' = parked \cup {r}
  /\ UNCHANGED <<iterator, window, got, shut>>

Detach(r) ==
  /\ r \in Opened
  /\ iterator' = [iterator EXCEPT ![r] = "detached"]
  /\ window' = [window EXCEPT ![r] = << >>]
  /\ parked' = parked \ {r}
  /\ UNCHANGED <<got, shut>>

\* Nobody is left waiting; what was published before can still be taken.
Close ==
  /\ shut' = TRUE /\ parked' = {}
  /\ UNCHANGED <<iterator, window, got>>

Next ==
  \/ \E v \in Values : Publish(v)
  \/ \E r \in Readers : Open(r) \/ Take(r) \/ Wait(r) \/ Detach(r)
  \/ Close

Spec == Init /\ [][Next]_vars
=============================================================================
