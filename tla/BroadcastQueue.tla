--------------------------- MODULE BroadcastQueue ---------------------------
(***************************************************************************)
(* BroadcastQueue of client.ts: the events, the state changes and each     *)
(* mirror's stream of the client.  One buffer is shared by all readers;    *)
(* each has a position in it, counted from the first value ever published. *)
(* What every reader has passed is trimmed, and what goes beyond Limit is  *)
(* dropped under the slow ones.  It implements EventWindows, where each    *)
(* reader has a buffer of its own.                                         *)
(*                                                                         *)
(* A reader asks again once it was answered, as a for await does.          *)
(***************************************************************************)
EXTENDS Naturals, Sequences

CONSTANTS Readers,   \* iterators that reader() may return
          Limit      \* Math.max(1, Math.floor(limit))

ASSUME QueueAssumption == Limit \in Nat \ {0}

VARIABLES
  buffer, base,   \* #buffer, #base
  shut,           \* #closed
  iterator,       \* "unused", "open" (its cursor is in #cursors) or "detached"
  position,       \* cursor.position
  parked,         \* readers whose cursor has a waiter
  got             \* history: the values next() resolved with

queueVars == <<buffer, base, shut, iterator, position, parked, got>>

QueueInit ==
  /\ buffer = << >> /\ base = 0 /\ shut = FALSE
  /\ iterator = [r \in Readers |-> "unused"]
  /\ position = [r \in Readers |-> 0]
  /\ parked = {}
  /\ got = [r \in Readers |-> << >>]

Cursors == {r \in Readers : iterator[r] = "open"}

Lowest(S) == CHOOSE n \in S : \A m \in S : n <= m

\* Mutant: only the high-water mark ever shortens the buffer.
TrimNothing(values, from, open, at) == buffer' = values /\ base' = from

\* #trim: what no reader has still to take is dropped; without readers, everything.
Trim(values, from, open, at) ==
  LET drop == IF open = {} THEN Len(values) ELSE Lowest({at[r] : r \in open}) - from
  IN /\ buffer' = SubSeq(values, drop + 1, Len(values))
     /\ base' = from + drop

\* The value at a reader's position.
ValueAt(values, from, place) == values[place - from + 1]

\* A parked reader is answered with the value; positions that fell out of a full buffer
\* move on to its oldest value.
Publish(v) ==
  LET grown   == Append(buffer, v)
      dropped == IF Len(grown) > Limit THEN Len(grown) - Limit ELSE 0
      from    == base + dropped
      kept    == SubSeq(grown, dropped + 1, Len(grown))
      caught  == [r \in Readers |-> IF r \in Cursors /\ position[r] < from THEN from
                                    ELSE position[r]]
      served  == {r \in parked : caught[r] < from + Len(kept)}
      at      == [r \in Readers |-> IF r \in served THEN caught[r] + 1 ELSE caught[r]]
  IN
  /\ ~shut
  /\ got' = [r \in Readers |-> IF r \in served
                               THEN Append(got[r], ValueAt(kept, from, caught[r])) ELSE got[r]]
  /\ parked' = parked \ served
  /\ position' = at
  /\ Trim(kept, from, Cursors, at)
  /\ UNCHANGED <<shut, iterator>>

\* close: whoever waits at the end is let go; the others may still take what is there.
CloseQueue ==
  /\ ~shut /\ shut' = TRUE
  /\ parked' = {r \in parked : position[r] < base + Len(buffer)}
  /\ UNCHANGED <<buffer, base, iterator, position, got>>

\* Mutant: a new reader starts with whatever the others have not taken yet.
OpenAtOldest(r) ==
  /\ iterator[r] = "unused"
  /\ iterator' = [iterator EXCEPT ![r] = IF shut THEN "detached" ELSE "open"]
  /\ position' = [position EXCEPT ![r] = base]
  /\ UNCHANGED <<buffer, base, shut, parked, got>>

\* reader(): behind everything published so far; a closed queue gives a finished reader.
Open(r) ==
  /\ iterator[r] = "unused"
  /\ iterator' = [iterator EXCEPT ![r] = IF shut THEN "detached" ELSE "open"]
  /\ position' = [position EXCEPT ![r] = base + Len(buffer)]
  /\ UNCHANGED <<buffer, base, shut, parked, got>>

Available(r) == position[r] - base < Len(buffer)

\* next() with a value at hand.
Take(r) ==
  /\ r \in Cursors \ parked /\ Available(r)
  /\ got' = [got EXCEPT ![r] = Append(@, ValueAt(buffer, base, position[r]))]
  /\ position' = [position EXCEPT ![r] = @ + 1]
  /\ Trim(buffer, base, Cursors, position')
  /\ UNCHANGED <<shut, iterator, parked>>

\* next() at the end of a queue that is open.
Park(r) ==
  /\ r \in Cursors \ parked /\ ~Available(r) /\ ~shut
  /\ parked' = parked \cup {r}
  /\ UNCHANGED <<buffer, base, shut, iterator, position, got>>

\* return(): the cursor goes, and a next() that waits is let go.
Return(r) ==
  /\ r \in Cursors
  /\ iterator' = [iterator EXCEPT ![r] = "detached"]
  /\ parked' = parked \ {r}
  /\ Trim(buffer, base, Cursors \ {r}, position)
  /\ UNCHANGED <<shut, position, got>>

ReaderStep(r) == Open(r) \/ Take(r) \/ Park(r) \/ Return(r)

-----------------------------------------------------------------------------
\* What a reader has still to take.
Unread(r) ==
  IF r \in Cursors THEN SubSeq(buffer, position[r] - base + 1, Len(buffer)) ELSE << >>

\* The buffer holds what the slowest reader has still to take, and nothing when there is
\* no reader; it never outgrows the limit.
BufferIsNeeded ==
  /\ Len(buffer) <= Limit
  /\ buffer # << >> => \E r \in Cursors : Unread(r) = buffer
=============================================================================
