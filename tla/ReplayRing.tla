----------------------------- MODULE ReplayRing -----------------------------
(***************************************************************************)
(* The circular buffer of hub.ts (class ReplayRing): a fixed array, the    *)
(* slot of the oldest envelope and the number of slots in use.  It         *)
(* implements BoundedReplay, the window the hub is modelled with.          *)
(* Sequences increase from one append to the next; a commit that failed    *)
(* half-way has skipped one.                                               *)
(***************************************************************************)
EXTENDS Naturals, Sequences

CONSTANTS Capacity,    \* Math.max(1, limit)
          MaxSeq,      \* bound: the highest sequence of a run
          Empty        \* a slot never written (undefined)

ASSUME RingAssumption == Capacity \in Nat \ {0} /\ MaxSeq \in Nat

VARIABLES items,   \* #items, by slot
          head,    \* #head
          size,    \* #size
          log      \* history: everything appended

vars == <<items, head, size, log>>

Envelope == [seq : 1..MaxSeq]
Slots    == 0..(Capacity - 1)

TypeOK ==
  /\ items \in [Slots -> Envelope \cup {Empty}]
  /\ head \in Slots /\ size \in 0..Capacity
  /\ log \in Seq(Envelope)

Init ==
  /\ items = [s \in Slots |-> Empty]
  /\ head = 0 /\ size = 0 /\ log = << >>

\* The slot of the envelope at this distance from the oldest.
Slot(offset) == (head + offset) % Capacity

\* Mutant: a full ring forgets to move on to the next oldest envelope.
StoreKeepsHead(e) ==
  /\ items' = [items EXCEPT ![Slot(size)] = e]
  /\ size' = IF size = Capacity THEN size ELSE size + 1
  /\ UNCHANGED head

\* append: write behind the newest; when every slot is in use, the oldest gives way.
Store(e) ==
  /\ items' = [items EXCEPT ![Slot(size)] = e]
  /\ \/ size = Capacity /\ head' = (head + 1) % Capacity /\ UNCHANGED size
     \/ size # Capacity /\ size' = size + 1 /\ UNCHANGED head

Latest == IF log = << >> THEN 0 ELSE log[Len(log)].seq

\* Bound: at most one sequence is skipped between two appends.
Commit(e) ==
  /\ e.seq \in {Latest + 1, Latest + 2}
  /\ Store(e)
  /\ log' = Append(log, e)

Next == \E e \in Envelope : Commit(e)
Spec == Init /\ [][Next]_vars

\* The loop of since: the envelopes after seq.
Since(seq) ==
  {items[Slot(o)] : o \in {p \in 0..(size - 1) : items[Slot(p)].seq > seq}}

\* Mutant: the oldest envelope itself must already have been seen.
CoversStrict(seq) == size > 0 /\ items[head].seq <= seq

\* Mutant: an off-by-one in the test for a ring that reaches back far enough.
CoversLoose(seq) == size > 0 /\ items[head].seq <= seq + 2

\* covers: the oldest envelope is not after the first one missed.
Covers(seq) == size > 0 /\ items[head].seq <= seq + 1

-----------------------------------------------------------------------------
\* The array read from head on, around its end.
Window == [i \in 1..size |-> items[Slot(i - 1)]]

Replay == INSTANCE BoundedReplay WITH window <- Window, Envelopes <- Envelope

\* The ring is the window of the hub's model: whatever the position of head, an append
\* adds the newest envelope and drops the oldest one of a full ring, and nothing else.
ImplementsWindow == Replay!Spec

\* When covers says so, since returns everything appended after seq: a replay of it
\* leaves no gap, also after the ring has wrapped and across skipped sequences.
CoversIsSound ==
  \A seq \in 0..MaxSeq : Covers(seq) =>
    Since(seq) = {log[i] : i \in {j \in DOMAIN log : log[j].seq > seq}}

\* And covers does not give up early: when no sequence was skipped and something was
\* missed, it is false only if an envelope the client needs has been dropped.
CoversIsTight ==
  (\A i \in DOMAIN log : log[i].seq = i) =>
    \A seq \in 0..MaxSeq :
      ~Covers(seq) /\ seq < Latest =>
        \E j \in DOMAIN log : log[j].seq > seq /\ log[j] \notin Since(0)
=============================================================================
