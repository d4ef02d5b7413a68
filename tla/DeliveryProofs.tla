--------------------------- MODULE DeliveryProofs ---------------------------
(***************************************************************************)
(* The way of an envelope to a reader, for every size of the ring and of   *)
(* the event queue, any number of readers and of transports: the queue     *)
(* gives each reader a window of its own, both transports are streams, and *)
(* the events of the client are the log.                                   *)
(***************************************************************************)
EXTENDS Delivery, NaturalRecursion, TLAPS

-----------------------------------------------------------------------------
(* The ring: the circular buffer of hub.ts implements the bounded window. *)

\* An index that runs past the end of the array goes on at its beginning.
LEMMA Wrapped ==
  ASSUME NEW h \in 0..(Capacity - 1), NEW o \in 0..Capacity
  PROVE  (h + o) % Capacity = IF h + o < Capacity THEN h + o ELSE h + o - Capacity
<1>1. Capacity \in Nat \ {0}
  BY RingAssumption
<1>2. CASE h + o < Capacity
  BY <1>1, <1>2
<1>3. CASE h + o >= Capacity
  BY <1>1, <1>3
<1> QED BY <1>1, <1>2, <1>3

\* What an append leaves at each distance from the oldest envelope.
LEMMA Stored ==
  ASSUME TypeOK, NEW e \in Envelope, Store(e)
  PROVE  /\ size' = IF size = Capacity THEN size ELSE size + 1
         /\ head' \in Slots /\ items' \in [Slots -> Envelope \cup {Empty}]
         /\ \A o \in 0..(size' - 1) : o = size' - 1 => items'[Slot(o)'] = e
         /\ size # Capacity => \A o \in 0..(size - 1) : items'[Slot(o)'] = items[Slot(o)]
         /\ size = Capacity => \A o \in 0..(size - 2) : items'[Slot(o)'] = items[Slot(o + 1)]
<1>1. /\ Capacity \in Nat \ {0} /\ head \in 0..(Capacity - 1) /\ size \in 0..Capacity
      /\ items \in [Slots -> Envelope \cup {Empty}]
  BY RingAssumption DEF TypeOK, Slots
<1>2. \A o \in 0..Capacity :
        Slot(o) = IF head + o < Capacity THEN head + o ELSE head + o - Capacity
  BY <1>1, Wrapped DEF Slot
<1>3. \A o \in 0..Capacity : Slot(o) \in Slots
  BY <1>1, <1>2 DEF Slots
<1>4. items' = [items EXCEPT ![Slot(size)] = e]
  BY DEF Store
<1>5. \A s \in Slots : items'[s] = IF s = Slot(size) THEN e ELSE items[s]
  BY <1>1, <1>4
<1>6. items' \in [Slots -> Envelope \cup {Empty}]
  BY <1>1, <1>4
<1>7. CASE size # Capacity
  <2>1. size' = size + 1 /\ head' = head
    BY <1>7 DEF Store
  <2>2. \A o : Slot(o)' = Slot(o)
    BY <2>1 DEF Slot
  <2>3. ASSUME NEW o \in 0..(size - 1)
        PROVE  Slot(o) # Slot(size) /\ o \in 0..Capacity
    BY <1>1, <1>2, <1>7
  <2>4. \A o \in 0..(size - 1) : items'[Slot(o)'] = items[Slot(o)]
    BY <1>3, <1>5, <2>2, <2>3
  <2>5. ASSUME NEW o \in 0..(size' - 1), o = size' - 1
        PROVE  items'[Slot(o)'] = e
    <3>1. o = size
      BY <1>1, <2>1, <2>5
    <3>2. Slot(o)' = Slot(size) /\ Slot(size) \in Slots
      BY <1>1, <1>3, <2>2, <3>1
    <3> QED BY <1>5, <3>2
  <2> QED BY <1>1, <1>6, <1>7, <2>1, <2>4, <2>5 DEF Slots
<1>8. CASE size = Capacity
  <2>1. size' = size /\ head' = (head + 1) % Capacity
    BY <1>8 DEF Store
  <2>2. head' = (IF head + 1 < Capacity THEN head + 1 ELSE 0) /\ head' \in 0..(Capacity - 1)
    <3>1. (head + 1) % Capacity = IF head + 1 < Capacity THEN head + 1 ELSE head + 1 - Capacity
      BY <1>1, Wrapped
    <3> QED BY <1>1, <2>1, <3>1
  <2>3. \A o \in 0..Capacity :
          Slot(o)' = IF head' + o < Capacity THEN head' + o ELSE head' + o - Capacity
    BY <1>1, <2>2, Wrapped DEF Slot
  <2>4. Slot(size) = head /\ size \in 0..Capacity
    BY <1>1, <1>2, <1>8
  <2>5. ASSUME NEW o \in 0..(size - 2)
        PROVE  Slot(o)' = Slot(o + 1) /\ Slot(o + 1) # head /\ Slot(o + 1) \in Slots
    BY <1>1, <1>2, <1>3, <1>8, <2>2, <2>3
  <2>6. \A o \in 0..(size - 2) : items'[Slot(o)'] = items[Slot(o + 1)]
    BY <1>5, <2>4, <2>5
  <2>7. ASSUME NEW o \in 0..(size' - 1), o = size' - 1
        PROVE  items'[Slot(o)'] = e
    <3>1. o = Capacity - 1 /\ o \in 0..Capacity
      BY <1>1, <1>8, <2>1, <2>7
    <3>2. Slot(o)' = head
      BY <1>1, <2>2, <2>3, <3>1
    <3> QED BY <1>1, <1>5, <2>4, <3>2 DEF Slots
  <2> QED BY <1>6, <1>8, <2>1, <2>2, <2>6, <2>7 DEF Slots
<1> QED BY <1>7, <1>8

\* The buffer holds the end of the log, as much of it as it has slots.
HoldsTail ==
  /\ size = Len(log) \/ (size = Capacity /\ Len(log) >= Capacity)
  /\ \A o \in 0..(size - 1) : items[Slot(o)] = log[Len(log) - size + o + 1]
  /\ \A i, j \in DOMAIN log : i < j => log[i].seq < log[j].seq

RInv == TypeOK /\ HoldsTail

\* An empty ring satisfies the invariant.
LEMMA RingInit == Init => RInv
<1> SUFFICES ASSUME Init PROVE RInv
  OBVIOUS
<1>1. Capacity \in Nat \ {0} /\ size = 0 /\ log = << >> /\ head = 0
  BY RingAssumption DEF Init
<1>2. TypeOK
  BY <1>1 DEF Init, TypeOK, Slots
<1>3. Len(log) = 0 /\ DOMAIN log = {} /\ 0..(size - 1) = {}
  BY <1>1
<1>4. HoldsTail
  BY <1>1, <1>3 DEF HoldsTail
<1> QED BY <1>2, <1>4 DEF RInv

\* An append preserves the invariant, wherever the head is.
LEMMA CommitHolds ==
  ASSUME RInv, NEW e \in Envelope, Commit(e)
  PROVE  RInv'
<1> DEFINE n == Len(log)
<1>1. /\ Capacity \in Nat \ {0} /\ size \in 0..Capacity
      /\ log \in Seq(Envelope) /\ n \in Nat /\ DOMAIN log = 1..n /\ TypeOK
      /\ \A i \in DOMAIN log : log[i].seq \in Nat
      /\ e.seq \in Nat
  <2>1. log \in Seq(Envelope)
    BY DEF RInv, TypeOK
  <2>2. \A i \in DOMAIN log : log[i] \in Envelope
    BY <2>1
  <2> QED BY <2>1, <2>2, RingAssumption DEF RInv, TypeOK, Envelope
<1>2. log' = Append(log, e) /\ Store(e)
  BY DEF Commit
<1>3. /\ Len(log') = n + 1 /\ DOMAIN log' = 1..(n + 1) /\ log'[n + 1] = e
      /\ \A i \in 1..n : log'[i] = log[i]
      /\ log' \in Seq(Envelope)
  BY <1>1, <1>2
<1>4. size' = (IF size = Capacity THEN size ELSE size + 1) /\ size' \in 0..Capacity
  BY <1>1, <1>2, Stored
<1>5. TypeOK'
  BY <1>1, <1>2, <1>3, <1>4, Stored DEF TypeOK
<1>6. size <= n /\ (size = n \/ size = Capacity)
  <2>1. size = n \/ (size = Capacity /\ n >= Capacity)
    BY DEF RInv, HoldsTail
  <2> HIDE DEF n
  <2> QED BY <1>1, <2>1
<1>7. size' = Len(log') \/ (size' = Capacity /\ Len(log') >= Capacity)
  <2> HIDE DEF n
  <2>1. CASE size = Capacity
    BY <1>1, <1>3, <1>4, <1>6, <2>1
  <2>2. CASE size # Capacity
    BY <1>1, <1>3, <1>4, <1>6, <2>2
  <2> QED BY <2>1, <2>2
<1>8. ASSUME NEW o \in 0..(size' - 1)
      PROVE  items'[Slot(o)'] = log'[Len(log') - size' + o + 1]
  <2>1. CASE o = size' - 1
    <3>1. Len(log') - size' + o + 1 = n + 1
      BY <1>1, <1>3, <1>4, <2>1
    <3>2. items'[Slot(o)'] = e
      BY <1>1, <1>2, <2>1, Stored
    <3> QED BY <1>3, <3>1, <3>2
  <2>2. CASE o # size' - 1 /\ size # Capacity
    <3>1. o \in 0..(size - 1) /\ size' = size + 1
      BY <1>1, <1>4, <2>2
    <3>3. /\ Len(log') - size' + o + 1 = n - size + o + 1
          /\ n - size + o + 1 \in 1..n
      <4>1. /\ n \in Nat /\ size \in 0..Capacity /\ Capacity \in Nat /\ size <= n
            /\ Len(log') = n + 1
        BY <1>1, <1>3, <1>6
      <4> HIDE DEF n
      <4> QED BY <3>1, <4>1
    <3>2. items'[Slot(o)'] = items[Slot(o)]
      BY <1>1, <1>2, <2>2, <3>1, Stored
    <3> QED BY <1>3, <3>1, <3>2, <3>3 DEF RInv, HoldsTail
  <2>3. CASE o # size' - 1 /\ size = Capacity
    <3>1. /\ o \in 0..(size - 2) /\ o + 1 \in 0..(size - 1)
          /\ Len(log') - size' + o + 1 = n - size + (o + 1) + 1
          /\ n - size + (o + 1) + 1 \in 1..n
      <4>1. PICK s, t, l, m : s = size /\ t = size' /\ l = Len(log') /\ m = n
        OBVIOUS
      <4>2. m \in Nat /\ s \in Nat /\ s <= m /\ t = s /\ l = m + 1
        BY <1>1, <1>3, <1>4, <1>6, <2>3, <4>1
      <4>3. o \in 0..(s - 1) /\ o # s - 1
        BY <2>3, <4>1, <4>2
      <4>4. o \in 0..(s - 2) /\ o + 1 \in 0..(s - 1)
        BY <4>2, <4>3
      <4>5. l - t + o + 1 = m - s + (o + 1) + 1 /\ m - s + (o + 1) + 1 \in 1..m
        BY <4>2, <4>3
      <4> HIDE DEF n
      <4> QED BY <4>1, <4>4, <4>5
    <3>2. items'[Slot(o)'] = items[Slot(o + 1)]
      BY <1>1, <1>2, <2>3, <3>1, Stored
    <3> QED BY <1>3, <3>1, <3>2 DEF RInv, HoldsTail
  <2> QED BY <2>1, <2>2, <2>3
<1>9. ASSUME NEW i \in DOMAIN log', NEW j \in DOMAIN log', i < j
      PROVE  log'[i].seq < log'[j].seq
  <2>1. i \in 1..n /\ (j \in 1..n \/ j = n + 1)
    BY <1>1, <1>3, <1>9
  <2>2. CASE j \in 1..n
    BY <1>1, <1>3, <1>9, <2>1, <2>2 DEF RInv, HoldsTail
  <2>3. CASE j = n + 1
    <3>1. n > 0 /\ log[n].seq < e.seq
      BY <1>1, <2>1 DEF Commit, Latest
    <3>2. log[i].seq <= log[n].seq
      <4>1. CASE i = n
        BY <1>1, <3>1, <4>1
      <4>2. CASE i < n
        <5>1. n \in DOMAIN log /\ i \in DOMAIN log
          BY <1>1, <2>1, <3>1
        <5>2. log[i].seq < log[n].seq
          BY <4>2, <5>1 DEF RInv, HoldsTail
        <5> QED BY <1>1, <5>1, <5>2
      <4> QED BY <1>1, <2>1, <4>1, <4>2
    <3> QED BY <1>1, <1>3, <2>1, <2>3, <3>1, <3>2
  <2> QED BY <2>1, <2>2, <2>3
<1> QED BY <1>5, <1>7, <1>8, <1>9 DEF RInv, HoldsTail

\* The invariant is inductive.
LEMMA RingHolds == RInv /\ [Next]_vars => RInv'
<1>1. ASSUME RInv, UNCHANGED vars
      PROVE  RInv'
  BY <1>1 DEF RInv, TypeOK, HoldsTail, vars, Slot
<1> QED BY <1>1, CommitHolds DEF Next

\* The invariant holds for every capacity and after any number of appends (ReplayRing.append).
THEOREM RingInvariance == Spec => []RInv
BY RingInit, RingHolds, PTL DEF Spec

\* The buffer keeps its type: head stays inside the array and size never exceeds it.
THEOREM RingTyped == Spec => []TypeOK
<1>1. RInv => TypeOK
  BY DEF RInv
<1> QED BY <1>1, RingInvariance, PTL

\* What the window shows: the newest envelopes, all of them until it is full.
ShowsTail ==
  /\ Window \in Seq(Envelope) /\ Len(Window) = size /\ size \in Nat
  /\ \A i \in 1..size : /\ Len(log) - size + i \in DOMAIN log
                        /\ Window[i] = log[Len(log) - size + i]

\* The ring read from its head is the end of the log.
LEMMA WindowIsTail == RInv => ShowsTail
<1> SUFFICES ASSUME RInv PROVE ShowsTail
  OBVIOUS
<1> DEFINE n == Len(log)
<1>1. size \in 0..Capacity /\ Capacity \in Nat \ {0} /\ log \in Seq(Envelope)
  BY RingAssumption DEF RInv, TypeOK
<1>2. n \in Nat /\ DOMAIN log = 1..n
  BY <1>1
<1>3. size = n \/ (size = Capacity /\ n >= Capacity)
  BY DEF RInv, HoldsTail
<1>4. ASSUME NEW i \in 1..size
      PROVE  n - size + i \in DOMAIN log /\ items[Slot(i - 1)] = log[n - size + i]
  <2>1. i - 1 \in 0..(size - 1) /\ n - size + (i - 1) + 1 = n - size + i
    <3> HIDE DEF n
    <3> QED BY <1>1, <1>2, <1>3
  <2>2. n - size + i \in DOMAIN log
    <3> HIDE DEF n
    <3> QED BY <1>1, <1>2, <1>3
  <2>3. items[Slot(i - 1)] = log[n - size + (i - 1) + 1]
    BY <2>1 DEF RInv, HoldsTail
  <2> QED BY <2>1, <2>2, <2>3
<1>5. \A i \in 1..size : items[Slot(i - 1)] \in Envelope
  <2>1. \A i \in DOMAIN log : log[i] \in Envelope
    BY <1>1
  <2> HIDE DEF n
  <2> QED BY <1>4, <2>1
<1>6. PICK s \in Nat : s = size
  BY <1>1
<1>7. Window = [i \in 1..s |-> items[Slot(i - 1)]]
  BY <1>6 DEF Window
<1>8. Window \in Seq(Envelope) /\ Len(Window) = s /\ \A i \in 1..s : Window[i] = items[Slot(i - 1)]
  <2>1. PICK w, f : w = Window /\ f = [i \in 1..s |-> items[Slot(i - 1)]]
    OBVIOUS
  <2>2. f \in [1..s -> Envelope] /\ \A i \in 1..s : f[i] = items[Slot(i - 1)]
    BY <1>5, <1>6, <2>1
  <2>3. w \in Seq(Envelope) /\ Len(w) = s
    BY <1>7, <2>1, <2>2
  <2> QED BY <1>7, <2>1, <2>2, <2>3
<1> QED BY <1>4, <1>6, <1>8 DEF ShowsTail

\* An append is one step of the window.
LEMMA CommitIsPush ==
  ASSUME RInv, RInv', NEW e \in Envelope, Commit(e)
  PROVE  Window' = Replay!Push(Window, e)
<1> DEFINE w == Window
           n == Len(log)
<1>1. /\ w \in Seq(Envelope) /\ Len(w) = size /\ size \in Nat
      /\ \A i \in 1..size : n - size + i \in DOMAIN log /\ w[i] = log[n - size + i]
  BY WindowIsTail DEF ShowsTail
<1>2. /\ w' \in Seq(Envelope) /\ Len(w') = size' /\ size' \in Nat
      /\ \A i \in 1..size' : w'[i] = log'[Len(log') - size' + i]
  <2>1. RInv' => ShowsTail'
    BY WindowIsTail, PTL
  <2> QED BY <2>1 DEF ShowsTail
<1>3. /\ size <= Capacity /\ Capacity \in Nat \ {0} /\ log \in Seq(Envelope)
      /\ size' = IF size = Capacity THEN size ELSE size + 1
  <2>1. TypeOK /\ Store(e)
    BY DEF RInv, Commit
  <2>2. size' = IF size = Capacity THEN size ELSE size + 1
    BY <2>1, Stored
  <2> QED BY <2>1, <2>2, RingAssumption DEF TypeOK
<1>4. n \in Nat /\ DOMAIN log = 1..n /\ size <= n
  <2>1. size = n \/ (size = Capacity /\ n >= Capacity)
    BY DEF RInv, HoldsTail
  <2>2. n \in Nat /\ DOMAIN log = 1..n
    BY <1>3
  <2> HIDE DEF n
  <2> QED BY <1>3, <2>1, <2>2
<1>5. /\ Len(log') = n + 1 /\ log'[n + 1] = e
      /\ \A i \in 1..n : log'[i] = log[i]
  BY <1>3, <1>4 DEF Commit
<1> HIDE DEF w, n
<1>6. CASE size # Capacity
  <2>1. w'[size + 1] = e
    <3>1. Len(log') - size' + (size + 1) = n + 1 /\ size + 1 \in 1..size'
      BY <1>1, <1>3, <1>4, <1>5, <1>6
    <3> QED BY <1>2, <1>5, <3>1
  <2>2. ASSUME NEW i \in 1..size
        PROVE  w'[i] = w[i]
    <3>1. Len(log') - size' + i = n - size + i /\ i \in 1..size' /\ n - size + i \in 1..n
      BY <1>1, <1>3, <1>4, <1>5, <1>6
    <3> QED BY <1>1, <1>2, <1>5, <3>1
  <2>3. w' = Append(w, e)
    BY <1>1, <1>2, <1>3, <1>6, <2>1, <2>2
  <2> QED BY <1>1, <1>6, <2>3 DEF Replay!Push, w
<1>7. CASE size = Capacity
  <2>1. w'[size] = e
    <3>1. Len(log') - size' + size = n + 1 /\ size \in 1..size'
      BY <1>1, <1>3, <1>4, <1>5, <1>7
    <3> QED BY <1>2, <1>5, <3>1
  <2>2. ASSUME NEW i \in 1..(size - 1)
        PROVE  w'[i] = w[i + 1]
    <3>1. /\ Len(log') - size' + i = n - size + (i + 1) /\ i \in 1..size'
          /\ n - size + (i + 1) \in 1..n /\ i + 1 \in 1..size
      BY <1>1, <1>3, <1>4, <1>5, <1>7
    <3> QED BY <1>1, <1>2, <1>5, <3>1
  <2>3. /\ Tail(w) \in Seq(Envelope) /\ Len(Tail(w)) = size - 1 /\ size - 1 \in Nat
        /\ \A i \in 1..(size - 1) : Tail(w)[i] = w[i + 1]
    <3>1. w # << >>
      BY <1>1, <1>3, <1>7
    <3> QED BY <1>1, <1>3, <1>7, <3>1
  <2>4. w' = Append(Tail(w), e)
    <3> DEFINE t == Tail(w)
    <3> HIDE DEF t
    <3>1. /\ t \in Seq(Envelope) /\ Len(t) = size - 1
          /\ \A i \in 1..(size - 1) : t[i] = w'[i]
      BY <2>2, <2>3 DEF t
    <3>2. w' = Append(t, e)
      BY <1>1, <1>2, <1>3, <1>7, <2>1, <3>1
    <3> QED BY <3>2 DEF t
  <2> QED BY <1>1, <1>7, <2>4 DEF Replay!Push, w
<1> QED BY <1>6, <1>7

\* The circular buffer implements the window the hub is modelled with.
THEOREM RingRefinement == Spec => ImplementsWindow
<1>1. RInv /\ Init => Replay!Init
  <2> SUFFICES ASSUME RInv, Init PROVE Window = << >>
    BY DEF Replay!Init
  <2> QED BY WindowIsTail DEF Init, ShowsTail
<1>2. RInv /\ RInv' /\ [Next]_vars => [Replay!Commit]_Window
  <2>1. ASSUME RInv, RInv', NEW e \in Envelope, Commit(e)
        PROVE  Replay!Commit
    BY <2>1, CommitIsPush DEF Replay!Commit
  <2>2. UNCHANGED vars => UNCHANGED Window
    BY DEF vars, Window, Slot
  <2> QED BY <2>1, <2>2 DEF Next
<1> QED BY <1>1, <1>2, RingInvariance, PTL DEF Spec, ImplementsWindow, Replay!Spec

\* Whatever was skipped or dropped, covers never promises what since cannot return.
THEOREM CoverageSound == Spec => []CoversIsSound
<1>1. ASSUME RInv, NEW seq \in 0..MaxSeq, Covers(seq)
      PROVE  Since(seq) = {log[i] : i \in {j \in DOMAIN log : log[j].seq > seq}}
  <2> DEFINE n == Len(log)
             at(o) == n - size + o + 1
  <2>1. /\ log \in Seq(Envelope) /\ n \in Nat /\ DOMAIN log = 1..n
        /\ size \in 0..Capacity /\ Capacity \in Nat \ {0} /\ size > 0
        /\ head \in 0..(Capacity - 1) /\ seq \in Nat
    BY <1>1, RingAssumption DEF RInv, TypeOK, Covers, Slots
  <2>2. \A i \in DOMAIN log : log[i].seq \in Nat
    <3>1. \A i \in DOMAIN log : log[i] \in Envelope
      BY <2>1
    <3> QED BY <3>1 DEF Envelope
  <2>3. size <= n
    <3>1. size = n \/ (size = Capacity /\ n >= Capacity)
      BY <1>1 DEF RInv, HoldsTail
    <3> HIDE DEF n
    <3> QED BY <2>1, <3>1
  <2>4. \A o \in 0..(size - 1) : items[Slot(o)] = log[at(o)] /\ at(o) \in DOMAIN log
    <3>1. \A o \in 0..(size - 1) : items[Slot(o)] = log[at(o)]
      BY <1>1 DEF RInv, HoldsTail
    <3>2. \A o \in 0..(size - 1) : at(o) \in 1..n
      <4> HIDE DEF n
      <4> QED BY <2>1, <2>3
    <3> QED BY <2>1, <3>1, <3>2
  <2>5. log[n - size + 1].seq <= seq + 1 /\ n - size + 1 \in DOMAIN log
    <3>1. Slot(0) = head /\ 0 \in 0..(size - 1)
      <4>1. (head + 0) % Capacity = IF head + 0 < Capacity THEN head + 0 ELSE head + 0 - Capacity
        <5>1. 0 \in 0..Capacity /\ head \in 0..(Capacity - 1)
          BY <2>1
        <5> QED BY <5>1, Wrapped
      <4> QED BY <2>1, <4>1 DEF Slot
    <3>2. at(0) = n - size + 1
      <4> HIDE DEF n
      <4> QED BY <2>1, <2>3
    <3> QED BY <1>1, <2>4, <3>1, <3>2 DEF Covers
  <2>6. ASSUME NEW j \in DOMAIN log, log[j].seq > seq
        PROVE  j >= n - size + 1
    <3>1. SUFFICES ASSUME j < n - size + 1 PROVE FALSE
      <4> HIDE DEF n
      <4> QED BY <2>1, <2>3
    <3>2. log[j].seq < log[n - size + 1].seq
      BY <1>1, <2>5, <3>1 DEF RInv, HoldsTail
    <3> QED BY <2>1, <2>2, <2>5, <2>6, <3>2
  <2>7. ASSUME NEW j \in DOMAIN log, log[j].seq > seq
        PROVE  \E o \in 0..(size - 1) : at(o) = j
    <3>1. j >= n - size + 1 /\ j \in 1..n
      BY <2>1, <2>6, <2>7
    <3>2. j - (n - size) - 1 \in 0..(size - 1) /\ at(j - (n - size) - 1) = j
      <4> HIDE DEF n
      <4> QED BY <2>1, <2>3, <3>1
    <3> QED BY <3>2
  <2> HIDE DEF at, n
  <2>8. ASSUME NEW e
        PROVE  e \in Since(seq) <=> \E j \in DOMAIN log : log[j].seq > seq /\ e = log[j]
    <3>1. e \in Since(seq) <=> \E o \in 0..(size - 1) : items[Slot(o)].seq > seq /\ e = items[Slot(o)]
      BY DEF Since
    <3> QED BY <2>4, <2>7, <3>1
  <2> QED BY <2>8
<1>2. RInv => CoversIsSound
  BY <1>1 DEF CoversIsSound
<1> QED BY <1>2, RingInvariance, PTL

\* And covers is not needlessly cautious: without a skipped sequence it refuses only when
\* the ring has dropped an envelope that the client lacks.
THEOREM CoverageTight == Spec => []CoversIsTight
<1>1. ASSUME RInv, \A i \in DOMAIN log : log[i].seq = i, NEW seq \in 0..MaxSeq,
             ~Covers(seq), seq < Latest
      PROVE  \E j \in DOMAIN log : log[j].seq > seq /\ log[j] \notin Since(0)
  <2> DEFINE n == Len(log)
             k == n - size
  <2>1. /\ log \in Seq(Envelope) /\ n \in Nat /\ DOMAIN log = 1..n
        /\ size \in 0..Capacity /\ Capacity \in Nat \ {0}
        /\ head \in 0..(Capacity - 1) /\ seq \in Nat
    BY <1>1, RingAssumption DEF RInv, TypeOK, Slots
  <2>2. Latest = n /\ n > 0
    <3>1. CASE log = << >>
      BY <1>1, <2>1, <3>1 DEF Latest
    <3>2. CASE log # << >>
      <4>1. n \in DOMAIN log
        BY <2>1, <3>2
      <4> QED BY <1>1, <2>1, <3>2, <4>1 DEF Latest
    <3> QED BY <3>1, <3>2
  <2>3. size <= n /\ size > 0
    <3>1. size = n \/ (size = Capacity /\ n >= Capacity)
      BY <1>1 DEF RInv, HoldsTail
    <3> HIDE DEF n
    <3> QED BY <2>1, <2>2, <3>1
  <2>4. ASSUME NEW o \in 0..(size - 1)
        PROVE  items[Slot(o)].seq = k + o + 1
    <3>1. items[Slot(o)] = log[k + o + 1]
      BY <1>1 DEF RInv, HoldsTail
    <3>2. k + o + 1 \in DOMAIN log
      <4>1. k + o + 1 \in 1..n
        <5> HIDE DEF n
        <5> QED BY <2>1, <2>3
      <4> QED BY <2>1, <4>1
    <3> QED BY <1>1, <3>1, <3>2
  <2>5. k + 1 > seq + 1
    <3>1. Slot(0) = head /\ 0 \in 0..(size - 1)
      <4>1. (head + 0) % Capacity = IF head + 0 < Capacity THEN head + 0 ELSE head + 0 - Capacity
        <5>1. 0 \in 0..Capacity /\ head \in 0..(Capacity - 1)
          BY <2>1
        <5> QED BY <5>1, Wrapped
      <4> QED BY <2>1, <2>3, <4>1 DEF Slot
    <3>2. items[head].seq = k + 0 + 1
      BY <2>4, <3>1
    <3>3. ~(k + 1 <= seq + 1)
      <4>1. k \in Nat /\ k + 0 + 1 = k + 1
        <5> HIDE DEF n
        <5> QED BY <2>1, <2>3
      <4> QED BY <1>1, <2>3, <3>2, <4>1 DEF Covers
    <3> HIDE DEF n
    <3> QED BY <2>1, <2>3, <3>3
  <2>6. k \in DOMAIN log /\ k \in Nat /\ k > seq
    <3>1. k \in 1..n /\ k \in Nat /\ k > seq
      <4> HIDE DEF n
      <4> QED BY <2>1, <2>3, <2>5
    <3> QED BY <2>1, <3>1
  <2> HIDE DEF k
  <2>7. log[k] \notin Since(0)
    <3>1. ASSUME NEW o \in 0..(size - 1), items[Slot(o)] = log[k]
          PROVE  FALSE
      <4>1. k + o + 1 = k
        BY <1>1, <2>4, <2>6, <3>1
      <4> QED BY <2>1, <2>6, <4>1
    <3> QED BY <3>1 DEF Since
  <2> QED BY <1>1, <2>6, <2>7
<1>2. RInv => CoversIsTight
  BY <1>1 DEF CoversIsTight
<1> QED BY <1>2, RingInvariance, PTL

-----------------------------------------------------------------------------
(* Positions. *)

\* Math.min of positions.
LEMMA LowestIs ==
  ASSUME NEW S \in SUBSET Nat, S # {}
  PROVE  Lowest(S) \in S /\ \A m \in S : Lowest(S) <= m
BY Least DEF Lowest

-----------------------------------------------------------------------------
(* The queue: every reader has, in effect, a buffer of its own. *)

Seqs == 1..MaxSeq      \* what is published: sequences

End == base + Len(buffer)

QueueTypes ==
  /\ buffer \in Seq(Seqs) /\ base \in Nat /\ shut \in BOOLEAN
  /\ iterator \in [Readers -> {"unused", "open", "detached"}]
  /\ position \in [Readers -> Nat]
  /\ got \in [Readers -> Seq(Seqs)]

\* The positions lie within the buffer, a reader waits at its end only, and the buffer
\* begins where the slowest reader is.
Positioned ==
  /\ \A r \in Cursors : base <= position[r] /\ position[r] <= End
  /\ parked \subseteq Cursors
  /\ \A r \in parked : position[r] = End
  /\ shut => parked = {}
  /\ Len(buffer) <= Limit
  /\ buffer # << >> => \E r \in Cursors : position[r] = base

QInv == QueueTypes /\ Positioned

\* The values from position to on are the end of those from position from on.
EndOf(new, to, old, from) ==
  /\ to + Len(new) = from + Len(old)
  /\ \A i \in 1..Len(new) : new[i] = old[to - from + i]

\* What is left after trimming begins at the slowest of the open readers and ends where
\* the values ended.
LEMMA Trimmed ==
  ASSUME NEW values \in Seq(Seqs), NEW from \in Nat, NEW open \in SUBSET Readers,
         NEW at \in [Readers -> Nat],
         \A r \in open : from <= at[r] /\ at[r] <= from + Len(values),
         Trim(values, from, open, at)
  PROVE  /\ base' \in Nat /\ from <= base' /\ buffer' \in Seq(Seqs)
         /\ EndOf(buffer', base', values, from)
         /\ \A r \in open : base' <= at[r]
         /\ buffer' # << >> => \E r \in open : at[r] = base'
<1> DEFINE n == Len(values)
           drop == IF open = {} THEN n ELSE Lowest({at[r] : r \in open}) - from
<1>1. n \in Nat
  OBVIOUS
<1>2. drop \in 0..n /\ (\A r \in open : from + drop <= at[r])
      /\ (drop # n => \E r \in open : at[r] = from + drop)
  <2>1. CASE open = {}
    BY <1>1, <2>1
  <2>2. CASE open # {}
    <3> DEFINE S == {at[r] : r \in open}
    <3>1. S \in SUBSET Nat /\ S # {}
      BY <2>2
    <3>2. Lowest(S) \in S /\ \A m \in S : Lowest(S) <= m
      BY <3>1, LowestIs
    <3>3. PICK r \in open : at[r] = Lowest(S)
      BY <3>2
    <3>4. Lowest(S) \in Nat /\ from <= Lowest(S) /\ Lowest(S) <= from + n
      BY <3>1, <3>2, <3>3
    <3>5. drop = Lowest(S) - from
      BY <2>2
    <3>6. \A q \in open : Lowest(S) <= at[q]
      BY <3>2
    <3> HIDE DEF S, drop, n
    <3> QED BY <1>1, <3>3, <3>4, <3>5, <3>6
  <2> QED BY <2>1, <2>2
<1>3. buffer' = SubSeq(values, drop + 1, n) /\ base' = from + drop
  BY DEF Trim
<1> HIDE DEF drop
<1>4. /\ buffer' \in Seq(Seqs) /\ Len(buffer') = n - drop
      /\ \A i \in 1..(n - drop) : buffer'[i] = values[drop + i]
  BY <1>1, <1>2, <1>3
<1> HIDE DEF n
<1>5. base' - from = drop /\ base' \in Nat /\ base' + Len(buffer') = from + n
  BY <1>1, <1>2, <1>3, <1>4
<1>6. buffer' # << >> => \E r \in open : at[r] = base'
  <2>1. buffer' # << >> => drop # n
    BY <1>1, <1>2, <1>4
  <2> QED BY <1>2, <1>3, <2>1
<1>7. \A i \in 1..Len(buffer') : buffer'[i] = values[base' - from + i]
  BY <1>4, <1>5
<1>8. from <= base' /\ \A r \in open : base' <= at[r]
  BY <1>1, <1>2, <1>3
<1> QED BY <1>4, <1>5, <1>6, <1>7, <1>8 DEF n, EndOf

\* The end of a sequence, element by element.
LEMMA Suffix ==
  ASSUME NEW V, NEW s \in Seq(V), NEW k \in Nat, k <= Len(s)
  PROVE  /\ SubSeq(s, k + 1, Len(s)) \in Seq(V) /\ Len(SubSeq(s, k + 1, Len(s))) = Len(s) - k
         /\ \A i \in 1..(Len(s) - k) : SubSeq(s, k + 1, Len(s))[i] = s[k + i]
OBVIOUS

\* Two sequences with the same elements are the same.
LEMMA SameSeq ==
  ASSUME NEW V, NEW s \in Seq(V), NEW t \in Seq(V), Len(t) = Len(s),
         \A i \in 1..Len(s) : t[i] = s[i]
  PROVE  t = s
OBVIOUS

\* The last value of a sequence that grew.
LEMMA Extended ==
  ASSUME NEW V, NEW s \in Seq(V), NEW t \in Seq(V), NEW v \in V, Len(t) = Len(s) + 1,
         \A i \in 1..Len(s) : t[i] = s[i], t[Len(s) + 1] = v
  PROVE  t = Append(s, v)
OBVIOUS

LEMMA Shortened ==
  ASSUME NEW V, NEW s \in Seq(V), NEW t \in Seq(V), s # << >>, Len(t) = Len(s) - 1,
         \A i \in 1..(Len(s) - 1) : t[i] = s[i + 1]
  PROVE  t = Tail(s)
OBVIOUS

\* What a reader has still to take, value by value.
LEMMA UnreadIs ==
  ASSUME QInv
  PROVE  \A r \in Cursors :
           /\ base <= position[r] /\ position[r] <= End
           /\ base \in Nat /\ End \in Nat /\ position[r] \in Nat
           /\ Unread(r) \in Seq(Seqs) /\ Len(Unread(r)) = End - position[r]
           /\ \A i \in 1..(End - position[r]) : Unread(r)[i] = buffer[position[r] - base + i]
<1> SUFFICES ASSUME NEW r \in Cursors
             PROVE  /\ base <= position[r] /\ position[r] <= End
                    /\ base \in Nat /\ End \in Nat /\ position[r] \in Nat
                    /\ Unread(r) \in Seq(Seqs) /\ Len(Unread(r)) = End - position[r]
                    /\ \A i \in 1..(End - position[r]) :
                         Unread(r)[i] = buffer[position[r] - base + i]
  OBVIOUS
<1> DEFINE n == Len(buffer)
           k == position[r] - base
<1>1. n \in Nat /\ k \in Nat /\ k <= n /\ End - position[r] = n - k /\ base \in Nat
      /\ position[r] \in Nat /\ base <= position[r] /\ position[r] <= End /\ End \in Nat
  <2>1. n \in Nat /\ position[r] \in Nat /\ base \in Nat
    BY DEF QueueTypes, Cursors, QInv
  <2>2. base <= position[r] /\ position[r] <= End
    BY DEF QInv, Positioned
  <2> HIDE DEF n
  <2>3. End = base + n
    BY DEF End, n
  <2> QED BY <2>1, <2>2, <2>3
<1>2. Unread(r) = SubSeq(buffer, k + 1, n)
  BY DEF Unread
<1> HIDE DEF k
<1>3. /\ SubSeq(buffer, k + 1, n) \in Seq(Seqs) /\ Len(SubSeq(buffer, k + 1, n)) = n - k
      /\ \A i \in 1..(n - k) : SubSeq(buffer, k + 1, n)[i] = buffer[k + i]
  BY <1>1, Suffix DEF QueueTypes, QInv
<1> QED BY <1>1, <1>2, <1>3 DEF k

\* What a reader at this position has still to take.
Rest(values, from, at) == SubSeq(values, at - from + 1, Len(values))

\* A window stays as it is when the buffer is trimmed below it.
LEMMA WindowKept ==
  ASSUME NEW old \in Seq(Seqs), NEW new \in Seq(Seqs), NEW from \in Nat, NEW to \in Nat,
         NEW at \in Nat, from <= to, to <= at, at <= from + Len(old),
         EndOf(new, to, old, from)
  PROVE  Rest(new, to, at) = Rest(old, from, at)
<1> DEFINE m == Len(old)
           n == Len(new)
           a == SubSeq(old, at - from + 1, m)
           b == SubSeq(new, at - to + 1, n)
<1>1. m \in Nat /\ n \in Nat
  OBVIOUS
<1>2. at - from \in Nat /\ at - from <= m /\ at - to \in Nat /\ at - to <= n
      /\ m - (at - from) = n - (at - to)
  <2> HIDE DEF m, n
  <2>1. to + n = from + m /\ at <= from + m
    BY DEF m, n, EndOf
  <2> QED BY <1>1, <2>1
<1>3. a \in Seq(Seqs) /\ Len(a) = m - (at - from)
      /\ \A i \in 1..(m - (at - from)) : a[i] = old[at - from + i]
  BY <1>2, Suffix
<1>4. b \in Seq(Seqs) /\ Len(b) = n - (at - to)
      /\ \A i \in 1..(n - (at - to)) : b[i] = new[at - to + i]
  BY <1>2, Suffix
<1>5. ASSUME NEW i \in 1..(n - (at - to))
      PROVE  b[i] = a[i]
  <2>1. at - to + i \in 1..n /\ to - from + (at - to + i) = at - from + i
    <3> HIDE DEF m, n
    <3> QED BY <1>1, <1>2
  <2>2. new[at - to + i] = old[to - from + (at - to + i)]
    BY <2>1 DEF EndOf
  <2> QED BY <1>2, <1>3, <1>4, <2>1, <2>2
<1> HIDE DEF a, b
<1>6. b = a
  BY <1>2, <1>3, <1>4, <1>5, SameSeq
<1> QED BY <1>6 DEF a, b, Rest

\* One position further there is one value less.
LEMMA RestOfRest ==
  ASSUME NEW values \in Seq(Seqs), NEW from \in Nat, NEW at \in Nat, NEW k \in Nat,
         from <= at, at < from + Len(values), k = at + 1
  PROVE  Rest(values, from, k) = Tail(Rest(values, from, at))
<1> DEFINE n == Len(values)
           a == at - from
<1>1. n \in Nat /\ a \in Nat /\ a < n /\ k - from = a + 1
  OBVIOUS
<1>2. Rest(values, from, at) = SubSeq(values, a + 1, n)
  BY DEF Rest
<1>3. Rest(values, from, k) = SubSeq(values, (a + 1) + 1, n)
  BY <1>1 DEF Rest
<1> HIDE DEF a, n
<1>4. SubSeq(values, (a + 1) + 1, n) = Tail(SubSeq(values, a + 1, n))
  <2>1. PICK x, y : x = SubSeq(values, a + 1, n) /\ y = SubSeq(values, (a + 1) + 1, n)
    OBVIOUS
  <2>2. /\ x \in Seq(Seqs) /\ Len(x) = n - a /\ \A i \in 1..(n - a) : x[i] = values[a + i]
    BY <1>1, <2>1 DEF n
  <2>3. /\ y \in Seq(Seqs) /\ Len(y) = n - a - 1
        /\ \A i \in 1..(n - a - 1) : y[i] = values[(a + 1) + i]
    BY <1>1, <2>1 DEF n
  <2>4. /\ Tail(x) \in Seq(Seqs) /\ Len(Tail(x)) = n - a - 1
        /\ \A i \in 1..(n - a - 1) : Tail(x)[i] = x[i + 1]
    <3>1. x # << >>
      BY <1>1, <2>2
    <3> QED BY <1>1, <2>2, <3>1
  <2>5. \A i \in 1..(n - a - 1) : i + 1 \in 1..(n - a) /\ a + (i + 1) = (a + 1) + i
    BY <1>1
  <2>6. \A i \in 1..(n - a - 1) : y[i] = Tail(x)[i]
    BY <2>2, <2>3, <2>4, <2>5
  <2>7. y = Tail(x)
    BY <2>3, <2>4, <2>6, SameSeq
  <2> QED BY <2>1, <2>7
<1> QED BY <1>2, <1>3, <1>4

-----------------------------------------------------------------------------
(* The steps of the queue. *)

\* The abstract state: what each reader has still to take.
Shown == [r \in Readers |-> Unread(r)]

\* A new queue satisfies the invariant.
LEMMA QueueStarts == QueueInit => QInv /\ Windows!Init
<1> SUFFICES ASSUME QueueInit PROVE QInv /\ Windows!Init
  OBVIOUS
<1>1. Cursors = {} /\ Len(buffer) = 0 /\ Limit \in Nat
  BY QueueAssumption DEF QueueInit, Cursors
<1>2. QueueTypes
  <2>1. << >> \in Seq(Seqs)
    OBVIOUS
  <2> QED BY <2>1 DEF QueueInit, QueueTypes
<1>3. Positioned
  BY <1>1 DEF QueueInit, Positioned
<1>4. Windows!Init
  BY <1>1 DEF QueueInit, Windows!Init, Unread
<1> QED BY <1>2, <1>3, <1>4 DEF QInv

\* reader().
LEMMA OpenStep ==
  ASSUME QInv, NEW q \in Readers, Open(q)
  PROVE  QInv' /\ Windows!Open(q)
<1>1. /\ iterator[q] = "unused"
      /\ iterator' = [iterator EXCEPT ![q] = IF shut THEN "detached" ELSE "open"]
      /\ position' = [position EXCEPT ![q] = End]
      /\ UNCHANGED <<buffer, base, shut, parked, got>>
  BY DEF Open, End
<1>2. /\ QueueTypes /\ Positioned /\ Len(buffer) \in Nat /\ base \in Nat
      /\ End = base + Len(buffer) /\ End \in Nat /\ End' = End
  <2>1. Len(buffer) \in Nat /\ base \in Nat
    BY DEF QInv, QueueTypes
  <2>2. End = base + Len(buffer)
    BY DEF End
  <2>3. End' = End
    BY <1>1 DEF End
  <2> QED BY <2>1, <2>2, <2>3 DEF QInv
<1>3. /\ q \notin Cursors /\ Cursors' = IF shut THEN Cursors ELSE Cursors \cup {q}
      /\ \A r \in Readers : r # q => position'[r] = position[r]
      /\ position'[q] = End
  BY <1>1, <1>2 DEF Cursors, QueueTypes
<1>4. QueueTypes'
  BY <1>1, <1>2 DEF QueueTypes
<1>5. \A r \in Cursors : r # q /\ r \in Readers
  BY <1>3 DEF Cursors
<1>6. Positioned'
  <2>1. \A r \in Cursors' : base' <= position'[r] /\ position'[r] <= End'
    BY <1>1, <1>2, <1>3, <1>5 DEF Positioned
  <2>2. parked' \subseteq Cursors' /\ (shut' => parked' = {})
    BY <1>1, <1>2, <1>3 DEF Positioned
  <2>3. \A r \in parked' : position'[r] = End'
    BY <1>1, <1>2, <1>3, <1>5 DEF Positioned
  <2>4. buffer' # << >> => \E r \in Cursors' : position'[r] = base'
    BY <1>1, <1>2, <1>3, <1>5 DEF Positioned
  <2>5. Len(buffer') <= Limit
    BY <1>1, <1>2 DEF Positioned
  <2> QED BY <2>1, <2>2, <2>3, <2>4, <2>5 DEF Positioned
<1>7. ASSUME NEW r \in Readers
      PROVE  Unread(r)' = Unread(r)
  <2>1. CASE r # q
    BY <1>1, <1>3, <2>1 DEF Unread
  <2>2. CASE r = q
    <3>1. Unread(q) = << >>
      BY <1>3 DEF Unread
    <3>2. Unread(q)' = << >>
      <4>1. SUFFICES ASSUME q \in Cursors' PROVE Unread(q)' = << >>
        BY DEF Unread
      <4>2. Unread(q)' = SubSeq(buffer, End - base + 1, Len(buffer))
        BY <1>1, <1>3, <4>1 DEF Unread
      <4>3. End - base = Len(buffer) /\ buffer \in Seq(Seqs)
        BY <1>2 DEF QueueTypes
      <4> QED BY <4>2, <4>3
    <3> QED BY <2>2, <3>1, <3>2
  <2> QED BY <2>1, <2>2
<1>8. Windows!Open(q)
  BY <1>1, <1>7 DEF Windows!Open
<1> QED BY <1>4, <1>6, <1>8 DEF QInv

\* next() with a value at hand: the others' windows stay, although the buffer may shrink.
LEMMA TakeStep ==
  ASSUME QInv, NEW q \in Readers, Take(q)
  PROVE  QInv' /\ Windows!Take(q)
<1> DEFINE v == ValueAt(buffer, base, position[q])
<1>1. /\ q \in Cursors \ parked /\ Available(q)
      /\ got' = [got EXCEPT ![q] = Append(@, v)]
      /\ position' = [position EXCEPT ![q] = @ + 1]
      /\ Trim(buffer, base, Cursors, position')
      /\ UNCHANGED <<shut, iterator, parked>>
  BY DEF Take
<1>2. /\ QueueTypes /\ Positioned /\ Len(buffer) \in Nat /\ base \in Nat
      /\ End = base + Len(buffer) /\ End \in Nat /\ Cursors \subseteq Readers
      /\ \A r \in Readers : position[r] \in Nat
  <2>1. Len(buffer) \in Nat /\ base \in Nat
    BY DEF QInv, QueueTypes
  <2>2. End = base + Len(buffer)
    BY DEF End
  <2> QED BY <2>1, <2>2 DEF QInv, Cursors, QueueTypes
<1>3. position[q] - base < Len(buffer) /\ base <= position[q] /\ position[q] < End
  BY <1>1, <1>2 DEF Available, Positioned
<1>4. /\ \A r \in Readers : position'[r] = IF r = q THEN position[r] + 1 ELSE position[r]
      /\ position' \in [Readers -> Nat]
      /\ Cursors' = Cursors
  BY <1>1, <1>2 DEF QueueTypes, Cursors
<1>5. \A r \in Cursors : base <= position'[r] /\ position'[r] <= End
  BY <1>2, <1>3, <1>4 DEF Positioned
<1>6. /\ base' \in Nat /\ base <= base' /\ buffer' \in Seq(Seqs)
      /\ base' + Len(buffer') = base + Len(buffer)
      /\ EndOf(buffer', base', buffer, base)
      /\ \A r \in Cursors : base' <= position'[r]
      /\ buffer' # << >> => \E r \in Cursors : position'[r] = base'
  <2>1. /\ buffer \in Seq(Seqs) /\ base \in Nat /\ Cursors \in SUBSET Readers
        /\ position' \in [Readers -> Nat]
        /\ \A r \in Cursors : base <= position'[r] /\ position'[r] <= base + Len(buffer)
    BY <1>2, <1>4, <1>5 DEF QueueTypes
  <2>2. Trim(buffer, base, Cursors, position')
    BY <1>1
  <2>3. /\ base' \in Nat /\ base <= base' /\ buffer' \in Seq(Seqs)
        /\ EndOf(buffer', base', buffer, base)
        /\ \A r \in Cursors : base' <= position'[r]
        /\ buffer' # << >> => \E r \in Cursors : position'[r] = base'
    BY ONLY <2>1, <2>2, Trimmed
  <2> QED BY <2>3 DEF EndOf
<1>7. End' = End /\ Len(buffer') \in Nat /\ Len(buffer') <= Len(buffer)
  <2>1. Len(buffer') \in Nat
    BY <1>6
  <2> QED BY <1>2, <1>6, <2>1 DEF End
<1>8. v \in Seqs /\ Unread(q) # << >> /\ Head(Unread(q)) = v
  <2>1. position[q] - base + 1 \in 1..Len(buffer)
    BY <1>1, <1>2, <1>3
  <2>2. v = buffer[position[q] - base + 1]
    BY DEF ValueAt
  <2>3. v \in Seqs
    BY <1>2, <2>1, <2>2 DEF QueueTypes
  <2>4. /\ Unread(q) \in Seq(Seqs) /\ Len(Unread(q)) = End - position[q]
        /\ \A i \in 1..(End - position[q]) : Unread(q)[i] = buffer[position[q] - base + i]
    BY <1>1, UnreadIs
  <2>5. 1 \in 1..(End - position[q]) /\ position[q] \in Nat
    BY <1>1, <1>2, <1>3
  <2>6. Unread(q) # << >>
    BY <1>2, <2>4, <2>5
  <2> QED BY <2>2, <2>3, <2>4, <2>5, <2>6
<1>9. QueueTypes'
  BY <1>1, <1>2, <1>4, <1>6, <1>8 DEF QueueTypes
<1>10. Positioned'
  <2>1. \A r \in Cursors' : base' <= position'[r] /\ position'[r] <= End'
    BY <1>4, <1>5, <1>6, <1>7
  <2>2. parked' \subseteq Cursors' /\ (shut' => parked' = {})
    BY <1>1, <1>2, <1>4 DEF Positioned
  <2>3. \A r \in parked' : position'[r] = End'
    BY <1>1, <1>2, <1>4, <1>7 DEF Positioned
  <2>4. Len(buffer') <= Limit
    BY <1>2, <1>7, QueueAssumption DEF Positioned
  <2> QED BY <1>4, <1>6, <2>1, <2>2, <2>3, <2>4 DEF Positioned
<1>11. ASSUME NEW r \in Readers
       PROVE  Unread(r)' = IF r = q THEN Tail(Unread(r)) ELSE Unread(r)
  <2>1. CASE r \notin Cursors
    BY <1>1, <1>4, <2>1 DEF Unread
  <2>2. CASE r \in Cursors /\ r # q
    <3>1. base' <= position[r] /\ position[r] <= base + Len(buffer) /\ position[r] \in Nat
      BY <1>2, <1>4, <1>6, <2>2 DEF Positioned
    <3>2. Rest(buffer', base', position[r]) = Rest(buffer, base, position[r])
      <4>1. buffer \in Seq(Seqs)
        BY <1>2 DEF QueueTypes
      <4> QED BY ONLY <1>2, <1>6, <3>1, <4>1, WindowKept
    <3> QED BY <1>4, <2>2, <3>2 DEF Unread, Rest
  <2>3. CASE r = q
    <3>1. PICK k \in Nat : k = position[q] + 1
      BY <1>1, <1>2
    <3>2. base' <= k /\ k <= base + Len(buffer) /\ position'[q] = k
      BY <1>1, <1>2, <1>3, <1>4, <1>6, <3>1
    <3>3. buffer \in Seq(Seqs) /\ position[q] \in Nat
      BY <1>1, <1>2 DEF QueueTypes
    <3>4. Unread(q)' = Rest(buffer', base', k)
      BY <1>1, <1>4, <3>2 DEF Unread, Rest
    <3>5. Rest(buffer', base', k) = Rest(buffer, base, k)
      BY ONLY <1>2, <1>6, <3>2, <3>3, WindowKept
    <3>6. Rest(buffer, base, k) = Tail(Rest(buffer, base, position[q]))
      BY <1>2, <1>3, <3>1, <3>3, RestOfRest
    <3>7. Unread(q) = Rest(buffer, base, position[q])
      BY <1>1 DEF Unread, Rest
    <3> QED BY <2>3, <3>4, <3>5, <3>6, <3>7
  <2> QED BY <2>1, <2>2, <2>3
<1>12. Windows!Take(q)
  <2>1. Shown' = [Shown EXCEPT ![q] = Tail(@)]
    BY <1>11 DEF Shown
  <2>2. q \in Windows!Opened \ parked
    BY <1>1 DEF Windows!Opened, Cursors
  <2> QED BY <1>1, <1>8, <2>1, <2>2 DEF Windows!Take, Shown
<1> QED BY <1>9, <1>10, <1>12 DEF QInv

\* next() at the end of the queue.
LEMMA ParkStep ==
  ASSUME QInv, NEW q \in Readers, Park(q)
  PROVE  QInv' /\ Windows!Wait(q)
<1>1. /\ q \in Cursors \ parked /\ ~Available(q) /\ ~shut
      /\ parked' = parked \cup {q}
      /\ UNCHANGED <<buffer, base, shut, iterator, position, got>>
  BY DEF Park
<1>2. Cursors' = Cursors /\ End' = End /\ \A r \in Readers : Unread(r)' = Unread(r)
  BY <1>1 DEF Cursors, End, Unread
<1>3. position[q] = End /\ Unread(q) = << >>
  <2>1. /\ Unread(q) \in Seq(Seqs) /\ Len(Unread(q)) = End - position[q]
        /\ position[q] <= End /\ End \in Nat /\ position[q] \in Nat /\ base \in Nat
    BY <1>1, UnreadIs
  <2>2. ~(position[q] - base < Len(buffer)) /\ Len(buffer) \in Nat /\ End = base + Len(buffer)
    BY <1>1 DEF Available, End, QInv, QueueTypes
  <2>3. position[q] = End
    BY <2>1, <2>2
  <2> QED BY <2>1, <2>3
<1>4. QueueTypes' /\ Positioned'
  <2>1. QueueTypes'
    BY <1>1 DEF QueueTypes, QInv
  <2>2. Positioned'
    BY <1>1, <1>2, <1>3 DEF Positioned, QInv
  <2> QED BY <2>1, <2>2
<1>5. Windows!Wait(q)
  <2>1. Shown' = Shown
    BY <1>2 DEF Shown
  <2> QED BY <1>1, <1>3, <2>1 DEF Windows!Wait, Windows!Opened, Cursors, Shown
<1> QED BY <1>4, <1>5 DEF QInv

\* return().
LEMMA ReturnStep ==
  ASSUME QInv, NEW q \in Readers, Return(q)
  PROVE  QInv' /\ Windows!Detach(q)
<1> DEFINE others == Cursors \ {q}
<1>1. /\ q \in Cursors
      /\ iterator' = [iterator EXCEPT ![q] = "detached"]
      /\ parked' = parked \ {q}
      /\ Trim(buffer, base, others, position)
      /\ UNCHANGED <<shut, position, got>>
  BY DEF Return
<1>2. /\ QueueTypes /\ Positioned /\ buffer \in Seq(Seqs) /\ Len(buffer) \in Nat /\ base \in Nat
      /\ End = base + Len(buffer) /\ End \in Nat /\ others \in SUBSET Readers
      /\ position \in [Readers -> Nat]
      /\ \A r \in others : base <= position[r] /\ position[r] <= base + Len(buffer)
  <2>1. Len(buffer) \in Nat /\ base \in Nat
    BY DEF QInv, QueueTypes
  <2>2. End = base + Len(buffer)
    BY DEF End
  <2> QED BY <2>1, <2>2 DEF QInv, Cursors, QueueTypes, Positioned
<1>3. Cursors' = others /\ iterator' \in [Readers -> {"unused", "open", "detached"}]
  BY <1>1, <1>2 DEF QueueTypes, Cursors
<1>4. /\ base' \in Nat /\ base <= base' /\ buffer' \in Seq(Seqs)
      /\ base' + Len(buffer') = base + Len(buffer)
      /\ EndOf(buffer', base', buffer, base)
      /\ \A r \in others : base' <= position[r]
      /\ buffer' # << >> => \E r \in others : position[r] = base'
  <2> HIDE DEF others
  <2>1. /\ base' \in Nat /\ base <= base' /\ buffer' \in Seq(Seqs)
        /\ EndOf(buffer', base', buffer, base)
        /\ \A r \in others : base' <= position[r]
        /\ buffer' # << >> => \E r \in others : position[r] = base'
    BY ONLY <1>1, <1>2, Trimmed
  <2> QED BY <2>1 DEF EndOf
<1>5. End' = End /\ Len(buffer') \in Nat /\ Len(buffer') <= Len(buffer)
  <2>1. Len(buffer') \in Nat
    BY <1>4
  <2> QED BY <1>2, <1>4, <2>1 DEF End
<1>6. QueueTypes'
  BY <1>1, <1>2, <1>3, <1>4 DEF QueueTypes
<1>7. Positioned'
  <2>1. \A r \in Cursors' : base' <= position'[r] /\ position'[r] <= End'
    BY <1>1, <1>2, <1>3, <1>4, <1>5
  <2>2. parked' \subseteq Cursors' /\ (shut' => parked' = {})
    BY <1>1, <1>2, <1>3 DEF Positioned
  <2>3. \A r \in parked' : position'[r] = End'
    BY <1>1, <1>2, <1>5 DEF Positioned
  <2>4. Len(buffer') <= Limit
    BY <1>2, <1>5, QueueAssumption DEF Positioned
  <2> QED BY <1>1, <1>3, <1>4, <2>1, <2>2, <2>3, <2>4 DEF Positioned
<1>8. ASSUME NEW r \in Readers
      PROVE  Unread(r)' = IF r = q THEN << >> ELSE Unread(r)
  <2>1. CASE r \notin Cursors \/ r = q
    BY <1>1, <1>3, <2>1 DEF Unread
  <2>2. CASE r \in others
    <3>1. base' <= position[r] /\ position[r] <= base + Len(buffer) /\ position[r] \in Nat
      BY <1>2, <1>4, <2>2
    <3>2. Rest(buffer', base', position[r]) = Rest(buffer, base, position[r])
      <4> HIDE DEF others
      <4> QED BY ONLY <1>2, <1>4, <3>1, WindowKept
    <3> QED BY <1>1, <1>3, <2>2, <3>2 DEF Unread, Rest
  <2> QED BY <2>1, <2>2
<1>9. Windows!Detach(q)
  <2>1. Shown' = [Shown EXCEPT ![q] = << >>]
    BY <1>8 DEF Shown
  <2> QED BY <1>1, <2>1 DEF Windows!Detach, Shown, Windows!Opened, Cursors
<1> QED BY <1>6, <1>7, <1>9 DEF QInv

\* close().
LEMMA CloseStep ==
  ASSUME QInv, CloseQueue
  PROVE  QInv' /\ Windows!Close
<1>1. /\ shut' = TRUE
      /\ parked' = {r \in parked : position[r] < base + Len(buffer)}
      /\ UNCHANGED <<buffer, base, iterator, position, got>>
  BY DEF CloseQueue
<1>2. parked' = {}
  <2>1. \A r \in parked : position[r] = base + Len(buffer) /\ r \in Readers
    BY DEF QInv, Positioned, End, Cursors
  <2>2. \A r \in parked : ~(position[r] < base + Len(buffer))
    <3>1. base \in Nat /\ Len(buffer) \in Nat
      BY DEF QInv, QueueTypes
    <3> QED BY <2>1, <3>1
  <2> QED BY <1>1, <2>2
<1>3. Cursors' = Cursors /\ End' = End /\ \A r \in Readers : Unread(r)' = Unread(r)
  BY <1>1 DEF Cursors, End, Unread
<1>4. QueueTypes' /\ Positioned'
  <2>1. QueueTypes'
    BY <1>1 DEF QueueTypes, QInv
  <2>2. Positioned'
    BY <1>1, <1>2, <1>3 DEF Positioned, QInv
  <2> QED BY <2>1, <2>2
<1>5. Windows!Close
  <2>1. Shown' = Shown
    BY <1>3 DEF Shown
  <2> QED BY <1>1, <1>2, <2>1 DEF Windows!Close, Shown
<1> QED BY <1>4, <1>5 DEF QInv

\* publish(): who waits is answered; the window of a reader that lags a full buffer behind
\* gives way by one.
LEMMA PublishStep ==
  ASSUME QInv, NEW v \in Seqs, Publish(v)
  PROVE  QInv' /\ Windows!Publish(v)
<1> DEFINE n == Len(buffer)
           grown == Append(buffer, v)
           dropped == IF Len(grown) > Limit THEN Len(grown) - Limit ELSE 0
           from == base + dropped
           kept == SubSeq(grown, dropped + 1, Len(grown))
           caught == [r \in Readers |-> IF r \in Cursors /\ position[r] < from THEN from
                                        ELSE position[r]]
           served == {r \in parked : caught[r] < from + Len(kept)}
           at == [r \in Readers |-> IF r \in served THEN caught[r] + 1 ELSE caught[r]]
<1>1. /\ n \in Nat /\ base \in Nat /\ Limit \in Nat \ {0} /\ n <= Limit
      /\ buffer \in Seq(Seqs) /\ position \in [Readers -> Nat] /\ Cursors \in SUBSET Readers
      /\ End = base + n /\ parked \subseteq Cursors
      /\ \A r \in Cursors : base <= position[r] /\ position[r] <= base + n
      /\ \A r \in parked : position[r] = base + n
  <2>1. n \in Nat /\ base \in Nat /\ End = base + n
    BY DEF QInv, QueueTypes, End
  <2> QED BY <2>1, QueueAssumption DEF QInv, QueueTypes, Positioned, Cursors
<1>2. /\ grown \in Seq(Seqs) /\ Len(grown) = n + 1 /\ grown[n + 1] = v
      /\ \A i \in 1..n : grown[i] = buffer[i]
  BY <1>1
<1>3. dropped = (IF n = Limit THEN 1 ELSE 0) /\ dropped \in {0, 1} /\ dropped <= n
  <2> HIDE DEF n, grown
  <2> QED BY <1>1, <1>2
<1>4. /\ ~shut
      /\ got' = [r \in Readers |-> IF r \in served
                                   THEN Append(got[r], ValueAt(kept, from, caught[r])) ELSE got[r]]
      /\ parked' = parked \ served
      /\ position' = at
      /\ Trim(kept, from, Cursors, at)
      /\ UNCHANGED <<shut, iterator>>
  BY DEF Publish
<1>5. /\ kept \in Seq(Seqs) /\ Len(kept) = n + 1 - dropped
      /\ \A i \in 1..(n + 1 - dropped) : kept[i] = grown[dropped + i]
  <2> HIDE DEF n, grown, dropped
  <2> QED BY <1>1, <1>2, <1>3, Suffix
<1>6. from \in Nat /\ from + Len(kept) = base + n + 1 /\ Len(kept) <= Limit
      /\ from <= base + n /\ base <= from
  <2> HIDE DEF n, grown, dropped, kept
  <2> QED BY <1>1, <1>3, <1>5
<1> HIDE DEF grown, dropped, kept, n
<1>7. /\ caught \in [Readers -> Nat]
      /\ \A r \in Cursors : /\ caught[r] = IF position[r] < from THEN from ELSE position[r]
                            /\ from <= caught[r] /\ caught[r] <= base + n
      /\ \A r \in parked : caught[r] = base + n
  BY <1>1, <1>6
<1>8. served = parked
  <2> HIDE DEF caught, from
  <2> QED BY <1>1, <1>6, <1>7
<1> HIDE DEF served, caught
<1>9. /\ at \in [Readers -> Nat]
      /\ \A r \in Readers : at[r] = IF r \in parked THEN base + n + 1 ELSE caught[r]
      /\ \A r \in Cursors : from <= at[r] /\ at[r] <= from + Len(kept)
  <2> HIDE DEF from
  <2>1. \A r \in Readers : at[r] = IF r \in parked THEN base + n + 1 ELSE caught[r]
    BY <1>1, <1>7, <1>8
  <2>2. \A r \in Readers : at[r] \in Nat
    BY <1>1, <1>7, <2>1
  <2>3. at \in [Readers -> Nat]
    BY <2>2
  <2> QED BY <1>1, <1>6, <1>7, <2>1, <2>3
<1> HIDE DEF at
<1>10. /\ base' \in Nat /\ from <= base' /\ buffer' \in Seq(Seqs)
       /\ EndOf(buffer', base', kept, from)
       /\ \A r \in Cursors : base' <= at[r]
       /\ buffer' # << >> => \E r \in Cursors : at[r] = base'
  <2> HIDE DEF from
  <2>1. /\ kept \in Seq(Seqs) /\ from \in Nat /\ Cursors \in SUBSET Readers
        /\ at \in [Readers -> Nat]
        /\ \A r \in Cursors : from <= at[r] /\ at[r] <= from + Len(kept)
        /\ Trim(kept, from, Cursors, at)
    BY <1>1, <1>4, <1>5, <1>6, <1>9
  <2> QED BY ONLY <2>1, Trimmed
<1> HIDE DEF from
<1>11. /\ base' + Len(buffer') = base + n + 1 /\ End' = base + n + 1
       /\ Len(buffer') \in Nat /\ Len(buffer') <= Limit /\ Cursors' = Cursors
  <2>1. base' + Len(buffer') = base + n + 1 /\ End' = base' + Len(buffer')
    BY <1>6, <1>10 DEF EndOf, End
  <2>2. Len(buffer') \in Nat
    BY <1>10
  <2>3. Len(buffer') <= Limit
    <3>1. Len(kept) \in Nat
      BY <1>5
    <3> QED BY <1>1, <1>6, <1>10, <2>1, <2>2, <3>1
  <2> QED BY <1>4, <2>1, <2>2, <2>3 DEF Cursors
<1>12. \A r \in parked : ValueAt(kept, from, caught[r]) = v
  <2> SUFFICES ASSUME NEW r \in parked PROVE ValueAt(kept, from, caught[r]) = v
    OBVIOUS
  <2>1. caught[r] - from + 1 = n + 1 - dropped /\ n + 1 - dropped \in 1..(n + 1 - dropped)
        /\ dropped + (n + 1 - dropped) = n + 1
    BY <1>1, <1>3, <1>7 DEF from
  <2>2. kept[n + 1 - dropped] = v
    BY <1>2, <1>5, <2>1
  <2>3. ValueAt(kept, from, caught[r]) = kept[caught[r] - from + 1]
    BY DEF ValueAt
  <2> QED BY <2>1, <2>2, <2>3
<1>13. /\ got' = [r \in Readers |-> IF r \in parked THEN Append(got[r], v) ELSE got[r]]
       /\ parked' = {}
  <2> HIDE DEF n
  <2> QED BY <1>4, <1>8, <1>12
<1>14. QueueTypes'
  <2>1. got' \in [Readers -> Seq(Seqs)]
    BY <1>13 DEF QInv, QueueTypes
  <2> QED BY <1>4, <1>9, <1>10, <2>1 DEF QInv, QueueTypes
<1>15. Positioned'
  <2>1. \A r \in Cursors' : base' <= position'[r] /\ position'[r] <= End'
    BY <1>4, <1>6, <1>9, <1>10, <1>11
  <2> QED BY <1>4, <1>10, <1>11, <1>13, <2>1 DEF Positioned
<1>16. ASSUME NEW r \in Cursors \ parked
       PROVE  Unread(r)' = Windows!Push(Unread(r), v)
  <2> DEFINE c == caught[r]
             u == Unread(r)
             w == Rest(kept, from, c)
  <2>1. Unread(r)' = w
    <3>1. r \in Cursors' /\ position'[r] = c
      BY <1>1, <1>4, <1>9, <1>11
    <3>2. Unread(r)' = Rest(buffer', base', c)
      BY <3>1 DEF Unread, Rest
    <3>3. c \in Nat /\ base' <= c /\ c <= from + Len(kept)
      BY <1>1, <1>7, <1>9, <1>10
    <3> HIDE DEF c
    <3>4. Rest(buffer', base', c) = Rest(kept, from, c)
      BY ONLY <1>5, <1>6, <1>10, <3>3, WindowKept
    <3> QED BY <3>2, <3>4
  <2>2. /\ u \in Seq(Seqs) /\ Len(u) = base + n - position[r]
        /\ \A i \in 1..(base + n - position[r]) : u[i] = buffer[position[r] - base + i]
    BY <1>1, UnreadIs
  <2>3. /\ c \in Nat /\ from <= c /\ c <= base + n
        /\ c = (IF position[r] < from THEN from ELSE position[r])
        /\ position[r] \in Nat /\ base <= position[r] /\ position[r] <= base + n
    BY <1>1, <1>7
  <2> HIDE DEF c, u
  <2>4. /\ w \in Seq(Seqs) /\ Len(w) = base + n + 1 - c
        /\ \A i \in 1..(base + n + 1 - c) : w[i] = grown[c - base + i]
    <3> DEFINE k == c - from
    <3>1. k \in Nat /\ k <= Len(kept) /\ Len(kept) - k = base + n + 1 - c
      BY <1>1, <1>3, <1>5, <1>6, <2>3
    <3> HIDE DEF k
    <3>2. /\ SubSeq(kept, k + 1, Len(kept)) \in Seq(Seqs)
          /\ Len(SubSeq(kept, k + 1, Len(kept))) = Len(kept) - k
          /\ \A i \in 1..(Len(kept) - k) : SubSeq(kept, k + 1, Len(kept))[i] = kept[k + i]
      BY <1>5, <3>1, Suffix
    <3>3. w = SubSeq(kept, k + 1, Len(kept))
      BY DEF Rest, k
    <3>4. ASSUME NEW i \in 1..(base + n + 1 - c)
          PROVE  kept[k + i] = grown[c - base + i]
      <4>1. k + i \in 1..(n + 1 - dropped) /\ dropped + (k + i) = c - base + i
        <5>1. base \in Nat /\ n \in Nat /\ c \in Nat /\ dropped \in Nat /\ i \in Nat
              /\ 1 <= i /\ i <= base + n + 1 - c /\ base + dropped <= c
          BY <1>1, <1>3, <2>3 DEF from
        <5> QED BY <5>1 DEF k, from
      <4> QED BY <1>5, <4>1
    <3> QED BY <3>1, <3>2, <3>3, <3>4
  <2> HIDE DEF w
  <2>5. CASE position[r] < from
    <3>1. dropped = 1 /\ n = Limit /\ position[r] = base /\ c = base + 1 /\ from = base + 1
      BY <1>1, <1>3, <2>3, <2>5 DEF from
    <3>2. /\ Len(u) = n /\ n > 0 /\ \A i \in 1..n : u[i] = buffer[i]
      <4>1. base + n - position[r] = n /\ n > 0
        BY <1>1, <3>1
      <4>2. \A i \in 1..n : position[r] - base + i = i
        BY <1>1, <3>1
      <4> QED BY <2>2, <4>1, <4>2
    <3>3. Len(w) = n /\ \A i \in 1..n : w[i] = grown[1 + i]
      BY <1>1, <2>4, <3>1
    <3>4. /\ Tail(u) \in Seq(Seqs) /\ Len(Tail(u)) = n - 1
          /\ \A i \in 1..(n - 1) : Tail(u)[i] = u[i + 1]
      BY <1>1, <2>2, <3>2
    <3>5. \A i \in 1..(n - 1) : w[i] = Tail(u)[i]
      <4> SUFFICES ASSUME NEW i \in 1..(n - 1) PROVE w[i] = Tail(u)[i]
        OBVIOUS
      <4>1. i \in 1..n /\ 1 + i = i + 1 /\ i + 1 \in 1..n
        BY <1>1
      <4> QED BY <1>2, <3>2, <3>3, <3>4, <4>1
    <3>6. w[n] = v /\ Len(w) = Len(Tail(u)) + 1
      BY <1>1, <1>2, <3>2, <3>3, <3>4
    <3>7. w = Append(Tail(u), v)
      <4> DEFINE t == Tail(u)
      <4>1. /\ t \in Seq(Seqs) /\ Len(w) = Len(t) + 1 /\ w[Len(t) + 1] = v
            /\ \A i \in 1..Len(t) : w[i] = t[i]
        BY <1>1, <3>2, <3>4, <3>5, <3>6
      <4> HIDE DEF t
      <4>2. w = Append(t, v)
        BY <2>4, <4>1, Extended
      <4> QED BY <4>2 DEF t
    <3> QED BY <2>1, <3>1, <3>2, <3>7 DEF Windows!Push, u
  <2>6. CASE ~(position[r] < from)
    <3>1. c = position[r] /\ Len(u) # Limit
      BY <1>1, <1>3, <2>2, <2>3, <2>6 DEF from
    <3>2. Len(w) = Len(u) + 1
      BY <1>1, <2>2, <2>3, <2>4, <3>1
    <3>3. \A i \in 1..Len(u) : w[i] = u[i]
      <4> SUFFICES ASSUME NEW i \in 1..Len(u) PROVE w[i] = u[i]
        OBVIOUS
      <4>0. i \in Nat /\ 1 <= i /\ i <= base + n - c
        BY <2>2, <2>3, <3>1
      <4>1. /\ i \in 1..(base + n - position[r]) /\ i \in 1..(base + n + 1 - c)
            /\ c - base + i \in 1..n /\ c - base + i = position[r] - base + i
        <5>1. base \in Nat /\ n \in Nat /\ c \in Nat /\ base <= c
          BY <1>1, <2>3, <3>1
        <5>2. i \in 1..(base + n - c) /\ i \in 1..(base + n + 1 - c) /\ c - base + i \in 1..n
          BY <4>0, <5>1
        <5> QED BY <3>1, <5>2
      <4>2. w[i] = grown[c - base + i] /\ u[i] = buffer[position[r] - base + i]
        BY <2>2, <2>4, <4>1
      <4> QED BY <1>2, <4>1, <4>2
    <3>4. w[Len(u) + 1] = v
      <4>1. Len(u) + 1 \in 1..(base + n + 1 - c) /\ c - base + (Len(u) + 1) = n + 1
        <5>1. PICK l, d : l = Len(u) /\ d = c - base
          OBVIOUS
        <5>2. /\ base \in Nat /\ n \in Nat /\ c \in Nat /\ base <= c /\ c <= base + n
              /\ l = base + n - c
          BY <1>1, <2>2, <2>3, <3>1, <5>1
        <5>3. l \in Nat /\ d \in Nat /\ n = d + l /\ base + n + 1 - c = l + 1
          BY <5>1, <5>2
        <5>4. l + 1 \in 1..(l + 1) /\ d + (l + 1) = n + 1
          BY <5>3
        <5> QED BY <5>1, <5>3, <5>4
      <4>2. w[Len(u) + 1] = grown[c - base + (Len(u) + 1)]
        BY <2>4, <4>1
      <4> QED BY <1>2, <4>1, <4>2
    <3>5. w = Append(u, v)
      BY <2>2, <2>4, <3>2, <3>3, <3>4, Extended
    <3> QED BY <2>1, <3>1, <3>5 DEF Windows!Push, u
  <2> QED BY <2>5, <2>6
<1>17. ASSUME NEW r \in Readers, r \notin Cursors \/ r \in parked
       PROVE  Unread(r)' = Unread(r)
  <2>1. CASE r \notin Cursors
    BY <1>11, <2>1 DEF Unread
  <2>2. CASE r \in parked
    <3>1. r \in Cursors /\ r \in Cursors' /\ position[r] = End
      BY <1>1, <1>11, <2>2
    <3>2. Unread(r) = << >>
      <4>1. Unread(r) \in Seq(Seqs) /\ Len(Unread(r)) = End - position[r] /\ End \in Nat
        BY <3>1, UnreadIs
      <4> QED BY <3>1, <4>1
    <3>3. position'[r] = base' + Len(buffer')
      BY <1>1, <1>4, <1>9, <1>11, <2>2
    <3>4. Unread(r)' = SubSeq(buffer', position'[r] - base' + 1, Len(buffer'))
      BY <3>1 DEF Unread
    <3>5. SubSeq(buffer', position'[r] - base' + 1, Len(buffer')) = << >>
      <4>1. PICK b \in Nat, l \in Nat : b = base' /\ l = Len(buffer')
        BY <1>10, <1>11
      <4>2. position'[r] - b = l
        BY <3>3, <4>1
      <4> QED BY <1>10, <4>1, <4>2
    <3> QED BY <3>2, <3>4, <3>5
  <2> QED BY <1>17, <2>1, <2>2
<1>18. Windows!Publish(v)
  <2>1. Shown' = [r \in Readers |-> IF r \in Cursors \ parked THEN Windows!Push(Shown[r], v)
                                    ELSE Shown[r]]
    BY <1>1, <1>16, <1>17 DEF Shown
  <2>2. Windows!Opened = Cursors
    BY DEF Windows!Opened, Cursors
  <2> QED BY <1>4, <1>13, <2>1, <2>2 DEF Windows!Publish, Shown
<1> QED BY <1>14, <1>15, <1>18 DEF QInv

-----------------------------------------------------------------------------
(* Sequences of numbers. *)

Elems(s)  == {s[i] : i \in DOMAIN s}
Rising(s) == \A i, j \in DOMAIN s : i < j => s[i] < s[j]

\* One more number, greater than all before it.
LEMMA AppendedNumbers ==
  ASSUME NEW s \in Seq(Seqs), NEW m \in Seqs
  PROVE  /\ Append(s, m) \in Seq(Seqs)
         /\ Elems(Append(s, m)) = Elems(s) \cup {m}
         /\ Rising(s) /\ (\A x \in Elems(s) : x < m) => Rising(Append(s, m))
<1> DEFINE t == Append(s, m)
           n == Len(s)
<1>1. /\ t \in Seq(Seqs) /\ n \in Nat /\ DOMAIN s = 1..n /\ DOMAIN t = 1..(n + 1)
      /\ t[n + 1] = m /\ \A i \in 1..n : t[i] = s[i]
  OBVIOUS
<1> HIDE DEF t, n
<1>2. Elems(t) = Elems(s) \cup {m}
  BY <1>1 DEF Elems
<1>3. ASSUME Rising(s), \A x \in Elems(s) : x < m
      PROVE  Rising(t)
  <2> SUFFICES ASSUME NEW i \in 1..(n + 1), NEW j \in 1..(n + 1), i < j PROVE t[i] < t[j]
    BY <1>1 DEF Rising
  <2>1. i \in 1..n
    BY <1>1
  <2>2. CASE j \in 1..n
    BY <1>1, <1>3, <2>1, <2>2 DEF Rising
  <2>3. CASE j = n + 1
    <3>1. s[i] \in Elems(s)
      BY <1>1, <2>1 DEF Elems
    <3> QED BY <1>1, <1>3, <2>1, <2>3, <3>1
  <2> QED BY <1>1, <2>2, <2>3
<1> QED BY <1>1, <1>2, <1>3 DEF t

\* The filter keeps what is greater than n, in its order (ReplayRing.since; the client's
\* test of an envelope's sequence).
LEMMA AfterIs ==
  ASSUME NEW numbers \in Seq(Seqs), NEW n \in Nat
  PROVE  /\ After(numbers, n) \in Seq(Seqs)
         /\ Elems(After(numbers, n)) = {m \in Elems(numbers) : m > n}
         /\ Rising(numbers) => Rising(After(numbers, n))
<1> DEFINE l == Len(numbers)
           Is(f) == f = [i \in 0..l |->
                           IF i = 0 THEN << >>
                           ELSE IF numbers[i] > n THEN Append(f[i - 1], numbers[i]) ELSE f[i - 1]]
           f == CHOOSE f : Is(f)
<1>1. After(numbers, n) = f[l]
  BY DEF After
<1>2. l \in Nat /\ DOMAIN numbers = 1..l /\ \A i \in 1..l : numbers[i] \in Seqs
  OBVIOUS
<1> HIDE DEF l
<1>3. Is(f)
  <2> DEFINE step == [i \in 1..l |-> [s \in Seq(Seqs) |->
                        IF numbers[i] > n THEN Append(s, numbers[i]) ELSE s]]
  <2>1. step \in [1..l -> [Seq(Seqs) -> Seq(Seqs)]] /\ << >> \in Seq(Seqs)
    BY <1>2
  <2>2. \A i \in 1..l, s \in Seq(Seqs) :
          step[i][s] = IF numbers[i] > n THEN Append(s, numbers[i]) ELSE s
    OBVIOUS
  <2> HIDE DEF step
  <2>3. PICK g \in [0..l -> Seq(Seqs)] :
          g[0] = << >> /\ \A i \in 1..l : g[i] = step[i][g[i - 1]]
    <3> DEFINE A == Seq(Seqs)
               a == << >>
    <3> HIDE DEF A, a, f, Is
    <3>1. a \in A /\ step \in [1..l -> [A -> A]] /\ l \in Nat
      BY <1>2, <2>1 DEF A, a
    <3>2. \E g \in [0..l -> A] : Recurs(g, a, l, step)
      BY ONLY <3>1, Recursion
    <3> QED BY <3>2 DEF A, a, Recurs
  <2>4. ASSUME NEW i \in 0..l
        PROVE  g[i] = IF i = 0 THEN << >>
                      ELSE IF numbers[i] > n THEN Append(g[i - 1], numbers[i]) ELSE g[i - 1]
    <3>1. CASE i = 0
      BY <2>3, <3>1
    <3>2. CASE i # 0
      <4>1. i \in 1..l /\ i - 1 \in 0..l
        BY <1>2, <3>2
      <4> QED BY <2>2, <2>3, <3>2, <4>1
    <3> QED BY <3>1, <3>2
  <2>5. Is(g)
    BY <2>3, <2>4
  <2> HIDE DEF Is
  <2> QED BY <2>5
<1>4. f[0] = << >> /\ \A i \in 1..l : f[i] = IF numbers[i] > n THEN Append(f[i - 1], numbers[i])
                                           ELSE f[i - 1]
  <2>1. 0 \in 0..l /\ \A i \in 1..l : i \in 0..l /\ i # 0
    BY <1>2
  <2> HIDE DEF f
  <2> QED BY <1>3, <2>1
<1> HIDE DEF f, Is
<1> DEFINE Good(k) ==
             /\ f[k] \in Seq(Seqs)
             /\ Elems(f[k]) = {m \in {numbers[i] : i \in 1..k} : m > n}
             /\ Rising(numbers) => Rising(f[k])
           S == {k \in Nat : k <= l => Good(k)}
<1>5. 0 \in S
  <2>1. << >> \in Seq(Seqs) /\ Elems(<< >>) = {} /\ Rising(<< >>)
    BY DEF Elems, Rising
  <2>2. 1..0 = {}
    OBVIOUS
  <2> QED BY <1>4, <2>1, <2>2
<1>6. ASSUME NEW k \in Nat, k \in S
      PROVE  k + 1 \in S
  <2> SUFFICES ASSUME k + 1 <= l PROVE Good(k + 1)
    OBVIOUS
  <2>1. Good(k) /\ k + 1 \in 1..l /\ k + 1 - 1 = k /\ numbers[k + 1] \in Seqs
    BY <1>2, <1>6
  <2>2. 1..(k + 1) = (1..k) \cup {k + 1}
    OBVIOUS
  <2>5. f[k + 1] = IF numbers[k + 1] > n THEN Append(f[k], numbers[k + 1]) ELSE f[k]
    <3>1. PICK i \in 1..l : i = k + 1
      BY <2>1
    <3>2. i - 1 = k
      BY <3>1
    <3>3. f[i] = IF numbers[i] > n THEN Append(f[i - 1], numbers[i]) ELSE f[i - 1]
      BY <1>4
    <3> QED BY ONLY <3>1, <3>2, <3>3
  <2>3. CASE numbers[k + 1] > n
    <3>1. f[k + 1] = Append(f[k], numbers[k + 1])
      BY <2>1, <2>3, <2>5
    <3>2. /\ f[k + 1] \in Seq(Seqs) /\ Elems(f[k + 1]) = Elems(f[k]) \cup {numbers[k + 1]}
          /\ Rising(f[k]) /\ (\A x \in Elems(f[k]) : x < numbers[k + 1]) => Rising(f[k + 1])
      BY <2>1, <3>1, AppendedNumbers
    <3>3. Elems(f[k + 1]) = {m \in {numbers[i] : i \in 1..(k + 1)} : m > n}
      BY <2>1, <2>2, <2>3, <3>2
    <3>4. Rising(numbers) => \A x \in Elems(f[k]) : x < numbers[k + 1]
      <4> SUFFICES ASSUME Rising(numbers), NEW i \in 1..k PROVE numbers[i] < numbers[k + 1]
        BY <2>1
      <4> QED BY <1>2, <2>1 DEF Rising
    <3> QED BY <2>1, <3>2, <3>3, <3>4
  <2>4. CASE ~(numbers[k + 1] > n)
    <3>1. f[k + 1] = f[k]
      BY <2>1, <2>4, <2>5
    <3>2. {m \in {numbers[i] : i \in 1..(k + 1)} : m > n} = {m \in {numbers[i] : i \in 1..k} : m > n}
      BY <2>2, <2>4
    <3> QED BY <2>1, <3>1, <3>2
  <2> QED BY <2>3, <2>4
<1>7. Nat \subseteq S
  <2> HIDE DEF S
  <2> QED BY <1>5, <1>6, Induction
<1>8. Good(l)
  <2> HIDE DEF Good
  <2>1. l \in S
    BY <1>2, <1>7
  <2> QED BY <1>2, <2>1
<1>9. Elems(numbers) = {numbers[i] : i \in 1..l}
  BY <1>2 DEF Elems
<1> QED BY <1>1, <1>8, <1>9

-----------------------------------------------------------------------------
(* The transport: what is under way is what was sent and not yet handed over. *)

TransportTypes ==
  /\ kind \in {"memory", "socket"} /\ error \in BOOLEAN /\ closed \in BOOLEAN
  /\ call \in {"idle", "parked", "frame", "end", "error"}
  /\ sent \in Seq(Frame) /\ taken \in Nat /\ wire \in Seq(Frame)
  /\ inbox \in Seq(Frame \cup {Last})

\* A closed half has its null at the end of its inbox until it is taken.
LastQueued == kind = "memory" /\ closed /\ call # "end"

\* The frames in the inbox.
Arrived == IF LastQueued THEN Len(inbox) - 1 ELSE Len(inbox)

\* The inbox, and then what the socket still brings, go on where recv() stands.
Flow ==
  /\ taken + Arrived <= Len(sent)
  /\ \A i \in 1..Arrived : inbox[i] = sent[taken + i]
  /\ LastQueued => inbox # << >> /\ inbox[Len(inbox)] = Last
  /\ ~error => /\ taken + Arrived + Len(wire) = Len(sent)
               /\ \A i \in 1..Len(wire) : wire[i] = sent[taken + Arrived + i]

Ending ==
  /\ kind = "memory" => wire = << >> /\ ~error
  /\ closed => wire = << >>
  /\ call = "parked" => inbox = << >> /\ ~closed /\ ~error
  /\ kind = "memory" /\ call = "end" => closed
  /\ handed = IF taken = 0 THEN None ELSE sent[taken]
  /\ call = "frame" => taken # 0

TInv == TransportTypes /\ Flow /\ Ending

\* How many frames of the connection the client has begun to process.
Processed == IF call = "frame" THEN taken - 1 ELSE taken

\* The numbers the steps count with.
LEMMA Counts ==
  ASSUME TInv
  PROVE  /\ Arrived \in Nat /\ Len(sent) \in Nat /\ Len(inbox) \in Nat /\ Len(wire) \in Nat
         /\ \A i \in 1..Arrived : inbox[i] \in Frame /\ inbox[i] # Last
         /\ LastQueued => Len(inbox) = Arrived + 1
         /\ ~LastQueued => Len(inbox) = Arrived
         /\ wire = << >> <=> Len(wire) = 0
         /\ inbox = << >> <=> Len(inbox) = 0
<1>1. Len(sent) \in Nat /\ Len(inbox) \in Nat /\ Len(wire) \in Nat
      /\ (wire = << >> <=> Len(wire) = 0) /\ (inbox = << >> <=> Len(inbox) = 0)
  BY DEF TInv, TransportTypes
<1>2. Arrived \in Nat /\ (LastQueued => Len(inbox) = Arrived + 1)
      /\ (~LastQueued => Len(inbox) = Arrived)
  BY <1>1 DEF TInv, Flow, Arrived
<1>3. ASSUME NEW i \in 1..Arrived
      PROVE  inbox[i] \in Frame /\ inbox[i] # Last
  <2>1. inbox[i] = sent[taken + i] /\ taken + i \in 1..Len(sent)
    BY <1>1, <1>2 DEF TInv, Flow, TransportTypes
  <2>2. sent[taken + i] \in Frame
    BY <2>1 DEF TInv, TransportTypes
  <2> QED BY <2>1, <2>2, DeliveryAssumption
<1> QED BY <1>1, <1>2, <1>3

\* A new transport satisfies the invariant.
LEMMA TransportStarts == TransportInit => TInv /\ Frames!Init
<1> SUFFICES ASSUME TransportInit PROVE TInv /\ Frames!Init
  OBVIOUS
<1>1. << >> \in Seq(Frame) /\ << >> \in Seq(Frame \cup {Last})
  OBVIOUS
<1>2. TransportTypes
  BY <1>1 DEF TransportInit, TransportTypes
<1>3. ~LastQueued /\ Arrived = 0
  BY DEF TransportInit, LastQueued, Arrived
<1>4. Flow
  BY <1>3 DEF TransportInit, Flow
<1>5. Ending
  BY DEF TransportInit, Ending
<1>6. Frames!Init
  BY DEF TransportInit, Frames!Init
<1> QED BY <1>2, <1>4, <1>5, <1>6 DEF TInv

\* And so does a transport that has taken the place of another.
LEMMA AttachStep ==
  ASSUME NEW k \in {"memory", "socket"}, Attach(k)
  PROVE  TInv' /\ Frames!Renew
<1>1. /\ kind' = k /\ wire' = << >> /\ inbox' = << >> /\ error' = FALSE /\ closed' = FALSE
      /\ call' = "parked" /\ handed' = None /\ sent' = << >> /\ taken' = 0
  BY DEF Attach
<1>2. << >> \in Seq(Frame) /\ << >> \in Seq(Frame \cup {Last})
  OBVIOUS
<1>3. TransportTypes'
  BY <1>1, <1>2 DEF TransportTypes
<1>4. ~LastQueued' /\ Arrived' = 0
  BY <1>1 DEF LastQueued, Arrived
<1>5. Flow'
  BY <1>1, <1>4 DEF Flow
<1>6. Ending'
  BY <1>1 DEF Ending
<1>7. Frames!Renew
  BY <1>1 DEF Frames!Renew
<1> QED BY <1>3, <1>5, <1>6, <1>7 DEF TInv

\* recv(): what has arrived, then the error, then the end.
LEMMA RecvStep ==
  ASSUME TInv, Recv, call \in {"idle", "frame"}
  PROVE  TInv' /\ [Frames!Next]_(Frames!vars) /\ Processed' = taken
<1> DEFINE k == Arrived
<1>1. /\ UNCHANGED <<kind, wire, error, closed, sent>>
      /\ call # "end" /\ call # "error" /\ call # "parked"
  BY DEF Recv
<1>2. /\ k \in Nat /\ Len(sent) \in Nat /\ Len(inbox) \in Nat /\ Len(wire) \in Nat /\ taken \in Nat
      /\ \A i \in 1..k : inbox[i] \in Frame /\ inbox[i] # Last /\ inbox[i] = sent[taken + i]
      /\ LastQueued => Len(inbox) = k + 1 /\ inbox[Len(inbox)] = Last
      /\ ~LastQueued => Len(inbox) = k
      /\ inbox \in Seq(Frame \cup {Last}) /\ taken + k <= Len(sent)
      /\ ~error => /\ taken + k + Len(wire) = Len(sent)
                   /\ \A i \in 1..Len(wire) : wire[i] = sent[taken + k + i]
  BY Counts DEF TInv, Flow, TransportTypes
<1> HIDE DEF k
<1>3. Processed' = taken
  <2>1. \/ call' = "frame" /\ taken' = taken + 1
        \/ call' # "frame" /\ taken' = taken
    BY DEF Recv, Resolve
  <2>2. taken \in Nat
    BY <1>2
  <2> QED BY ONLY <2>1, <2>2 DEF Processed
<1> SUFFICES TInv' /\ [Frames!Next]_(Frames!vars)
  BY <1>3
<1>4. CASE inbox # << >> /\ Head(inbox) = Last
  <2>1. call' = "end" /\ inbox' = Tail(inbox) /\ UNCHANGED <<handed, taken>>
    BY <1>4 DEF Recv, Resolve
  <2>2. Head(inbox) = inbox[1] /\ 1 <= Len(inbox)
    BY <1>2, <1>4
  <2>3. k = 0 /\ LastQueued /\ Len(inbox) = 1
    <3>1. k = 0
      <4>1. ~(1 \in 1..k)
        BY <1>2, <1>4, <2>2
      <4>2. k \in Nat
        BY <1>2
      <4> QED BY ONLY <4>1, <4>2
    <3>2. /\ k \in Nat /\ Len(inbox) \in Nat /\ (LastQueued => Len(inbox) = k + 1)
          /\ (~LastQueued => Len(inbox) = k)
      BY <1>2
    <3> QED BY ONLY <2>2, <3>1, <3>2
  <2>4. inbox' = << >> /\ wire = << >> /\ ~error /\ taken = Len(sent)
    <3>1. inbox' = << >>
      BY <1>2, <2>1, <2>3
    <3>2. wire = << >> /\ ~error
      BY <2>3 DEF TInv, Ending, LastQueued
    <3>3. Len(wire) = 0
      BY <3>2
    <3> QED BY <1>2, <2>3, <3>1, <3>2, <3>3
  <2>5. ~LastQueued' /\ Arrived' = 0
    BY <2>1, <2>4 DEF LastQueued, Arrived
  <2>6. TransportTypes'
    <3>1. << >> \in Seq(Frame \cup {Last})
      OBVIOUS
    <3> QED BY <1>1, <2>1, <2>4, <3>1 DEF TransportTypes, TInv
  <2>7. Flow'
    <3>1. Len(wire) = 0
      BY <2>4
    <3> QED BY <1>1, <1>2, <2>1, <2>4, <2>5, <3>1 DEF Flow
  <2>8. Ending'
    BY <1>1, <2>1, <2>3, <2>4 DEF Ending, TInv, LastQueued
  <2>9. Frames!Finish
    BY <1>1, <2>1, <2>4 DEF Frames!Finish
  <2> QED BY <2>6, <2>7, <2>8, <2>9 DEF TInv, Frames!Next
<1>5. CASE inbox # << >> /\ Head(inbox) # Last
  <2>1. call' = "frame" /\ handed' = Head(inbox) /\ taken' = taken + 1 /\ inbox' = Tail(inbox)
    BY <1>5 DEF Recv, Resolve
  <2>2. Head(inbox) = inbox[1] /\ 1 <= Len(inbox)
    BY <1>2, <1>5
  <2>3. k >= 1 /\ inbox[1] = sent[taken + 1]
    <3>1. k # 0
      BY <1>2, <1>5, <2>2
    <3> QED BY <1>2, <3>1
  <2>4. /\ inbox' \in Seq(Frame \cup {Last}) /\ Len(inbox') = Len(inbox) - 1
        /\ \A i \in 1..(Len(inbox) - 1) : inbox'[i] = inbox[i + 1]
    BY <1>2, <1>5, <2>1
  <2>5. (LastQueued' <=> LastQueued) /\ Arrived' = k - 1
    <3>1. LastQueued' <=> LastQueued
      BY <1>1, <2>1 DEF LastQueued
    <3>2. Arrived' = IF LastQueued THEN Len(inbox') - 1 ELSE Len(inbox')
      BY <3>1 DEF Arrived
    <3>3. /\ k \in Nat /\ Len(inbox) \in Nat /\ (LastQueued => Len(inbox) = k + 1)
          /\ (~LastQueued => Len(inbox) = k) /\ Len(inbox') = Len(inbox) - 1
      BY <1>2, <2>4
    <3> QED BY ONLY <3>1, <3>2, <3>3
  <2>6. TransportTypes'
    <3>1. taken' \in Nat
      BY <1>2, <2>1
    <3> QED BY <1>1, <2>1, <2>4, <3>1 DEF TransportTypes, TInv
  <2>7. Flow'
    <3>1. taken' + Arrived' = taken + k
      BY <1>2, <2>1, <2>3, <2>5
    <3>2. ASSUME NEW i \in 1..(k - 1)
          PROVE  inbox'[i] = sent[taken' + i]
      <4>1. i \in 1..(Len(inbox) - 1) /\ i + 1 \in 1..k /\ taken + (i + 1) = taken + 1 + i
        BY <1>2
      <4>2. inbox[i + 1] = sent[taken + (i + 1)]
        BY <1>2, <4>1
      <4> QED BY <2>1, <2>4, <4>1, <4>2
    <3>3. LastQueued' => inbox' # << >> /\ inbox'[Len(inbox')] = Last
      <4> SUFFICES ASSUME LastQueued PROVE inbox' # << >> /\ inbox'[Len(inbox')] = Last
        BY <2>5
      <4>1. Len(inbox) = k + 1 /\ Len(inbox') = k /\ k \in 1..(Len(inbox) - 1)
        BY <1>2, <2>3, <2>4
      <4>2. inbox'[k] = inbox[k + 1]
        BY <2>4, <4>1
      <4> QED BY <1>2, <2>3, <4>1, <4>2
    <3> QED BY <1>1, <1>2, <2>5, <3>1, <3>2, <3>3 DEF Flow
  <2>8. Ending'
    <3>1. taken' # 0 /\ taken' = taken + 1 /\ handed' = sent[taken']
      BY <1>2, <2>1, <2>2, <2>3
    <3> QED BY <1>1, <2>1, <3>1 DEF Ending, TInv
  <2>9. Frames!Get
    <3>1. taken < Len(sent)
      BY <1>2, <2>3
    <3> QED BY <1>1, <2>1, <2>2, <2>3, <3>1 DEF Frames!Get, Frames!Advance
  <2> QED BY <2>6, <2>7, <2>8, <2>9 DEF TInv, Frames!Next
<1>6. CASE inbox = << >>
  <2>1. /\ call' = IF error THEN "error" ELSE IF closed THEN "end" ELSE "parked"
        /\ UNCHANGED <<inbox, handed, taken>>
    BY <1>6 DEF Recv
  <2>2. k = 0 /\ ~LastQueued /\ Len(inbox) = 0
    <3>1. Len(inbox) = 0
      BY <1>6
    <3> QED BY <1>2, <3>1
  <2>3. kind # "memory" \/ ~closed
    BY <1>1, <2>2 DEF LastQueued
  <2>4. ~LastQueued' /\ Arrived' = 0
    BY <1>1, <2>1, <2>2, <2>3 DEF LastQueued, Arrived
  <2>5. TransportTypes'
    BY <1>1, <2>1 DEF TransportTypes, TInv
  <2>6. Flow'
    BY <1>1, <1>2, <2>1, <2>2, <2>4 DEF Flow
  <2>7. Ending'
    BY <1>1, <1>6, <2>1, <2>3 DEF Ending, TInv, TransportTypes
  <2>8. CASE error
    <3>1. Frames!Break
      BY <1>1, <2>1, <2>8 DEF Frames!Break
    <3> QED BY <2>5, <2>6, <2>7, <3>1 DEF TInv, Frames!Next
  <2>9. CASE ~error /\ closed
    <3>1. Len(wire) = 0
      BY <2>9 DEF TInv, Ending
    <3>2. taken = Len(sent)
      BY <1>2, <2>2, <2>9, <3>1
    <3>3. Frames!Finish
      BY <1>1, <2>1, <2>9, <3>2 DEF Frames!Finish
    <3> QED BY <2>5, <2>6, <2>7, <3>3 DEF TInv, Frames!Next
  <2>10. CASE ~error /\ ~closed
    <3>1. UNCHANGED Frames!vars
      BY <1>1, <2>1, <2>10 DEF Frames!vars
    <3> QED BY <2>5, <2>6, <2>7, <3>1 DEF TInv
  <2> QED BY <2>8, <2>9, <2>10
<1> QED BY <1>4, <1>5, <1>6

\* #deliver: the frame goes to the one who waits, or behind what has arrived before it.
LEMMA DeliverStep ==
  ASSUME TInv, NEW f \in Frame, Deliver(f), ~closed, ~error, UNCHANGED <<kind, closed, error>>,
         sent' \in Seq(Frame), wire' \in Seq(Frame), kind = "memory" => wire' = << >>,
         taken + Arrived + 1 + Len(wire') = Len(sent'),
         \A i \in 1..(taken + Arrived) : sent'[i] = sent[i],
         sent'[taken + Arrived + 1] = f,
         \A i \in 1..Len(wire') : wire'[i] = sent'[taken + Arrived + 1 + i]
  PROVE  /\ Frames!Advance(sent') \/ UNCHANGED <<taken, handed>>
         /\ TInv'
         /\ call' = call \/ (call = "parked" /\ call' = "frame")
         /\ call' = call => UNCHANGED <<taken, handed>>
         /\ Processed' = Processed
<1> DEFINE k == Arrived
<1>1. /\ k \in Nat /\ Len(sent) \in Nat /\ Len(inbox) \in Nat /\ Len(wire) \in Nat /\ taken \in Nat
      /\ \A i \in 1..k : inbox[i] \in Frame /\ inbox[i] = sent[taken + i]
      /\ ~LastQueued /\ Len(inbox) = k /\ ~LastQueued'
      /\ inbox \in Seq(Frame \cup {Last}) /\ taken + k <= Len(sent)
      /\ Len(wire') \in Nat /\ Len(sent') \in Nat
  <2>1. ~LastQueued /\ ~LastQueued'
    BY DEF LastQueued
  <2> QED BY <2>1, Counts DEF TInv, Flow, TransportTypes
<1> HIDE DEF k
<1>2. f # Last
  BY DeliveryAssumption
<1>3. CASE call = "parked"
  <2>1. /\ call' = "frame" /\ handed' = f /\ taken' = taken + 1 /\ inbox' = inbox
        /\ inbox = << >> /\ k = 0
    <3>1. inbox = << >> /\ Len(inbox) = 0
      BY <1>3 DEF TInv, Ending
    <3> QED BY <1>1, <1>2, <1>3, <3>1 DEF Deliver, Resolve
  <2>2. /\ taken' = taken + 1 /\ taken' \in Nat /\ taken' # 0 /\ sent'[taken + 1] = f
        /\ taken' + 0 + Len(wire') = Len(sent') /\ taken < Len(sent')
        /\ \A i \in 1..Len(wire') : wire'[i] = sent'[taken' + 0 + i]
    <3>1. taken + k + 1 = taken + 1
      BY <1>1, <2>1
    <3>2. /\ taken + 1 + Len(wire') = Len(sent') /\ sent'[taken + 1] = f
          /\ \A i \in 1..Len(wire') : wire'[i] = sent'[taken + 1 + i]
      BY <3>1 DEF k
    <3>3. taken' + 0 = taken + 1
      BY <1>1, <2>1
    <3> QED BY <1>1, <2>1, <3>2, <3>3
  <2>3. Arrived' = 0
    BY <1>1, <2>1 DEF Arrived
  <2>4. TransportTypes'
    BY <2>1, <2>2 DEF TransportTypes, TInv
  <2>5. Flow'
    BY <1>1, <2>1, <2>2, <2>3 DEF Flow
  <2>6. Ending'
    BY <2>1, <2>2 DEF Ending
  <2>7. Frames!Advance(sent')
    BY <2>1, <2>2 DEF Frames!Advance
  <2>8. Processed' = Processed
    BY <1>1, <1>3, <2>1 DEF Processed
  <2> QED BY <1>3, <2>1, <2>4, <2>5, <2>6, <2>7, <2>8 DEF TInv
<1>4. CASE call # "parked"
  <2>1. inbox' = Append(inbox, f) /\ UNCHANGED <<call, handed, taken>>
    BY <1>4 DEF Deliver
  <2>2. /\ inbox' \in Seq(Frame \cup {Last}) /\ Len(inbox') = k + 1 /\ inbox'[k + 1] = f
        /\ \A i \in 1..k : inbox'[i] = inbox[i]
    BY <1>1, <2>1
  <2>3. Arrived' = k + 1
    BY <1>1, <2>2 DEF Arrived
  <2>4. TransportTypes'
    BY <2>1, <2>2 DEF TransportTypes, TInv
  <2>5. Flow'
    <3>1. taken + k + 1 = taken + (k + 1)
      BY <1>1
    <3>2. /\ taken' + Arrived' + Len(wire') = Len(sent') /\ taken' + Arrived' <= Len(sent')
          /\ \A i \in 1..Len(wire') : wire'[i] = sent'[taken' + Arrived' + i]
      <4>1. /\ taken + (k + 1) + Len(wire') = Len(sent')
            /\ \A i \in 1..Len(wire') : wire'[i] = sent'[taken + (k + 1) + i]
        BY <3>1 DEF k
      <4> QED BY <1>1, <2>1, <2>3, <4>1
    <3>3. ASSUME NEW i \in 1..(k + 1)
          PROVE  inbox'[i] = sent'[taken + i]
      <4>1. CASE i = k + 1
        BY <2>2, <3>1, <4>1 DEF k
      <4>2. CASE i # k + 1
        <5>1. i \in 1..k /\ taken + i \in 1..(taken + k)
          <6>1. taken \in Nat /\ k \in Nat /\ i \in 1..(k + 1)
            BY <1>1
          <6> QED BY ONLY <4>2, <6>1
        <5>2. sent'[taken + i] = sent[taken + i]
          BY <5>1 DEF k
        <5> QED BY <1>1, <2>2, <5>1, <5>2
      <4> QED BY <4>1, <4>2
    <3> QED BY <1>1, <2>1, <2>3, <3>2, <3>3 DEF Flow
  <2>6. Ending'
    <3>1. taken # 0 => sent'[taken] = sent[taken]
      <4>1. taken # 0 => taken \in 1..(taken + k)
        BY <1>1
      <4> QED BY <4>1 DEF k
    <3> QED BY <1>4, <2>1, <3>1 DEF Ending, TInv
  <2> QED BY <2>1, <2>4, <2>5, <2>6 DEF TInv, Processed
<1> QED BY <1>3, <1>4

\* A frame is sent: in memory it is there at once, a socket has it to bring.
LEMMA SendStep ==
  ASSUME TInv, NEW f \in Frame, Send(f), ~closed
  PROVE  TInv' /\ Frames!Put /\ Processed' = Processed
<1> DEFINE k == Arrived
           n == Len(sent)
<1>1. sent' = Append(sent, f) /\ UNCHANGED <<kind, error, closed>>
  BY DEF Send
<1>2. /\ k \in Nat /\ n \in Nat /\ taken \in Nat /\ Len(wire) \in Nat /\ sent \in Seq(Frame)
      /\ wire \in Seq(Frame) /\ taken + k <= n /\ kind \in {"memory", "socket"}
      /\ \A i \in 1..k : inbox[i] = sent[taken + i]
      /\ ~error => /\ taken + k + Len(wire) = n
                   /\ \A i \in 1..Len(wire) : wire[i] = sent[taken + k + i]
  BY Counts DEF TInv, Flow, TransportTypes
<1>3. /\ sent' \in Seq(Frame) /\ Len(sent') = n + 1 /\ sent'[n + 1] = f
      /\ \A i \in 1..n : sent'[i] = sent[i]
      /\ SubSeq(sent', 1, n) = sent
  BY <1>1, <1>2
<1> HIDE DEF k, n
<1>4. CASE kind = "memory"
  <2>1. Deliver(f) /\ UNCHANGED wire
    BY <1>4 DEF Send
  <2>2. wire = << >> /\ ~error
    BY <1>4 DEF TInv, Ending
  <2>3. Len(wire) = 0
    BY <2>2
  <2>4. taken + k = n
    BY <1>2, <2>2, <2>3
  <2>5. /\ taken + k + 1 + Len(wire') = Len(sent') /\ sent'[taken + k + 1] = f
        /\ \A i \in 1..(taken + k) : sent'[i] = sent[i]
    BY <1>2, <1>3, <2>1, <2>3, <2>4
  <2>6. \A i \in 1..Len(wire') : FALSE
    BY <2>1, <2>3
  <2>7. /\ Frames!Advance(sent') \/ UNCHANGED <<taken, handed>>
        /\ TInv' /\ (call' = call \/ (call = "parked" /\ call' = "frame"))
        /\ Processed' = Processed
    BY <1>1, <1>2, <1>3, <2>1, <2>2, <2>5, <2>6, DeliverStep DEF k
  <2> QED BY <1>3, <2>7 DEF Frames!Put, n
<1>5. CASE kind = "socket"
  <2>1. wire' = Append(wire, f) /\ UNCHANGED <<inbox, call, handed, taken>>
    BY <1>5 DEF Send
  <2>2. /\ wire' \in Seq(Frame) /\ Len(wire') = Len(wire) + 1 /\ wire'[Len(wire) + 1] = f
        /\ \A i \in 1..Len(wire) : wire'[i] = wire[i]
    BY <1>2, <2>1
  <2>3. (LastQueued' <=> LastQueued) /\ Arrived' = k
    BY <1>1, <2>1 DEF LastQueued, Arrived, k
  <2>4. TransportTypes'
    BY <1>1, <1>3, <2>1, <2>2 DEF TransportTypes, TInv
  <2>5. Flow'
    <3>1. \A i \in 1..k : inbox[i] = sent'[taken + i]
      <4>1. \A i \in 1..k : taken + i \in 1..n
        BY <1>2
      <4> QED BY <1>2, <1>3, <4>1
    <3>2. ASSUME ~error
          PROVE  /\ taken + k + Len(wire') = Len(sent')
                 /\ \A i \in 1..Len(wire') : wire'[i] = sent'[taken + k + i]
      <4>1. taken + k + Len(wire) = n /\ taken + k + Len(wire') = Len(sent')
        <5>1. /\ taken \in Nat /\ k \in Nat /\ Len(wire) \in Nat /\ n \in Nat
              /\ taken + k + Len(wire) = n
          BY <1>2, <3>2
        <5> QED BY ONLY <5>1, <1>3, <2>2
      <4>2. ASSUME NEW i \in 1..Len(wire')
            PROVE  wire'[i] = sent'[taken + k + i]
        <5>1. CASE i = Len(wire) + 1
          <6>1. taken + k + i = n + 1
            BY <1>2, <4>1, <5>1
          <6> QED BY <1>3, <2>2, <5>1, <6>1
        <5>2. CASE i # Len(wire) + 1
          <6>1. i \in 1..Len(wire) /\ taken + k + i \in 1..n
            BY <1>2, <2>2, <4>1, <5>2
          <6> QED BY <1>2, <1>3, <2>2, <3>2, <6>1
        <5> QED BY <5>1, <5>2
      <4> QED BY <4>1, <4>2
    <3>3. taken + k <= Len(sent')
      BY <1>2, <1>3
    <3>4. LastQueued' => inbox' # << >> /\ inbox'[Len(inbox')] = Last
      BY <2>1, <2>3 DEF TInv, Flow
    <3> QED BY <1>1, <2>1, <2>3, <3>1, <3>2, <3>3, <3>4 DEF Flow
  <2>6. Ending'
    <3>1. taken # 0 => sent'[taken] = sent[taken]
      BY <1>2, <1>3
    <3> QED BY <1>1, <1>5, <2>1, <3>1 DEF Ending, TInv
  <2>7. Frames!Put
    BY <1>3, <2>1 DEF Frames!Put, n
  <2> QED BY <2>1, <2>4, <2>5, <2>6, <2>7 DEF TInv, Processed
<1> QED BY <1>2, <1>4, <1>5

\* close() of a memory transport: whoever waits has the end at once, else it is queued.
LEMMA CloseMemoryStep ==
  ASSUME TInv, CloseMemory
  PROVE  TInv' /\ [Frames!Next]_(Frames!vars) /\ UNCHANGED sent /\ Processed' = Processed
<1> DEFINE k == Arrived
<1>1. /\ kind = "memory" /\ ~closed /\ closed' = TRUE /\ UNCHANGED <<kind, wire, error, sent>>
      /\ Deliver(Last)
  BY DEF CloseMemory
<1>2. /\ k \in Nat /\ Len(sent) \in Nat /\ Len(wire) \in Nat /\ taken \in Nat
      /\ \A i \in 1..k : inbox[i] = sent[taken + i]
      /\ ~LastQueued /\ Len(inbox) = k
      /\ inbox \in Seq(Frame \cup {Last}) /\ taken + k = Len(sent)
      /\ wire = << >> /\ ~error /\ Len(wire) = 0 /\ call # "end"
  <2>1. ~LastQueued
    BY <1>1 DEF LastQueued
  <2>2. wire = << >> /\ ~error /\ call # "end"
    BY <1>1 DEF TInv, Ending
  <2>3. Len(wire) = 0
    BY <2>2
  <2>4. k \in Nat /\ taken \in Nat /\ taken + k + Len(wire) = Len(sent)
    BY <2>2, Counts DEF TInv, Flow, TransportTypes
  <2> QED BY <2>1, <2>2, <2>3, <2>4, Counts DEF TInv, Flow, TransportTypes
<1> HIDE DEF k
<1>3. CASE call = "parked"
  <2>1. call' = "end" /\ inbox' = inbox /\ UNCHANGED <<handed, taken>> /\ inbox = << >> /\ k = 0
    <3>1. inbox = << >> /\ Len(inbox) = 0
      BY <1>3 DEF TInv, Ending
    <3> QED BY <1>1, <1>2, <1>3, <3>1 DEF Deliver, Resolve
  <2>2. ~LastQueued' /\ Arrived' = 0
    BY <1>2, <2>1 DEF LastQueued, Arrived
  <2>3. TransportTypes'
    BY <1>1, <2>1 DEF TransportTypes, TInv
  <2>4. Flow'
    BY <1>1, <1>2, <2>1, <2>2 DEF Flow
  <2>5. Ending'
    BY <1>1, <1>2, <2>1 DEF Ending, TInv
  <2>6. Frames!Finish
    BY <1>1, <1>2, <1>3, <2>1 DEF Frames!Finish
  <2>7. Processed' = Processed
    BY <1>3, <2>1 DEF Processed
  <2> QED BY <1>1, <2>3, <2>4, <2>5, <2>6, <2>7 DEF TInv, Frames!Next
<1>4. CASE call # "parked"
  <2>1. inbox' = Append(inbox, Last) /\ UNCHANGED <<call, handed, taken>>
    BY <1>1, <1>4 DEF Deliver
  <2>2. /\ inbox' \in Seq(Frame \cup {Last}) /\ Len(inbox') = k + 1 /\ inbox'[k + 1] = Last
        /\ \A i \in 1..k : inbox'[i] = inbox[i] /\ inbox' # << >>
    BY <1>2, <2>1
  <2>3. LastQueued' /\ Arrived' = k
    BY <1>1, <1>2, <2>1, <2>2 DEF LastQueued, Arrived
  <2>4. TransportTypes'
    BY <1>1, <2>1, <2>2 DEF TransportTypes, TInv
  <2>5. inbox' # << >> /\ inbox'[Len(inbox')] = Last
    <3>1. Len(inbox') # 0
      BY <1>2, <2>2
    <3> QED BY <2>2, <3>1
  <2>6. Flow'
    BY <1>1, <1>2, <2>1, <2>2, <2>3, <2>5 DEF Flow
  <2>7. Ending'
    BY <1>1, <1>2, <1>4, <2>1 DEF Ending, TInv
  <2>8. UNCHANGED Frames!vars
    BY <1>1, <2>1 DEF Frames!vars
  <2>9. Processed' = Processed
    BY <2>1 DEF Processed
  <2> QED BY <1>1, <2>4, <2>6, <2>7, <2>8, <2>9 DEF TInv
<1> QED BY <1>3, <1>4

\* After an error what is still under way is of no account.
LEMMA FailStep ==
  ASSUME TInv, Quiet, Fail, UNCHANGED <<kind, inbox, handed, taken, sent>>,
         wire' \in Seq(Frame), closed' \in BOOLEAN, closed' => wire' = << >>
  PROVE  TInv' /\ [Frames!Next]_(Frames!vars) /\ Processed' = Processed
<1>1. /\ kind = "socket" /\ ~error /\ call \in {"idle", "parked"} /\ error' = TRUE
      /\ call' = IF call = "parked" THEN "error" ELSE call
  BY DEF Quiet, Fail
<1>2. ~LastQueued /\ ~LastQueued' /\ Arrived = Len(inbox) /\ Arrived' = Len(inbox)
  BY <1>1 DEF LastQueued, Arrived
<1>3. TransportTypes'
  BY <1>1 DEF TransportTypes, TInv
<1>4. Flow'
  BY <1>1, <1>2 DEF Flow, TInv
<1>5. Ending'
  BY <1>1 DEF Ending, TInv
<1>6. [Frames!Next]_(Frames!vars)
  <2>1. CASE call = "parked"
    <3>1. Frames!Break
      BY <1>1, <2>1 DEF Frames!Break
    <3> QED BY <3>1 DEF Frames!Next
  <2>2. CASE call # "parked"
    BY <1>1, <2>2 DEF Frames!vars
  <2> QED BY <2>1, <2>2
<1>7. Processed' = Processed
  BY <1>1 DEF Processed
<1> QED BY <1>3, <1>4, <1>5, <1>6, <1>7 DEF TInv

\* A message event: the next frame, or one that cannot be decoded.
LEMMA MessageStep ==
  ASSUME TInv, MessageEvent
  PROVE  TInv' /\ [Frames!Next]_(Frames!vars) /\ UNCHANGED sent /\ Processed' = Processed
<1> DEFINE k == Arrived
<1>1. /\ Quiet /\ wire # << >> /\ wire' = Tail(wire) /\ UNCHANGED <<kind, closed, sent>>
      /\ kind = "socket" /\ ~closed /\ ~error /\ call \in {"idle", "parked"}
  BY DEF MessageEvent, Quiet
<1>2. /\ k \in Nat /\ Len(sent) \in Nat /\ Len(wire) \in Nat /\ taken \in Nat
      /\ wire \in Seq(Frame) /\ taken + k + Len(wire) = Len(sent) /\ sent \in Seq(Frame)
      /\ \A i \in 1..Len(wire) : wire[i] = sent[taken + k + i]
  BY <1>1, Counts DEF TInv, Flow, TransportTypes
<1>3. /\ Len(wire) >= 1 /\ Head(wire) = wire[1] /\ Head(wire) \in Frame
      /\ wire' \in Seq(Frame) /\ Len(wire') = Len(wire) - 1
      /\ \A i \in 1..(Len(wire) - 1) : wire'[i] = wire[i + 1]
  BY <1>1, <1>2
<1> HIDE DEF k
<1>4. CASE Deliver(Head(wire)) /\ UNCHANGED error
  <2>1. taken + k + 1 + Len(wire') = Len(sent) /\ sent[taken + k + 1] = Head(wire)
    <3>1. 1 \in 1..Len(wire)
      BY <1>2, <1>3
    <3>2. wire[1] = sent[taken + k + 1]
      BY <1>2, <3>1
    <3>3. /\ k \in Nat /\ Len(wire) \in Nat /\ taken \in Nat /\ taken + k + Len(wire) = Len(sent)
          /\ Len(wire') = Len(wire) - 1
      BY <1>2, <1>3
    <3>4. taken + k + 1 + Len(wire') = Len(sent)
      BY ONLY <3>3
    <3> QED BY <1>3, <3>2, <3>4
  <2>2. ASSUME NEW i \in 1..Len(wire')
        PROVE  wire'[i] = sent[taken + k + 1 + i]
    <3>1. i \in 1..(Len(wire) - 1) /\ i + 1 \in 1..Len(wire) /\ taken + k + (i + 1) = taken + k + 1 + i
      BY <1>2, <1>3
    <3>2. wire[i + 1] = sent[taken + k + (i + 1)]
      BY <1>2, <3>1
    <3> QED BY <1>3, <3>1, <3>2
  <2>3. /\ Frames!Advance(sent') \/ UNCHANGED <<taken, handed>>
        /\ TInv'
        /\ call' = call \/ (call = "parked" /\ call' = "frame")
        /\ call' = call => UNCHANGED <<taken, handed>>
        /\ Processed' = Processed
    BY <1>1, <1>2, <1>3, <1>4, <2>1, <2>2, DeliverStep DEF k
  <2>4. CASE call' = call
    <3>1. UNCHANGED Frames!vars
      BY <1>1, <2>3, <2>4 DEF Frames!vars
    <3> QED BY <1>1, <2>3, <2>4, <3>1
  <2>5. CASE call' # call
    <3>1. call = "parked" /\ call' = "frame" /\ taken' = taken + 1 /\ handed' = Head(wire)
      BY <1>4, <2>3, <2>5, <1>3, DeliveryAssumption DEF Deliver, Resolve
    <3>2. Frames!Advance(sent)
      BY <1>1, <1>2, <2>3, <3>1 DEF Frames!Advance
    <3>3. Frames!Get
      BY <1>1, <3>1, <3>2 DEF Frames!Get
    <3> QED BY <1>1, <2>3, <3>1, <3>3 DEF Frames!Next
  <2> QED BY <2>4, <2>5
<1>5. CASE Fail /\ UNCHANGED <<inbox, handed, taken>>
  <2>1. closed' \in BOOLEAN /\ (closed' => wire' = << >>)
    BY <1>1 DEF TInv, TransportTypes
  <2> QED BY <1>1, <1>3, <1>5, <2>1, FailStep
<1> QED BY <1>4, <1>5 DEF MessageEvent

\* A close event: clean, once everything has come, or not.
LEMMA CloseEventStep ==
  ASSUME TInv, NEW clean \in BOOLEAN, CloseEvent(clean)
  PROVE  TInv' /\ [Frames!Next]_(Frames!vars) /\ UNCHANGED sent /\ Processed' = Processed
<1>1. /\ Quiet /\ (clean => wire = << >>) /\ closed' = TRUE /\ wire' = << >>
      /\ UNCHANGED <<kind, inbox, handed, sent, taken>>
      /\ kind = "socket" /\ ~closed /\ ~error /\ call \in {"idle", "parked"}
  BY DEF CloseEvent, Quiet
<1>2. << >> \in Seq(Frame)
  OBVIOUS
<1>3. CASE ~clean
  <2>1. Fail
    BY <1>3 DEF CloseEvent
  <2> QED BY <1>1, <1>2, <2>1, FailStep
<1>4. CASE clean
  <2>1. call' = (IF call = "parked" THEN "end" ELSE call) /\ UNCHANGED error /\ wire = << >>
    BY <1>4 DEF CloseEvent
  <2>2. ~LastQueued /\ ~LastQueued' /\ Arrived' = Arrived
    BY <1>1 DEF LastQueued, Arrived
  <2>3. TransportTypes'
    BY <1>1, <1>2, <2>1 DEF TransportTypes, TInv
  <2>4. Flow'
    BY <1>1, <2>1, <2>2 DEF Flow, TInv
  <2>5. Ending'
    BY <1>1, <2>1 DEF Ending, TInv
  <2>6. [Frames!Next]_(Frames!vars)
    <3>1. CASE call = "parked"
      <4>1. inbox = << >> /\ Len(inbox) = 0 /\ Len(wire) = 0
        BY <2>1, <3>1 DEF TInv, Ending
      <4>2. Arrived = 0
        BY <2>2, <4>1 DEF Arrived
      <4>3. taken + 0 + 0 = Len(sent) /\ taken \in Nat
        BY <1>1, <4>1, <4>2 DEF TInv, Flow, TransportTypes
      <4>4. taken = Len(sent)
        BY <4>3
      <4>5. Frames!Finish
        BY <1>1, <2>1, <3>1, <4>4 DEF Frames!Finish
      <4> QED BY <4>5 DEF Frames!Next
    <3>2. CASE call # "parked"
      BY <1>1, <2>1, <3>2 DEF Frames!vars
    <3> QED BY <3>1, <3>2
  <2>7. Processed' = Processed
    BY <1>1, <2>1 DEF Processed
  <2> QED BY <1>1, <2>3, <2>4, <2>5, <2>6, <2>7 DEF TInv
<1> QED BY <1>3, <1>4

\* An error event.
LEMMA ErrorEventStep ==
  ASSUME TInv, ErrorEvent
  PROVE  TInv' /\ [Frames!Next]_(Frames!vars) /\ UNCHANGED sent /\ Processed' = Processed
<1>1. /\ Quiet /\ Fail /\ UNCHANGED <<kind, wire, inbox, closed, handed, sent, taken>>
  BY DEF ErrorEvent
<1>2. wire' \in Seq(Frame) /\ closed' \in BOOLEAN /\ (closed' => wire' = << >>)
  BY <1>1 DEF Quiet, TInv, TransportTypes
<1> QED BY <1>1, <1>2, FailStep

-----------------------------------------------------------------------------
(* From the log to the events. *)

LogSeqs == {log[k].seq : k \in DOMAIN log}

Event == [event : BOOLEAN, seq : Nat]

ClientTypes ==
  /\ link \in {"none", "live", "gone"} /\ seen \in Nat \cup {None} /\ todo \in Seq(Seqs)
  /\ published \in Seq(Event)

\* Nothing is sent before the hub knows the link, nor after its end has closed.
Linked ==
  /\ link = "none" => sent = << >>
  /\ closed => link = "gone"
  /\ link = "live" => sent # << >> /\ sent[Len(sent)].seq = Latest

\* The frames of one connection: an answer, then the commits since, without a gap.
Gapless(frames, seqs, latest) ==
  /\ \A i \in DOMAIN frames : frames[i].seq <= latest
  /\ frames # << >> => \/ frames[1].type = "snapshot" /\ frames[1].actions = << >>
                       \/ frames[1].type = "replay"
  /\ \A i \in DOMAIN frames : i > 1 =>
       /\ frames[i].type = "action" /\ frames[i].seq \in seqs
       /\ frames[i - 1].seq < frames[i].seq
       /\ ~\E m \in seqs : frames[i - 1].seq < m /\ m < frames[i].seq

Sending == Gapless(sent, LogSeqs, Latest)

\* The numbers are what the log has from one sequence to another.
Leads(from, numbers, upto, seqs) ==
  /\ from # None /\ from <= upto /\ Rising(numbers)
  /\ Elems(numbers) = {m \in seqs : from < m /\ m <= upto}
  /\ from = upto \/ upto \in seqs

\* Before the first frame of a connection is processed: a replay fits what was seen.
Awaiting ==
  Processed = 0 =>
    /\ todo = << >>
    /\ sent # << >> =>
         /\ seen # None => seen <= sent[1].seq
         /\ sent[1].type = "replay" => Leads(seen, sent[1].actions, sent[1].seq, LogSeqs)

\* Afterwards: what is still to be published leads to the frame that was processed.
Following == Processed # 0 => Leads(seen, todo, sent[Processed].seq, LogSeqs)

\* Events follow each other as the sequences do.
Ordered(events, seqs) ==
  \A i \in 1..(Len(events) - 1) :
    /\ events[i].seq < events[i + 1].seq
         \/ (~events[i + 1].event /\ events[i].seq = events[i + 1].seq)
    /\ events[i + 1].event => ~\E m \in seqs : events[i].seq < m /\ m < events[i + 1].seq

Publishing ==
  /\ Ordered(published, LogSeqs)
  /\ published = << >> <=> seen = None
  /\ published # << >> => published[Len(published)].seq = seen
  /\ \A i \in DOMAIN published : published[i].seq <= Latest

DInv ==
  /\ RInv /\ QInv /\ TInv /\ ClientTypes
  /\ Linked /\ Sending /\ Awaiting /\ Following /\ Publishing

\* The latest sequence of the log, and what a commit makes of it.
LEMMA LatestIs ==
  ASSUME RInv
  PROVE  /\ Latest \in Nat /\ LogSeqs \subseteq Seqs
         /\ \A m \in LogSeqs : m <= Latest
         /\ log # << >> => Latest \in LogSeqs
         /\ \A i \in DOMAIN log : log[i].seq \in Seqs
<1>1. log \in Seq(Envelope) /\ MaxSeq \in Nat
  BY RingAssumption DEF RInv, TypeOK
<1>2. \A i \in DOMAIN log : log[i].seq \in Seqs
  <2>1. \A i \in DOMAIN log : log[i] \in Envelope
    BY <1>1
  <2> QED BY <2>1 DEF Envelope, Seqs
<1>3. CASE log = << >>
  BY <1>1, <1>2, <1>3 DEF Latest, LogSeqs
<1>4. CASE log # << >>
  <2>1. Len(log) \in Nat /\ DOMAIN log = 1..Len(log) /\ Len(log) \in DOMAIN log
    BY <1>1, <1>4
  <2>2. Latest = log[Len(log)].seq
    BY <1>4 DEF Latest
  <2>3. ASSUME NEW i \in DOMAIN log
        PROVE  log[i].seq <= Latest
    <3>1. log[i].seq \in Nat /\ log[Len(log)].seq \in Nat
      BY <1>1, <1>2, <2>1 DEF Seqs
    <3>2. CASE i = Len(log)
      BY <2>2, <3>1, <3>2
    <3>3. CASE i # Len(log)
      <4>1. i < Len(log)
        BY <2>1, <3>3
      <4>2. log[i].seq < log[Len(log)].seq
        BY <2>1, <4>1 DEF RInv, HoldsTail
      <4> QED BY <2>2, <3>1, <4>2
    <3> QED BY <3>2, <3>3
  <2>4. Latest \in Nat
    BY <1>1, <1>2, <2>1, <2>2 DEF Seqs
  <2> QED BY <1>2, <2>1, <2>2, <2>3, <2>4 DEF LogSeqs
<1> QED BY <1>3, <1>4

LEMMA CommitGrows ==
  ASSUME RInv, NEW e \in Envelope, Commit(e)
  PROVE  /\ e.seq \in Seqs /\ e.seq > Latest /\ Latest' = e.seq
         /\ LogSeqs' = LogSeqs \cup {e.seq}
         /\ DOMAIN log' = DOMAIN log \cup {Len(log) + 1}
         /\ \A i \in DOMAIN log : log'[i] = log[i]
         /\ log'[Len(log) + 1] = e
<1>1. log \in Seq(Envelope) /\ log' = Append(log, e) /\ e.seq \in Seqs
  BY DEF RInv, TypeOK, Commit, Envelope, Seqs
<1>2. /\ Len(log) \in Nat /\ DOMAIN log = 1..Len(log) /\ Len(log') = Len(log) + 1
      /\ DOMAIN log' = 1..(Len(log) + 1) /\ log'[Len(log) + 1] = e
      /\ \A i \in 1..Len(log) : log'[i] = log[i]
      /\ log' # << >>
  BY <1>1
<1>3. Latest' = e.seq
  BY <1>2 DEF Latest
<1>4. LogSeqs' = LogSeqs \cup {e.seq}
  BY <1>2 DEF LogSeqs
<1>5. e.seq > Latest
  <2>1. Latest \in Nat /\ e.seq \in {Latest + 1, Latest + 2}
    BY LatestIs DEF Commit
  <2> QED BY <2>1
<1>6. DOMAIN log' = DOMAIN log \cup {Len(log) + 1}
  BY <1>2
<1> QED BY <1>1, <1>2, <1>3, <1>4, <1>5, <1>6

\* What reconnect answers with when the ring reaches back far enough: everything since.
LEMMA ResumedIs ==
  ASSUME RInv, NEW n \in Nat, Covers(n)
  PROVE  /\ Resumed(n) \in Frame /\ Resumed(n).seq = Latest /\ Resumed(n).type = "replay"
         /\ Rising(Resumed(n).actions) /\ Latest \in LogSeqs
         /\ Elems(Resumed(n).actions) = {m \in LogSeqs : n < m /\ m <= Latest}
<1> DEFINE l == Len(log)
           numbers == [i \in 1..size |-> Window[i].seq]
<1>1. /\ size \in Nat /\ size > 0 /\ size <= l /\ l \in Nat /\ DOMAIN log = 1..l
      /\ \A i \in 1..size : l - size + i \in 1..l /\ Window[i] = log[l - size + i]
  <2>1. size \in Nat /\ size > 0 /\ log \in Seq(Envelope)
    BY WindowIsTail DEF Covers, ShowsTail, RInv, TypeOK
  <2>2. l \in Nat /\ DOMAIN log = 1..l
    BY <2>1
  <2>3. \A i \in 1..size : l - size + i \in DOMAIN log /\ Window[i] = log[l - size + i]
    BY WindowIsTail DEF ShowsTail
  <2>4. size <= l
    <3>1. l - size + 1 \in 1..l
      BY <2>1, <2>2, <2>3
    <3> HIDE DEF l
    <3> QED BY <2>1, <2>2, <3>1
  <2> QED BY <2>1, <2>2, <2>3, <2>4
<1> HIDE DEF l
<1>2. \A i \in 1..l : log[i].seq \in Seqs
  BY <1>1, LatestIs
<1>3. numbers \in Seq(Seqs) /\ DOMAIN numbers = 1..size
      /\ \A i \in 1..size : numbers[i] = log[l - size + i].seq
  BY <1>1, <1>2
<1> HIDE DEF numbers
<1>4. Rising(numbers)
  <2> SUFFICES ASSUME NEW i \in 1..size, NEW j \in 1..size, i < j PROVE numbers[i] < numbers[j]
    BY <1>3 DEF Rising
  <2>1. l - size + i \in DOMAIN log /\ l - size + j \in DOMAIN log /\ l - size + i < l - size + j
    BY <1>1
  <2>2. log[l - size + i].seq < log[l - size + j].seq
    BY <2>1 DEF RInv, HoldsTail
  <2> QED BY <1>3, <2>2
<1>5. {m \in Elems(numbers) : m > n} = {m \in LogSeqs : n < m /\ m <= Latest}
  <2>1. ASSUME NEW m \in Elems(numbers), m > n
        PROVE  m \in LogSeqs /\ n < m /\ m <= Latest
    <3>1. m \in LogSeqs
      BY <1>1, <1>3 DEF Elems, LogSeqs
    <3>2. m \in Nat /\ m <= Latest
      BY <3>1, LatestIs DEF Seqs
    <3> QED BY <2>1, <3>1, <3>2
  <2>2. ASSUME NEW k \in 1..l, n < log[k].seq
        PROVE  log[k].seq \in Elems(numbers)
    <3>1. log[l - size + 1].seq <= n + 1
      <4>1. Slot(0) = head
        <5>1. 0 \in 0..Capacity /\ head \in 0..(Capacity - 1) /\ Capacity \in Nat \ {0}
          BY RingAssumption DEF RInv, TypeOK, Slots
        <5>2. (head + 0) % Capacity = IF head + 0 < Capacity THEN head + 0 ELSE head + 0 - Capacity
          BY <5>1, Wrapped
        <5> QED BY <5>1, <5>2 DEF Slot
      <4>2. Window[1] = items[head]
        BY <1>1, <4>1 DEF Window
      <4>3. Window[1] = log[l - size + 1]
        BY <1>1
      <4> QED BY <4>2, <4>3 DEF Covers
    <3>2. k >= l - size + 1
      <4>1. SUFFICES ASSUME k < l - size + 1 PROVE FALSE
        BY <1>1
      <4>2. l - size + 1 \in DOMAIN log
        BY <1>1
      <4>3. log[k].seq < log[l - size + 1].seq
        BY <1>1, <4>1, <4>2 DEF RInv, HoldsTail
      <4>4. log[k].seq \in Nat /\ log[l - size + 1].seq \in Nat
        BY <1>1, <1>2, <4>2 DEF Seqs
      <4> QED BY <2>2, <3>1, <4>3, <4>4
    <3>3. PICK i \in 1..size : l - size + i = k
      <4>1. k - (l - size) \in 1..size /\ l - size + (k - (l - size)) = k
        BY <1>1, <3>2
      <4> QED BY <4>1
    <3> QED BY <1>3, <3>3 DEF Elems
  <2>3. ASSUME NEW m \in LogSeqs, n < m
        PROVE  m \in Elems(numbers) /\ m > n
    <3>1. PICK k \in 1..l : m = log[k].seq
      BY <1>1 DEF LogSeqs
    <3>2. m \in Nat
      BY <1>2, <3>1 DEF Seqs
    <3> QED BY <2>2, <2>3, <3>1, <3>2
  <2> QED BY <2>1, <2>3
<1>6. /\ After(numbers, n) \in Seq(Seqs) /\ Rising(After(numbers, n))
      /\ Elems(After(numbers, n)) = {m \in LogSeqs : n < m /\ m <= Latest}
  BY <1>3, <1>4, <1>5, AfterIs
<1>7. /\ Resumed(n).actions = After(numbers, n) /\ Resumed(n).seq = Latest
      /\ Resumed(n).type = "replay"
  BY DEF Resumed, numbers
<1>8. Resumed(n) \in Frame
  <2>1. Latest \in Nat
    BY LatestIs
  <2> QED BY <1>6, <2>1 DEF Resumed, Frame, numbers, Seqs
<1>9. Latest \in LogSeqs
  <2>1. log # << >>
    BY <1>1 DEF l
  <2> QED BY <2>1, LatestIs
<1> QED BY <1>6, <1>7, <1>8, <1>9

-----------------------------------------------------------------------------
(* The parts of the composition, each by itself. *)

\* Every step of the composition is a step of the ring or leaves it alone.
LEMMA RingPart == [DeliveryNext]_deliveryVars => [Next]_vars
<1> SUFFICES ASSUME [DeliveryNext]_deliveryVars PROVE [Next]_vars
  OBVIOUS
<1>1. ASSUME NEW e \in Envelope, HubCommit(e) PROVE Next
  BY <1>1 DEF HubCommit, Next
<1>2. CASE UNCHANGED deliveryVars
  BY <1>2 DEF deliveryVars
<1>3. CASE Reconnect \/ Welcome \/ HubCloses \/ SocketEvent \/ Connect \/ DriveFrame \/ PublishNext
           \/ DriveEnd \/ Shutdown \/ Readings
  BY <1>3 DEF Reconnect, Welcome, HubCloses, SocketEvent, Connect, DriveFrame, PublishNext,
              DriveEnd, Shutdown, Readings
<1> QED BY <1>1, <1>2, <1>3 DEF DeliveryNext

\* A step that leaves the queue alone leaves every window alone.
LEMMA QueueKept ==
  ASSUME QInv, UNCHANGED queueVars
  PROVE  QInv' /\ UNCHANGED Windows!vars
<1>1. UNCHANGED <<buffer, base, shut, iterator, position, parked, got>>
  BY DEF queueVars
<1>2. Cursors' = Cursors /\ End' = End /\ \A r \in Readers : Unread(r)' = Unread(r)
  BY <1>1 DEF Cursors, End, Unread
<1>3. QueueTypes' /\ Positioned'
  BY <1>1, <1>2 DEF QueueTypes, Positioned, QInv
<1>4. Shown' = Shown
  BY <1>2 DEF Shown
<1> QED BY <1>1, <1>3, <1>4 DEF QInv, Windows!vars, Shown

\* Every step of the composition is a step of the windows or leaves them alone.
LEMMA QueuePart ==
  ASSUME QInv, todo \in Seq(Seqs), [DeliveryNext]_deliveryVars
  PROVE  QInv' /\ [Windows!Next]_(Windows!vars)
<1>1. CASE UNCHANGED queueVars
  BY <1>1, QueueKept
<1>2. CASE PublishNext
  <2>1. Head(todo) \in Seqs /\ Publish(Head(todo))
    BY <1>2 DEF PublishNext
  <2>2. QInv' /\ Windows!Publish(Head(todo))
    BY <2>1, PublishStep
  <2> QED BY <2>1, <2>2 DEF Windows!Next, Seqs
<1>3. CASE Shutdown
  <2>1. QInv' /\ Windows!Close
    BY <1>3, CloseStep DEF Shutdown
  <2> QED BY <2>1 DEF Windows!Next
<1>4. CASE Readings
  <2>1. PICK r \in Readers : Open(r) \/ Take(r) \/ Park(r) \/ Return(r)
    BY <1>4 DEF Readings, ReaderStep
  <2>2. QInv' /\ (Windows!Open(r) \/ Windows!Take(r) \/ Windows!Wait(r) \/ Windows!Detach(r))
    BY <2>1, OpenStep, TakeStep, ParkStep, ReturnStep
  <2> QED BY <2>2 DEF Windows!Next
<1>5. CASE (\E e \in Envelope : HubCommit(e)) \/ Reconnect \/ Welcome \/ HubCloses \/ SocketEvent
           \/ Connect \/ DriveFrame \/ DriveEnd \/ UNCHANGED deliveryVars
  BY <1>1, <1>5 DEF HubCommit, Reconnect, Welcome, HubCloses, SocketEvent, Connect, DriveFrame,
                    DriveEnd, deliveryVars
<1> QED BY <1>2, <1>3, <1>4, <1>5 DEF DeliveryNext

\* A step that leaves the transport alone.
LEMMA TransportKept ==
  ASSUME TInv, UNCHANGED transportVars
  PROVE  TInv' /\ UNCHANGED Frames!vars /\ Processed' = Processed /\ UNCHANGED <<sent, closed>>
<1>1. UNCHANGED <<kind, wire, inbox, error, closed, call, handed, sent, taken>>
  BY DEF transportVars
<1>2. LastQueued' = LastQueued /\ Arrived' = Arrived
  BY <1>1 DEF LastQueued, Arrived
<1>3. TransportTypes' /\ Flow' /\ Ending'
  BY <1>1, <1>2 DEF TransportTypes, Flow, Ending, TInv
<1> QED BY <1>1, <1>3 DEF TInv, Frames!vars, Processed

\* What the hub sends is a frame.
LEMMA SentIsFrame ==
  ASSUME RInv
  PROVE  /\ Snapshot \in Frame
         /\ \A e \in Envelope : Action(e.seq) \in Frame
         /\ seen \in Nat \cup {None} /\ seen # None /\ Covers(seen) => Resumed(seen) \in Frame
<1>1. << >> \in Seq(Seqs) /\ Latest \in Nat
  BY LatestIs
<1>2. Snapshot \in Frame
  BY <1>1 DEF Snapshot, Frame, Seqs
<1>3. ASSUME NEW e \in Envelope PROVE Action(e.seq) \in Frame
  <2>1. e.seq \in Nat
    BY DEF Envelope
  <2> QED BY <1>1, <2>1 DEF Action, Frame, Seqs
<1> QED BY <1>2, <1>3, ResumedIs

\* Every step of the composition is a step of the stream or leaves it alone.
LEMMA TransportPart ==
  ASSUME TInv, RInv, ClientTypes, Linked, [DeliveryNext]_deliveryVars
  PROVE  TInv' /\ [Frames!Next]_(Frames!vars)
<1>1. CASE UNCHANGED transportVars
  BY <1>1, TransportKept
<1>2. ASSUME NEW e \in Envelope, HubCommit(e)
      PROVE  TInv' /\ [Frames!Next]_(Frames!vars)
  <2>1. CASE link = "live"
    <3>1. Send(Action(e.seq)) /\ ~closed /\ Action(e.seq) \in Frame
      BY <1>2, <2>1, SentIsFrame DEF HubCommit, Linked
    <3>2. TInv' /\ Frames!Put
      BY <3>1, SendStep
    <3> QED BY <3>2 DEF Frames!Next
  <2>2. CASE link # "live"
    BY <1>1, <1>2, <2>2 DEF HubCommit
  <2> QED BY <2>1, <2>2
<1>3. CASE Reconnect
  <2>1. kind \in {"memory", "socket"} /\ Attach(kind)
    BY <1>3 DEF Reconnect, TInv, TransportTypes
  <2>2. TInv' /\ Frames!Renew
    BY <2>1, AttachStep
  <2> QED BY <2>2 DEF Frames!Next
<1>4. CASE Welcome
  <2> DEFINE f == IF seen # None /\ Covers(seen) THEN Resumed(seen) ELSE Snapshot
  <2>1. Send(f) /\ ~closed
    BY <1>4 DEF Welcome
  <2>2. f \in Frame
    BY SentIsFrame DEF ClientTypes
  <2> HIDE DEF f
  <2>3. TInv' /\ Frames!Put
    BY <2>1, <2>2, SendStep
  <2> QED BY <2>3 DEF Frames!Next
<1>5. CASE HubCloses
  <2>1. CloseMemory \/ UNCHANGED transportVars
    BY <1>5 DEF HubCloses
  <2> QED BY <1>1, <2>1, CloseMemoryStep
<1>6. CASE SocketEvent
  <2>1. MessageEvent \/ CloseEvent(FALSE) \/ CloseEvent(TRUE) \/ ErrorEvent
    BY <1>6 DEF SocketEvent
  <2> QED BY <2>1, MessageStep, CloseEventStep, ErrorEventStep
<1>7. CASE Connect
  BY <1>7, RecvStep DEF Connect
<1>8. CASE DriveFrame
  BY <1>8, RecvStep DEF DriveFrame
<1>9. CASE Shutdown
  <2>1. CloseMemory \/ UNCHANGED transportVars
    BY <1>9 DEF Shutdown
  <2> QED BY <1>1, <2>1, CloseMemoryStep
<1>10. CASE PublishNext \/ DriveEnd \/ Readings \/ UNCHANGED deliveryVars
  BY <1>1, <1>10 DEF PublishNext, DriveEnd, Readings, deliveryVars
<1> QED BY <1>2, <1>3, <1>4, <1>5, <1>6, <1>7, <1>8, <1>9, <1>10 DEF DeliveryNext

-----------------------------------------------------------------------------
(* The events, step by step. *)

Content == ClientTypes /\ Linked /\ Sending /\ Awaiting /\ Following /\ Publishing

\* The frames are counted within what was sent.
LEMMA ProcessedIs ==
  ASSUME TInv
  PROVE  /\ Processed \in Nat /\ Processed <= Len(sent) /\ Len(sent) \in Nat /\ taken \in Nat
         /\ taken <= Len(sent) /\ sent \in Seq(Frame)
         /\ \A i \in DOMAIN sent : sent[i] \in Frame /\ sent[i].seq \in Nat
         /\ call = "frame" => /\ Processed = taken - 1 /\ taken \in 1..Len(sent)
                              /\ handed = sent[taken]
         /\ call # "frame" => Processed = taken
<1>1. /\ taken \in Nat /\ sent \in Seq(Frame) /\ Arrived \in Nat /\ Len(sent) \in Nat
      /\ taken + Arrived <= Len(sent)
  BY Counts DEF TInv, TransportTypes, Flow
<1>2. taken <= Len(sent)
  BY <1>1
<1>3. call = "frame" => taken # 0 /\ handed = sent[taken]
  BY DEF TInv, Ending
<1>4. Processed \in Nat /\ Processed <= Len(sent)
  BY <1>1, <1>2, <1>3 DEF Processed
<1>5. \A i \in DOMAIN sent : sent[i] \in Frame /\ sent[i].seq \in Nat
  <2>1. \A i \in DOMAIN sent : sent[i] \in Frame
    BY <1>1
  <2> QED BY <2>1 DEF Frame
<1> QED BY <1>1, <1>2, <1>3, <1>4, <1>5 DEF Processed

\* A step that is not about frames, the log or the events.
LEMMA Undisturbed ==
  ASSUME Content, UNCHANGED <<log, seen, todo, published, sent>>, Processed' = Processed,
         link' \in {"none", "live", "gone"}, Linked'
  PROVE  Content'
<1>1. Latest' = Latest /\ LogSeqs' = LogSeqs
  BY DEF Latest, LogSeqs
<1>2. ClientTypes'
  BY DEF Content, ClientTypes
<1>3. Sending'
  BY <1>1 DEF Content, Sending
<1>4. Awaiting' /\ Following'
  BY <1>1 DEF Content, Awaiting, Following
<1>5. Publishing'
  BY <1>1 DEF Content, Publishing
<1> QED BY <1>2, <1>3, <1>4, <1>5 DEF Content

\* What the client has seen is not ahead of the log.
LEMMA SeenIs ==
  ASSUME Content
  PROVE  seen # None => seen \in Nat /\ seen <= Latest
<1> SUFFICES ASSUME seen # None PROVE seen \in Nat /\ seen <= Latest
  OBVIOUS
<1>1. published # << >> /\ published[Len(published)].seq = seen
  BY DEF Content, Publishing
<1>2. published \in Seq(Event) /\ seen \in Nat
  BY DEF Content, ClientTypes
<1>3. Len(published) \in DOMAIN published
  BY <1>1, <1>2
<1> QED BY <1>1, <1>2, <1>3 DEF Content, Publishing

\* What leads to a frame still does when the log grows.
LEMMA LeadsKept ==
  ASSUME NEW from, NEW numbers, NEW upto \in Nat, NEW seqs, NEW n \in Nat, upto < n,
         Leads(from, numbers, upto, seqs)
  PROVE  Leads(from, numbers, upto, seqs \cup {n})
<1>1. ~(n <= upto)
  OBVIOUS
<1>2. {m \in seqs \cup {n} : from < m /\ m <= upto} = {m \in seqs : from < m /\ m <= upto}
  BY <1>1
<1> QED BY <1>2 DEF Leads

\* Nor does a commit come between frames that were sent before it.
LEMMA GaplessKept ==
  ASSUME NEW frames \in Seq(Frame), NEW seqs, NEW latest \in Nat, NEW n \in Nat, latest < n,
         Gapless(frames, seqs, latest)
  PROVE  Gapless(frames, seqs \cup {n}, n)
<1>1. ASSUME NEW i \in DOMAIN frames
      PROVE  frames[i].seq <= n /\ ~(n < frames[i].seq)
  <2>1. frames[i].seq \in Nat /\ frames[i].seq <= latest
    <3>1. frames[i] \in Frame
      OBVIOUS
    <3> QED BY <3>1 DEF Gapless, Frame
  <2> QED BY <2>1
<1> QED BY <1>1 DEF Gapless

\* An action follows the frame before it when that one brought the client up to date.
LEMMA GaplessGrows ==
  ASSUME NEW frames \in Seq(Frame), NEW seqs \in SUBSET Nat, NEW latest \in Nat, NEW n \in Nat,
         latest < n, \A m \in seqs : m <= latest, Gapless(frames, seqs, latest),
         frames # << >>, frames[Len(frames)].seq = latest, NEW f \in Frame, f.type = "action", f.seq = n
  PROVE  Gapless(Append(frames, f), seqs \cup {n}, n)
<1> DEFINE l == Len(frames)
           t == Append(frames, f)
<1>1. /\ l \in Nat /\ l # 0 /\ DOMAIN frames = 1..l /\ DOMAIN t = 1..(l + 1)
      /\ \A i \in 1..l : t[i] = frames[i]
      /\ t[l + 1] = f
  OBVIOUS
<1>2. Gapless(frames, seqs \cup {n}, n)
  BY GaplessKept
<1>3. frames[l].seq = latest
  OBVIOUS
<1> HIDE DEF l, t
<1>4. \A i \in DOMAIN t : t[i].seq <= n
  <2> SUFFICES ASSUME NEW i \in 1..(l + 1) PROVE t[i].seq <= n
    BY <1>1
  <2>1. CASE i \in 1..l
    BY <1>1, <1>2, <2>1 DEF Gapless
  <2>2. CASE i = l + 1
    BY <1>1, <2>2
  <2> QED BY <1>1, <2>1, <2>2
<1>5. (t[1].type = "snapshot" /\ t[1].actions = << >>) \/ t[1].type = "replay"
  <2>1. 1 \in 1..l
    BY <1>1
  <2>2. t[1] = frames[1]
    BY <1>1, <2>1
  <2> QED BY <1>2, <2>2 DEF Gapless
<1>6. ASSUME NEW i \in DOMAIN t, i > 1
      PROVE  /\ t[i].type = "action" /\ t[i].seq \in seqs \cup {n}
             /\ t[i - 1].seq < t[i].seq
             /\ ~\E m \in seqs \cup {n} : t[i - 1].seq < m /\ m < t[i].seq
  <2>1. CASE i \in 1..l
    <3>1. i - 1 \in 1..l
      BY <1>1, <1>6, <2>1
    <3>2. t[i] = frames[i] /\ t[i - 1] = frames[i - 1]
      BY <1>1, <2>1, <3>1
    <3> QED BY <1>1, <1>2, <1>6, <2>1, <3>2 DEF Gapless
  <2>2. CASE i = l + 1
    <3>1. i - 1 = l /\ l \in 1..l
      BY <1>1, <2>2
    <3>2. t[i - 1].seq = latest /\ t[i] = f
      BY <1>1, <1>3, <2>2, <3>1
    <3> QED BY <3>2
  <2> QED BY <1>1, <1>6, <2>1, <2>2
<1>7. Gapless(t, seqs \cup {n}, n)
  BY <1>4, <1>5, <1>6 DEF Gapless
<1> QED BY <1>7 DEF t

\* Events that were published before a commit stay in order.
LEMMA OrderedKept ==
  ASSUME NEW events \in Seq(Event), NEW seqs, NEW n \in Nat,
         \A i \in DOMAIN events : events[i].seq < n, Ordered(events, seqs)
  PROVE  Ordered(events, seqs \cup {n})
<1>1. ASSUME NEW i \in 1..(Len(events) - 1)
      PROVE  ~(n < events[i + 1].seq)
  <2>1. i + 1 \in DOMAIN events
    OBVIOUS
  <2>2. events[i + 1].seq \in Nat /\ events[i + 1].seq < n
    <3>1. events[i + 1] \in Event
      BY <2>1
    <3> QED BY <2>1, <3>1 DEF Event
  <2> QED BY <2>2
<1> QED BY <1>1 DEF Ordered

\* One more event, after the last one.
LEMMA OrderedGrows ==
  ASSUME NEW events \in Seq(Event), NEW seqs,
         NEW b \in Event, Ordered(events, seqs),
         events # << >> =>
           LET a == events[Len(events)]
           IN /\ a.seq < b.seq \/ (~b.event /\ a.seq = b.seq)
              /\ b.event => ~\E m \in seqs : a.seq < m /\ m < b.seq
  PROVE  Ordered(Append(events, b), seqs)
<1> DEFINE l == Len(events)
           t == Append(events, b)
<1>1. /\ l \in Nat /\ Len(t) = l + 1
      /\ \A i \in 1..l : t[i] = events[i]
      /\ t[l + 1] = b /\ (events # << >> <=> l # 0)
  OBVIOUS
<1> HIDE DEF t
<1>2. ASSUME NEW i \in 1..(Len(t) - 1)
      PROVE  /\ t[i].seq < t[i + 1].seq \/ (~t[i + 1].event /\ t[i].seq = t[i + 1].seq)
             /\ t[i + 1].event => ~\E m \in seqs : t[i].seq < m /\ m < t[i + 1].seq
  <2>1. i \in 1..l
    <3> HIDE DEF l
    <3> QED BY <1>1
  <2>2. CASE i = l
    BY <1>1, <2>1, <2>2
  <2>3. CASE i # l
    <3>1. i \in 1..(l - 1) /\ i + 1 \in 1..l
      <4> HIDE DEF l
      <4> QED BY <1>1, <2>1, <2>3
    <3>2. t[i] = events[i] /\ t[i + 1] = events[i + 1]
      BY <1>1, <2>1, <3>1
    <3> QED BY <3>1, <3>2 DEF Ordered
  <2> QED BY <2>2, <2>3
<1> QED BY <1>2 DEF Ordered, t

\* A commit, and the envelope it sends to a live link.
LEMMA CommitContent ==
  ASSUME DInv, NEW e \in Envelope, HubCommit(e)
  PROVE  Content'
<1> DEFINE n == e.seq
<1>1. /\ RInv /\ TInv /\ Content /\ Commit(e) /\ todo = << >>
      /\ UNCHANGED <<link, seen, todo, published>>
  BY DEF DInv, Content, HubCommit, clientVars, NoTurn
<1>2. /\ n \in Nat /\ Latest < n /\ Latest' = n /\ Latest \in Nat
      /\ LogSeqs' = LogSeqs \cup {n} /\ \A m \in LogSeqs : m \in Nat /\ m <= Latest
  BY <1>1, CommitGrows, LatestIs DEF Seqs
<1>3. Action(n) \in Frame /\ Action(n).seq = n /\ Action(n).type = "action"
  <2>1. Action(n) \in Frame
    BY <1>1, SentIsFrame
  <2> QED BY <2>1 DEF Action
<1> HIDE DEF n
<1>4. /\ Processed \in Nat /\ Processed <= Len(sent) /\ Len(sent) \in Nat /\ sent \in Seq(Frame)
      /\ \A i \in DOMAIN sent : sent[i] \in Frame /\ sent[i].seq \in Nat
      /\ DOMAIN sent = 1..Len(sent)
  BY <1>1, ProcessedIs
<1>5. /\ Processed' = Processed /\ closed' = closed
      /\ \/ link = "live" /\ sent # << >> /\ sent[Len(sent)].seq = Latest
            /\ sent' = Append(sent, Action(n))
         \/ link # "live" /\ sent' = sent
  <2>1. CASE link = "live"
    <3>1. Send(Action(n)) /\ ~closed
      BY <1>1, <2>1 DEF HubCommit, Linked, Content, n
    <3>2. Processed' = Processed
      BY <1>1, <1>3, <3>1, SendStep
    <3>3. sent' = Append(sent, Action(n)) /\ closed' = closed
      BY <3>1 DEF Send
    <3>4. sent # << >> /\ sent[Len(sent)].seq = Latest
      BY <1>1, <2>1 DEF Content, Linked
    <3> QED BY <2>1, <3>2, <3>3, <3>4
  <2>2. CASE link # "live"
    <3>1. UNCHANGED transportVars
      BY <2>2 DEF HubCommit
    <3> QED BY <1>1, <2>2, <3>1, TransportKept
  <2> QED BY <2>1, <2>2
<1>6. /\ \A i \in 1..Len(sent) : sent'[i] = sent[i]
      /\ sent = << >> => sent' = << >>
      /\ link = "live" => sent' # << >> /\ sent'[Len(sent')].seq = n
  <2>1. CASE link = "live"
    BY <1>3, <1>4, <1>5, <2>1
  <2>2. CASE link # "live"
    BY <1>4, <1>5, <2>2
  <2> QED BY <2>1, <2>2
<1>7. ClientTypes'
  BY <1>1 DEF Content, ClientTypes
<1>8. Linked'
  BY <1>1, <1>2, <1>5, <1>6 DEF Content, Linked
<1>9. Sending'
  <2>1. Gapless(sent, LogSeqs, Latest)
    BY <1>1 DEF Content, Sending
  <2>2. LogSeqs \in SUBSET Nat
    BY <1>2
  <2>3. CASE link = "live"
    <3>1. Gapless(Append(sent, Action(n)), LogSeqs \cup {n}, n)
      BY <1>2, <1>3, <1>4, <1>5, <2>1, <2>2, <2>3, GaplessGrows
    <3> QED BY <1>2, <1>5, <2>3, <3>1 DEF Sending
  <2>4. CASE link # "live"
    <3>1. Gapless(sent, LogSeqs \cup {n}, n)
      BY <1>2, <1>4, <2>1, GaplessKept
    <3> QED BY <1>2, <1>5, <2>4, <3>1 DEF Sending
  <2> QED BY <2>3, <2>4
<1>10. ASSUME NEW i \in 1..Len(sent)
       PROVE  sent'[i] = sent[i] /\ sent[i].seq \in Nat /\ sent[i].seq < n
  <2>1. sent[i].seq <= Latest /\ sent[i].seq \in Nat
    BY <1>1, <1>4 DEF Content, Sending, Gapless
  <2> QED BY <1>2, <1>6, <2>1
<1>11. Awaiting'
  <2> SUFFICES ASSUME Processed = 0, sent' # << >>
               PROVE  /\ seen # None => seen <= sent'[1].seq
                      /\ sent'[1].type = "replay" =>
                           Leads(seen, sent'[1].actions, sent'[1].seq, LogSeqs')
    BY <1>1, <1>5 DEF Awaiting
  <2>1. sent # << >> /\ 1 \in 1..Len(sent)
    BY <1>4, <1>6
  <2>2. /\ seen # None => seen <= sent[1].seq
        /\ sent[1].type = "replay" => Leads(seen, sent[1].actions, sent[1].seq, LogSeqs)
    BY <1>1, <2>1 DEF Content, Awaiting
  <2>3. sent'[1] = sent[1] /\ sent[1].seq \in Nat /\ sent[1].seq < n
    BY <1>10, <2>1
  <2>4. sent[1].type = "replay" => Leads(seen, sent[1].actions, sent[1].seq, LogSeqs \cup {n})
    BY <1>2, <2>2, <2>3, LeadsKept
  <2> QED BY <1>2, <2>2, <2>3, <2>4
<1>12. Following'
  <2> SUFFICES ASSUME Processed # 0 PROVE Leads(seen, todo, sent'[Processed].seq, LogSeqs')
    BY <1>1, <1>5 DEF Following
  <2>1. Processed \in 1..Len(sent)
    BY <1>4
  <2>2. sent'[Processed] = sent[Processed] /\ sent[Processed].seq \in Nat /\ sent[Processed].seq < n
    BY <1>10, <2>1
  <2>3. Leads(seen, todo, sent[Processed].seq, LogSeqs)
    BY <1>1 DEF Content, Following
  <2>4. Leads(seen, todo, sent[Processed].seq, LogSeqs \cup {n})
    BY <1>2, <2>2, <2>3, LeadsKept
  <2> QED BY <1>2, <2>2, <2>4
<1>13. Publishing'
  <2>1. published \in Seq(Event) /\ Ordered(published, LogSeqs)
    BY <1>1 DEF Content, ClientTypes, Publishing
  <2>2. ASSUME NEW i \in DOMAIN published
        PROVE  published[i].seq < n /\ published[i].seq <= n
    <3>1. published[i] \in Event
      BY <2>1
    <3>2. published[i].seq <= Latest /\ published[i].seq \in Nat
      BY <1>1, <3>1 DEF Content, Publishing, Event
    <3> QED BY <1>2, <3>2
  <2>3. Ordered(published, LogSeqs \cup {n})
    BY <1>2, <2>1, <2>2, OrderedKept
  <2> QED BY <1>1, <1>2, <2>2, <2>3 DEF Content, Publishing
<1> QED BY <1>7, <1>8, <1>9, <1>11, <1>12, <1>13 DEF Content

\* A new connection has brought nothing yet.
LEMMA ReconnectContent ==
  ASSUME DInv, Reconnect
  PROVE  Content'
<1>1. /\ sent' = << >> /\ Processed' = 0 /\ link' = "none" /\ closed' = FALSE
      /\ UNCHANGED <<log, seen, todo, published>> /\ todo = << >> /\ Content
  BY DEF Reconnect, Attach, Processed, NoTurn, vars, DInv, Content
<1>2. Latest' = Latest /\ LogSeqs' = LogSeqs
  BY <1>1 DEF Latest, LogSeqs
<1>3. ClientTypes'
  BY <1>1 DEF Content, ClientTypes
<1>4. Linked'
  BY <1>1 DEF Linked
<1>5. Sending'
  <2>1. Gapless(<< >>, LogSeqs, Latest)
    BY DEF Gapless
  <2> QED BY <1>1, <1>2, <2>1 DEF Sending
<1>6. Awaiting' /\ Following'
  BY <1>1 DEF Awaiting, Following
<1>7. Publishing'
  BY <1>1, <1>2 DEF Content, Publishing
<1> QED BY <1>3, <1>4, <1>5, <1>6, <1>7 DEF Content

\* The hub's answer fits what the client has seen.
LEMMA WelcomeContent ==
  ASSUME DInv, Welcome
  PROVE  Content'
<1> DEFINE resumed == seen # None /\ Covers(seen)
           f == IF resumed THEN Resumed(seen) ELSE Snapshot
<1>1. /\ RInv /\ TInv /\ Content /\ Send(f) /\ ~closed /\ link = "none" /\ link' = "live"
      /\ todo = << >> /\ UNCHANGED <<log, seen, todo, published>>
  BY DEF DInv, Content, Welcome, NoTurn, vars
<1>2. Latest' = Latest /\ LogSeqs' = LogSeqs /\ Latest \in Nat
  BY <1>1, LatestIs DEF Latest, LogSeqs
<1>3. /\ f \in Frame /\ f.seq = Latest
      /\ \/ f.type = "snapshot" /\ f.actions = << >>
         \/ f.type = "replay" /\ resumed /\ f.actions = Resumed(seen).actions
  <2>1. CASE resumed
    <3>1. seen \in Nat
      BY <1>1, <2>1 DEF Content, ClientTypes
    <3> QED BY <1>1, <2>1, <3>1, ResumedIs
  <2>2. CASE ~resumed
    <3>1. Snapshot \in Frame
      BY <1>1, SentIsFrame
    <3>2. Snapshot.seq = Latest /\ Snapshot.type = "snapshot" /\ Snapshot.actions = << >>
      BY DEF Snapshot
    <3> QED BY <2>2, <3>1, <3>2
  <2> QED BY <2>1, <2>2
<1>4. resumed => /\ seen \in Nat /\ Rising(Resumed(seen).actions) /\ Latest \in LogSeqs
                 /\ Elems(Resumed(seen).actions) = {m \in LogSeqs : seen < m /\ m <= Latest}
  BY <1>1, ResumedIs DEF Content, ClientTypes
<1> HIDE DEF f, resumed
<1>5. sent = << >> /\ Processed = 0
  <2>1. sent = << >>
    BY <1>1 DEF Content, Linked
  <2>2. Processed \in Nat /\ Processed <= Len(sent) /\ Len(sent) = 0
    BY <1>1, <2>1, ProcessedIs
  <2> QED BY <2>1, <2>2
<1>6. Processed' = 0 /\ sent' = <<f>> /\ closed' = closed
  <2>1. Processed' = Processed
    BY <1>1, <1>3, SendStep
  <2> QED BY <1>1, <1>5, <2>1 DEF Send
<1>7. sent' # << >> /\ Len(sent') = 1 /\ DOMAIN sent' = {1} /\ sent'[1] = f
  BY <1>6
<1>8. ClientTypes'
  BY <1>1 DEF Content, ClientTypes
<1>9. Linked'
  BY <1>1, <1>2, <1>3, <1>6, <1>7 DEF Linked
<1>10. Sending'
  <2>1. Gapless(sent', LogSeqs, Latest)
    BY <1>2, <1>3, <1>7 DEF Gapless
  <2> QED BY <1>2, <2>1 DEF Sending
<1>11. Awaiting'
  <2>1. seen # None => seen <= f.seq
    BY <1>1, <1>3, SeenIs
  <2>2. f.type = "replay" => Leads(seen, f.actions, f.seq, LogSeqs)
    BY <1>3, <1>4, <2>1, DeliveryAssumption DEF Leads
  <2> QED BY <1>1, <1>2, <1>7, <2>1, <2>2 DEF Awaiting
<1>12. Following'
  BY <1>6 DEF Following
<1>13. Publishing'
  BY <1>1, <1>2 DEF Content, Publishing
<1> QED BY <1>8, <1>9, <1>10, <1>11, <1>12, <1>13 DEF Content

\* The steps that only move frames, or readers.
LEMMA OtherContent ==
  ASSUME DInv, HubCloses \/ SocketEvent \/ Connect \/ DriveEnd \/ Shutdown \/ Readings
  PROVE  Content'
<1>1. RInv /\ TInv /\ Content /\ Linked /\ link \in {"none", "live", "gone"}
  BY DEF DInv, Content, ClientTypes
<1>2. UNCHANGED <<log, seen, todo, published>>
  BY DEF HubCloses, SocketEvent, Connect, DriveEnd, Shutdown, Readings, vars, clientVars
<1>3. UNCHANGED sent /\ Processed' = Processed
  <2>1. CASE UNCHANGED transportVars
    BY <1>1, <2>1, TransportKept
  <2>2. CASE CloseMemory
    BY <1>1, <2>2, CloseMemoryStep
  <2>3. CASE SocketEvent
    <3>1. MessageEvent \/ CloseEvent(FALSE) \/ CloseEvent(TRUE) \/ ErrorEvent
      BY <2>3 DEF SocketEvent
    <3> QED BY <1>1, <3>1, MessageStep, CloseEventStep, ErrorEventStep
  <2>4. CASE Connect
    <3>1. Recv /\ call = "idle"
      BY <2>4 DEF Connect
    <3>2. Processed' = taken /\ sent' = sent
      BY <1>1, <3>1, RecvStep DEF Recv
    <3> QED BY <1>1, <3>1, <3>2, ProcessedIs
  <2> QED BY <2>1, <2>2, <2>3, <2>4 DEF HubCloses, Shutdown, DriveEnd, Readings
<1>4. \/ link' = "gone"
      \/ link' = link /\ closed' = closed
  <2>1. CASE SocketEvent
    BY <2>1 DEF SocketEvent, MessageEvent
  <2>2. CASE HubCloses \/ Shutdown
    BY <2>2 DEF HubCloses, Shutdown
  <2>3. CASE Connect \/ DriveEnd \/ Readings
    BY <2>3 DEF Connect, DriveEnd, Readings, Recv, clientVars, transportVars
  <2> QED BY <2>1, <2>2, <2>3
<1>5. Linked'
  <2>1. Latest' = Latest
    BY <1>2 DEF Latest
  <2> QED BY <1>1, <1>3, <1>4, <2>1 DEF Linked
<1> QED BY <1>1, <1>2, <1>3, <1>4, <1>5, Undisturbed

\* A rising sequence starts with the least of its numbers, and goes on with the others.
LEMMA RisingParts ==
  ASSUME NEW s \in Seq(Seqs), s # << >>, Rising(s)
  PROVE  /\ Tail(s) \in Seq(Seqs) /\ Rising(Tail(s)) /\ Head(s) \in Elems(s)
         /\ Elems(Tail(s)) = {m \in Elems(s) : m > Head(s)}
         /\ \A m \in Elems(s) : m \in Nat /\ Head(s) <= m
<1> DEFINE l == Len(s)
           t == Tail(s)
<1>1. /\ l \in Nat /\ l >= 1 /\ DOMAIN s = 1..l /\ Head(s) = s[1]
      /\ \A i \in 1..l : s[i] \in Seqs
  OBVIOUS
<1>2. /\ t \in Seq(Seqs) /\ Len(t) = l - 1 /\ DOMAIN t = 1..(l - 1)
      /\ \A i \in 1..(l - 1) : t[i] = s[i + 1]
  OBVIOUS
<1>3. \A i \in 1..l : s[i] \in Nat
  BY <1>1 DEF Seqs
<1>4. \A i, j \in 1..l : i < j => s[i] < s[j]
  BY <1>1 DEF Rising
<1>5. \A i \in 1..l : i = 1 \/ s[1] < s[i]
  <2> SUFFICES ASSUME NEW i \in 1..l, i # 1 PROVE s[1] < s[i]
    OBVIOUS
  <2>1. 1 \in 1..l /\ 1 < i
    BY <1>1
  <2> QED BY <1>4, <2>1
<1> HIDE DEF l, t
<1>6. Rising(t)
  <2> SUFFICES ASSUME NEW i \in 1..(l - 1), NEW j \in 1..(l - 1), i < j PROVE t[i] < t[j]
    BY <1>2 DEF Rising
  <2>1. i + 1 \in 1..l /\ j + 1 \in 1..l /\ i + 1 < j + 1
    BY <1>1
  <2>2. s[i + 1] < s[j + 1]
    BY <1>4, <2>1
  <2> QED BY <1>2, <2>2
<1>7. Elems(s) = {s[i] : i \in 1..l} /\ Elems(t) = {t[i] : i \in 1..(l - 1)}
  BY <1>1, <1>2 DEF Elems
<1>8. 1 \in 1..l
  BY <1>1
<1>9. Elems(t) = {m \in Elems(s) : m > s[1]}
  <2>1. ASSUME NEW i \in 1..(l - 1)
        PROVE  t[i] \in Elems(s) /\ t[i] > s[1]
    <3>1. i + 1 \in 1..l /\ i + 1 # 1
      BY <1>1
    <3>2. s[1] < s[i + 1] /\ s[1] \in Nat /\ s[i + 1] \in Nat
      BY <1>3, <1>5, <1>8, <3>1
    <3> QED BY <1>2, <1>7, <3>1, <3>2
  <2>2. ASSUME NEW i \in 1..l, s[i] > s[1]
        PROVE  s[i] \in Elems(t)
    <3>1. i # 1
      BY <1>3, <2>2
    <3>2. PICK j \in 1..(l - 1) : i = j + 1
      <4>1. i - 1 \in 1..(l - 1) /\ i = (i - 1) + 1
        BY <1>1, <3>1
      <4> QED BY <4>1
    <3> QED BY <1>2, <1>7, <3>2
  <2> QED BY <1>7, <2>1, <2>2
<1>10. \A m \in Elems(s) : m \in Nat /\ s[1] <= m
  BY <1>3, <1>5, <1>7, <1>8
<1> QED BY <1>1, <1>2, <1>6, <1>7, <1>8, <1>9, <1>10 DEF t

\* One frame is taken up: a snapshot is seen at once, envelopes wait for their turn.
LEMMA DriveContent ==
  ASSUME DInv, DriveFrame
  PROVE  Content'
<1> DEFINE p == taken
           f == sent[p]
<1>1. /\ RInv /\ TInv /\ Content /\ todo = << >> /\ Recv /\ call = "frame" /\ todo' = News(handed)
      /\ UNCHANGED <<log, link, closed, sent>>
  BY DEF DInv, Content, DriveFrame, NoTurn, vars, Recv
<1>2. Latest' = Latest /\ LogSeqs' = LogSeqs /\ Latest \in Nat /\ LogSeqs \subseteq Seqs
      /\ \A m \in LogSeqs : m \in Nat
  BY <1>1, LatestIs DEF Latest, LogSeqs, Seqs
<1>3. /\ p \in 1..Len(sent) /\ p \in Nat /\ Len(sent) \in Nat /\ Processed = p - 1
      /\ handed = f /\ f \in Frame /\ f.seq \in Nat /\ DOMAIN sent = 1..Len(sent)
      /\ Processed' = p
  BY <1>1, ProcessedIs, RecvStep
<1> HIDE DEF p
<1>4. /\ f.type = "snapshot" =>
           /\ seen' = f.seq /\ published' = Append(published, [event |-> FALSE, seq |-> f.seq])
      /\ f.type # "snapshot" => UNCHANGED <<seen, published>>
  BY <1>3 DEF DriveFrame
<1>5. seen \in Nat \cup {None} /\ (seen # None => seen \in Nat)
  BY <1>1 DEF Content, ClientTypes
<1>6. f.actions \in Seq(Seqs) /\ f.seq <= Latest
  BY <1>1, <1>3 DEF Content, Sending, Gapless, Frame, Seqs
<1> HIDE DEF f
<1>7. todo' \in Seq(Seqs) /\ Leads(seen', todo', f.seq, LogSeqs)
  <2>1. CASE p = 1
    <3>1. Processed = 0 /\ sent # << >> /\ f = sent[1]
      BY <1>3, <2>1 DEF f
    <3>2. /\ seen # None => seen <= f.seq
          /\ f.type = "replay" => Leads(seen, f.actions, f.seq, LogSeqs)
          /\ \/ f.type = "snapshot" /\ f.actions = << >>
             \/ f.type = "replay"
      BY <1>1, <3>1 DEF Content, Awaiting, Sending, Gapless
    <3>3. CASE f.type = "snapshot"
      <4>1. todo' = (IF seen = None THEN << >> ELSE After(<< >>, seen))
        BY <1>1, <1>3, <3>2, <3>3 DEF News
      <4>2. todo' \in Seq(Seqs) /\ Elems(todo') = {} /\ Rising(todo')
        <5>1. << >> \in Seq(Seqs) /\ Elems(<< >>) = {} /\ Rising(<< >>)
          BY DEF Elems, Rising
        <5>2. CASE seen = None
          BY <4>1, <5>1, <5>2
        <5>3. CASE seen # None
          BY <1>5, <4>1, <5>1, <5>3, AfterIs
        <5> QED BY <5>2, <5>3
      <4>3. {m \in LogSeqs : f.seq < m /\ m <= f.seq} = {}
        BY <1>2, <1>3
      <4>4. seen' = f.seq /\ f.seq # None
        BY <1>3, <1>4, <3>3, DeliveryAssumption
      <4> QED BY <1>3, <4>2, <4>3, <4>4 DEF Leads
    <3>4. CASE f.type # "snapshot"
      <4>1. Leads(seen, f.actions, f.seq, LogSeqs)
        BY <3>2, <3>4
      <4>2. seen # None /\ seen \in Nat /\ todo' = After(f.actions, seen)
        BY <1>1, <1>3, <1>5, <3>2, <3>4, <4>1 DEF News, Leads
      <4>3. /\ todo' \in Seq(Seqs) /\ Rising(todo')
            /\ Elems(todo') = {m \in Elems(f.actions) : m > seen}
        BY <1>6, <4>1, <4>2, AfterIs DEF Leads
      <4>4. Elems(todo') = Elems(f.actions)
        BY <1>2, <4>1, <4>2, <4>3 DEF Leads, Seqs
      <4> QED BY <1>4, <3>4, <4>1, <4>3, <4>4 DEF Leads
    <3> QED BY <3>3, <3>4
  <2>2. CASE p # 1
    <3> DEFINE g == sent[p - 1]
    <3>1. /\ f.type = "action" /\ f.seq \in LogSeqs /\ g.seq < f.seq
          /\ ~\E m \in LogSeqs : g.seq < m /\ m < f.seq
      <4>1. p > 1 /\ p \in DOMAIN sent
        BY <1>3, <2>2
      <4> QED BY <1>1, <4>1 DEF Content, Sending, Gapless, f
    <3>2. Leads(seen, << >>, g.seq, LogSeqs) /\ g.seq \in Nat
      <4>1. Processed # 0 /\ Processed = p - 1 /\ p - 1 \in DOMAIN sent
        BY <1>3, <2>2
      <4>2. g.seq \in Nat
        BY <1>1, <4>1, ProcessedIs
      <4> QED BY <1>1, <4>1, <4>2 DEF Content, Following
    <3> HIDE DEF g
    <3>3. seen = g.seq
      <4>1. seen \in Nat /\ seen <= g.seq /\ (seen = g.seq \/ g.seq \in LogSeqs)
        BY <1>5, <3>2 DEF Leads
      <4>2. Elems(<< >>) = {}
        BY DEF Elems
      <4>3. ~(g.seq \in LogSeqs /\ seen < g.seq /\ g.seq <= g.seq)
        BY <3>2, <4>2 DEF Leads
      <4> QED BY <3>2, <4>1, <4>3
    <3>4. seen # None /\ todo' = After(<<f.seq>>, seen)
      BY <1>1, <1>3, <3>1, <3>2 DEF News, Leads
    <3>5. <<f.seq>> \in Seq(Seqs) /\ Rising(<<f.seq>>) /\ Elems(<<f.seq>>) = {f.seq}
      <4>1. PICK n \in Seqs : n = f.seq
        BY <1>2, <3>1
      <4>2. /\ <<n>> \in Seq(Seqs) /\ DOMAIN <<n>> = 1..1 /\ <<n>>[1] = n
            /\ \A i \in 1..1 : i = 1
        OBVIOUS
      <4> DEFINE s == <<n>>
      <4>3. s \in Seq(Seqs) /\ DOMAIN s = 1..1 /\ s[1] = n
        BY <4>2
      <4> HIDE DEF s
      <4>4. Elems(s) = {n}
        BY <4>2, <4>3 DEF Elems
      <4>5. Rising(s)
        BY <4>2, <4>3 DEF Rising
      <4> QED BY <4>1, <4>3, <4>4, <4>5 DEF s
    <3>6. /\ todo' \in Seq(Seqs) /\ Rising(todo')
          /\ Elems(todo') = {m \in {f.seq} : m > seen}
      BY <1>5, <3>4, <3>5, AfterIs
    <3>7. {m \in LogSeqs : seen < m /\ m <= f.seq} = {m \in {f.seq} : m > seen}
      <4>1. ASSUME NEW m \in LogSeqs, seen < m, m <= f.seq PROVE m = f.seq
        <5>1. m \in Nat /\ f.seq \in Nat
          BY <1>2, <1>3
        <5>2. ~(m < f.seq)
          BY <3>1, <3>3, <4>1
        <5> QED BY <4>1, <5>1, <5>2
      <4>2. f.seq <= f.seq
        BY <1>3
      <4> QED BY <3>1, <4>1, <4>2
    <3>8. seen' = seen
      BY <1>4, <3>1
    <3>9. seen <= f.seq
      BY <1>3, <3>1, <3>2, <3>3
    <3> QED BY <3>1, <3>4, <3>6, <3>7, <3>8, <3>9 DEF Leads
  <2> QED BY <2>1, <2>2
<1>8. Publishing' /\ seen' \in Nat \cup {None} /\ published' \in Seq(Event)
  <2>1. CASE f.type # "snapshot"
    BY <1>1, <1>2, <1>4, <2>1 DEF Content, Publishing, ClientTypes
  <2>2. CASE f.type = "snapshot"
    <3> DEFINE b == [event |-> FALSE, seq |-> f.seq]
    <3>1. p = 1
      <4>1. p # 1 => f.type = "action"
        <5>1. p # 1 => p > 1 /\ p \in DOMAIN sent
          BY <1>3
        <5> QED BY <1>1, <5>1 DEF Content, Sending, Gapless, f
      <4> QED BY <2>2, <4>1
    <3>2. seen # None => seen <= f.seq
      <4>1. Processed = 0 /\ sent # << >> /\ f = sent[1]
        BY <1>3, <3>1 DEF f
      <4> QED BY <1>1, <4>1 DEF Content, Awaiting
    <3>3. b \in Event /\ b.seq = f.seq /\ ~b.event
      BY <1>3 DEF Event
    <3>4. /\ published \in Seq(Event) /\ Ordered(published, LogSeqs)
          /\ published # << >> => published[Len(published)].seq = seen /\ seen # None
          /\ \A i \in DOMAIN published : published[i].seq <= Latest
      BY <1>1 DEF Content, ClientTypes, Publishing
    <3> HIDE DEF b
    <3>5. Ordered(Append(published, b), LogSeqs)
      <4>1. published # << >> =>
              /\ published[Len(published)].seq < b.seq
                   \/ (~b.event /\ published[Len(published)].seq = b.seq)
              /\ b.event => ~\E m \in LogSeqs : published[Len(published)].seq < m /\ m < b.seq
        BY <1>3, <1>5, <3>2, <3>3, <3>4
      <4> QED BY <3>3, <3>4, <4>1, OrderedGrows
    <3>6. published' = Append(published, b) /\ seen' = f.seq
      BY <1>4, <2>2 DEF b
    <3>7. /\ published' \in Seq(Event) /\ published' # << >>
          /\ published'[Len(published')] = b
          /\ \A i \in DOMAIN published' : published'[i] = b \/ (i \in DOMAIN published /\ published'[i] = published[i])
      BY <3>3, <3>4, <3>6
    <3>8. \A i \in DOMAIN published' : published'[i].seq <= Latest
      BY <1>6, <3>3, <3>4, <3>7
    <3>9. seen' # None
      BY <1>3, <3>6, DeliveryAssumption
    <3> QED BY <1>2, <1>3, <3>3, <3>5, <3>6, <3>7, <3>8, <3>9 DEF Publishing
  <2> QED BY <2>1, <2>2
<1>9. ClientTypes'
  BY <1>1, <1>7, <1>8 DEF Content, ClientTypes
<1>10. Linked' /\ Sending'
  BY <1>1, <1>2 DEF Content, Linked, Sending
<1>11. Awaiting' /\ Following'
  <2>1. Processed' # 0 /\ sent'[Processed'] = f
    BY <1>1, <1>3 DEF f
  <2> QED BY <1>2, <1>7, <2>1 DEF Awaiting, Following
<1> QED BY <1>8, <1>9, <1>10, <1>11 DEF Content

\* One envelope is published: the next one that the log has.
LEMMA PublishContent ==
  ASSUME DInv, PublishNext
  PROVE  Content'
<1> DEFINE h == Head(todo)
           u == sent[Processed].seq
           b == [event |-> TRUE, seq |-> h]
<1>1. /\ RInv /\ TInv /\ Content /\ todo # << >> /\ todo' = Tail(todo) /\ seen' = h
      /\ published' = Append(published, b)
      /\ UNCHANGED <<log, link, transportVars>>
  BY DEF DInv, Content, PublishNext, vars
<1>2. Latest' = Latest /\ LogSeqs' = LogSeqs /\ Latest \in Nat /\ LogSeqs \subseteq Seqs
      /\ \A m \in LogSeqs : m \in Nat /\ m <= Latest
  BY <1>1, LatestIs DEF Latest, LogSeqs, Seqs
<1>3. UNCHANGED <<sent, closed>> /\ Processed' = Processed
  BY <1>1, TransportKept
<1>4. Processed # 0 /\ Leads(seen, todo, u, LogSeqs) /\ u \in Nat
  <2>1. Processed # 0
    BY <1>1 DEF Content, Awaiting
  <2>2. Processed \in Nat /\ Processed <= Len(sent) /\ Len(sent) \in Nat /\ sent \in Seq(Frame)
        /\ \A i \in DOMAIN sent : sent[i].seq \in Nat
    BY <1>1, ProcessedIs
  <2>3. Processed \in DOMAIN sent
    BY <2>1, <2>2
  <2> QED BY <1>1, <2>1, <2>2, <2>3 DEF Content, Following
<1>5. todo \in Seq(Seqs) /\ seen \in Nat
  BY <1>1, <1>4 DEF Content, ClientTypes, Leads
<1>6. /\ Tail(todo) \in Seq(Seqs) /\ Rising(Tail(todo)) /\ h \in Elems(todo)
      /\ Elems(Tail(todo)) = {m \in Elems(todo) : m > h}
      /\ \A m \in Elems(todo) : m \in Nat /\ h <= m
  BY <1>1, <1>4, <1>5, RisingParts DEF Leads
<1>7. /\ h \in LogSeqs /\ h \in Nat /\ seen < h /\ h <= u
      /\ Elems(todo) = {m \in LogSeqs : seen < m /\ m <= u}
      /\ seen = u \/ u \in LogSeqs
  BY <1>4, <1>6 DEF Leads
<1> HIDE DEF h, u
<1>8. Leads(h, Tail(todo), u, LogSeqs)
  <2>1. {m \in Elems(todo) : m > h} = {m \in LogSeqs : h < m /\ m <= u}
    <3>1. \A m \in LogSeqs : h < m => seen < m
      BY <1>2, <1>5, <1>7
    <3> QED BY <1>2, <1>7, <3>1
  <2>2. h # None
    BY <1>7, DeliveryAssumption
  <2>3. u \in LogSeqs
    BY <1>4, <1>5, <1>7
  <2> QED BY <1>6, <1>7, <2>1, <2>2, <2>3 DEF Leads
<1>9. b \in Event /\ b.seq = h /\ b.event
  BY <1>7 DEF Event
<1> HIDE DEF b
<1>10. /\ published \in Seq(Event) /\ Ordered(published, LogSeqs) /\ published # << >>
       /\ published[Len(published)].seq = seen
       /\ \A i \in DOMAIN published : published[i].seq <= Latest
  BY <1>1, <1>4 DEF Content, ClientTypes, Publishing, Leads
<1>11. Ordered(Append(published, b), LogSeqs)
  <2>1. ~\E m \in LogSeqs : seen < m /\ m < h
    <3> SUFFICES ASSUME NEW m \in LogSeqs, seen < m, m < h PROVE FALSE
      OBVIOUS
    <3>1. m \in Nat
      BY <1>2 DEF Seqs
    <3>2. m <= u
      BY <1>4, <1>7, <3>1
    <3>3. m \in Elems(todo)
      BY <1>7, <3>2
    <3> QED BY <1>6, <1>7, <3>1, <3>3
  <2>2. published # << >> =>
          /\ published[Len(published)].seq < b.seq
               \/ (~b.event /\ published[Len(published)].seq = b.seq)
          /\ b.event => ~\E m \in LogSeqs : published[Len(published)].seq < m /\ m < b.seq
    BY <1>7, <1>9, <1>10, <2>1
  <2> QED BY <1>9, <1>10, <2>2, OrderedGrows
<1>12. /\ published' \in Seq(Event) /\ published' # << >>
       /\ published'[Len(published')] = b
       /\ \A i \in DOMAIN published' : published'[i] = b \/ (i \in DOMAIN published /\ published'[i] = published[i])
  BY <1>1, <1>9, <1>10
<1>13. Publishing'
  <2>1. \A i \in DOMAIN published' : published'[i].seq <= Latest
    BY <1>2, <1>7, <1>9, <1>10, <1>12
  <2>2. seen' # None
    BY <1>1, <1>7, DeliveryAssumption
  <2> QED BY <1>1, <1>2, <1>9, <1>11, <1>12, <2>1, <2>2 DEF Publishing
<1>14. ClientTypes'
  BY <1>1, <1>6, <1>7, <1>12 DEF Content, ClientTypes
<1>15. Linked' /\ Sending'
  BY <1>1, <1>2, <1>3 DEF Content, Linked, Sending
<1>16. Awaiting' /\ Following'
  BY <1>1, <1>2, <1>3, <1>4, <1>8 DEF Awaiting, Following, u
<1> QED BY <1>13, <1>14, <1>15, <1>16 DEF Content

-----------------------------------------------------------------------------
(* The inductive invariant, and what follows from it. *)

LEMMA DeliveryStarts == DeliveryInit => DInv
<1> SUFFICES ASSUME DeliveryInit PROVE DInv
  OBVIOUS
<1>1. RInv /\ QInv /\ TInv
  BY RingInit, QueueStarts, TransportStarts DEF DeliveryInit
<1>2. /\ log = << >> /\ link = "none" /\ seen = None /\ todo = << >> /\ published = << >>
      /\ sent = << >> /\ taken = 0 /\ call = "idle" /\ closed = FALSE
  BY DEF DeliveryInit, Init, TransportInit
<1>3. Processed = 0
  BY <1>2 DEF Processed
<1>4. << >> \in Seq(Seqs) /\ << >> \in Seq(Event) /\ Len(<< >>) = 0 /\ DOMAIN << >> = {}
  OBVIOUS
<1>5. ClientTypes
  BY <1>2, <1>4 DEF ClientTypes
<1>6. Linked /\ Awaiting /\ Following
  BY <1>2, <1>3 DEF Linked, Awaiting, Following
<1>7. Sending
  BY <1>2, <1>4 DEF Sending, Gapless
<1>8. Publishing
  BY <1>2, <1>4 DEF Publishing, Ordered
<1> QED BY <1>1, <1>5, <1>6, <1>7, <1>8 DEF DInv

LEMMA DeliveryHolds == DInv /\ [DeliveryNext]_deliveryVars => DInv'
<1> SUFFICES ASSUME DInv, [DeliveryNext]_deliveryVars PROVE DInv'
  OBVIOUS
<1>1. RInv /\ QInv /\ TInv /\ ClientTypes /\ Linked /\ Content /\ todo \in Seq(Seqs)
  BY DEF DInv, Content, ClientTypes
<1>2. RInv'
  BY <1>1, RingPart, RingHolds
<1>3. QInv' /\ TInv'
  BY <1>1, QueuePart, TransportPart
<1>4. Content'
  <2>1. CASE UNCHANGED deliveryVars
    <3>1. UNCHANGED <<log, link, seen, todo, published>> /\ UNCHANGED transportVars
      BY <2>1 DEF deliveryVars, vars, clientVars
    <3>2. UNCHANGED <<sent, closed>> /\ Processed' = Processed
      BY <1>1, <3>1, TransportKept
    <3>3. Linked'
      BY <1>1, <3>1, <3>2 DEF Linked, Latest
    <3> QED BY <1>1, <3>1, <3>2, <3>3, Undisturbed DEF ClientTypes
  <2>2. CASE DeliveryNext
    BY <2>2, CommitContent, ReconnectContent, WelcomeContent, OtherContent, DriveContent,
       PublishContent DEF DeliveryNext
  <2> QED BY <2>1, <2>2
<1> QED BY <1>2, <1>3, <1>4 DEF DInv, Content

\* The state of ring, queue, transport and client is consistent at every step.
THEOREM DeliveryInvariance == DeliverySpec => []DInv
BY DeliveryStarts, DeliveryHolds, PTL DEF DeliverySpec

\* Within the composition the ring does what it does alone, so that whatever is proved of
\* ReplayRing holds here too.
THEOREM StillARing == DeliverySpec => Spec
<1>1. DeliveryInit => Init
  BY DEF DeliveryInit
<1> QED BY <1>1, RingPart, PTL DEF DeliverySpec, Spec

\* The shared buffer of BroadcastQueue, with its positions, its trimming and its limit, gives
\* every reader what a window of its own would.
THEOREM QueueRefinement == DeliverySpec => ImplementsWindows
<1>1. DeliveryInit => Windows!Init
  BY QueueStarts DEF DeliveryInit
<1>2. DInv /\ [DeliveryNext]_deliveryVars => [Windows!Next]_(Windows!vars)
  BY QueuePart DEF DInv, ClientTypes
<1> QED BY <1>1, <1>2, DeliveryInvariance, PTL DEF DeliverySpec, ImplementsWindows, Windows!Spec

\* recv() of either transport hands over what was sent, in order and each frame once, and
\* ends only after the last frame, whenever a close or an error falls.
THEOREM StreamRefinement == DeliverySpec => ImplementsStream
<1>1. DeliveryInit => Frames!Init
  BY TransportStarts DEF DeliveryInit
<1>2. DInv /\ [DeliveryNext]_deliveryVars => [Frames!Next]_(Frames!vars)
  BY TransportPart DEF DInv
<1> QED BY <1>1, <1>2, DeliveryInvariance, PTL DEF DeliverySpec, ImplementsStream, Frames!Spec

\* The buffer never outgrows its limit, and its oldest value is always one that some reader
\* has still to take.
THEOREM NothingKeptForNobody == DeliverySpec => []BufferIsNeeded
<1>1. ASSUME DInv, buffer # << >>
      PROVE  \E r \in Cursors : Unread(r) = buffer
  <2>1. QInv
    BY <1>1 DEF DInv
  <2>2. PICK r \in Cursors : position[r] = base
    BY <1>1, <2>1 DEF QInv, Positioned
  <2>3. buffer \in Seq(Seqs) /\ position[r] \in Nat
    BY <2>1 DEF QInv, QueueTypes, Cursors
  <2>4. position[r] - base + 1 = 1
    BY <2>2, <2>3
  <2>5. SubSeq(buffer, 1, Len(buffer)) = buffer
    BY <2>3
  <2> QED BY <2>2, <2>4, <2>5 DEF Unread
<1>2. DInv => BufferIsNeeded
  BY <1>1 DEF BufferIsNeeded, DInv, QInv, Positioned
<1> QED BY <1>2, DeliveryInvariance, PTL

\* The client's loop never waits on a transport that has closed or failed, so that shutdown,
\* which awaits the loop, is not left waiting either.
THEOREM LoopIsToldTheEnd == DeliverySpec => []NobodyWaitsAtTheEnd
<1>1. DInv => NobodyWaitsAtTheEnd
  BY DEF DInv, TInv, Ending, NobodyWaitsAtTheEnd
<1> QED BY <1>1, DeliveryInvariance, PTL

\* What events() publishes is the log: in order, nothing twice, and no envelope left out but
\* those a snapshot stands for - through every drop, reconnect, replay and spent number.
THEOREM EventsAreTheLog == DeliverySpec => []EventsFollowLog
<1>1. DInv => EventsFollowLog
  <2> SUFFICES ASSUME DInv, NEW i \in 1..(Len(published) - 1)
               PROVE  /\ published[i].seq < published[i + 1].seq
                           \/ (~published[i + 1].event /\ published[i].seq = published[i + 1].seq)
                      /\ published[i + 1].event =>
                           ~\E k \in DOMAIN log : published[i].seq < log[k].seq
                                                  /\ log[k].seq < published[i + 1].seq
    BY DEF EventsFollowLog
  <2>1. Ordered(published, LogSeqs)
    BY DEF DInv, Publishing
  <2>2. /\ published[i].seq < published[i + 1].seq
             \/ (~published[i + 1].event /\ published[i].seq = published[i + 1].seq)
        /\ published[i + 1].event =>
             ~\E m \in LogSeqs : published[i].seq < m /\ m < published[i + 1].seq
    BY <2>1 DEF Ordered
  <2>3. \A k \in DOMAIN log : log[k].seq \in LogSeqs
    BY DEF LogSeqs
  <2> QED BY <2>2, <2>3
<1> QED BY <1>1, DeliveryInvariance, PTL
=============================================================================
