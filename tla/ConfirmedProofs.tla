--------------------------- MODULE ConfirmedProofs ---------------------------
(***************************************************************************)
(* The rest of the session's invariant, under the steps of the hub, and    *)
(* what follows for a client of an application that makes one call at a    *)
(* time for a channel: confirmed states are states of the log, no event is *)
(* skipped, when the two are quiet they agree, and copies never go back.   *)
(***************************************************************************)
EXTENDS MirrorProofs

-----------------------------------------------------------------------------
(* Turns of the hub. *)

\* A turn of the hub, while all that is to be kept has been.
HubTurn ==
  /\ Types /\ Types' /\ MirrorsKept /\ HubOrder /\ HubOrder' /\ ClientOrder /\ MirrorOrder
  /\ UNCHANGED clientVars /\ reader' = reader
  /\ Longer /\ gone \subseteq gone' /\ detached \subseteq detached'

\* What the client has is as it was.
LEMMA HubTurnSame ==
  ASSUME HubTurn
  PROVE  /\ view' = view /\ waiting' = waiting /\ early' = early /\ ready' = ready
         /\ subscribed' = subscribed /\ stored' = stored /\ saves' = saves
         /\ current' = current /\ nextId' = nextId /\ initialized' = initialized
         /\ reader' = reader /\ Had' = Had /\ Known(view') = Known(view)
         /\ (Connected' <=> Connected) /\ HubTypes /\ HubTypes'
<1>1. UNCHANGED clientVars /\ reader' = reader /\ HubTypes /\ HubTypes'
  BY DEF HubTurn, Types
<1>2. /\ view' = view /\ waiting' = waiting /\ early' = early /\ ready' = ready
      /\ subscribed' = subscribed /\ stored' = stored /\ saves' = saves
      /\ current' = current /\ nextId' = nextId /\ initialized' = initialized
  BY <1>1 DEF clientVars, linkState, shakeState, callState, saveState
<1> QED BY <1>1, <1>2 DEF Had, Known, Waits, Connected

\* A turn of the hub does not change the client's calls.
LEMMA HubTurnCalls ==
  ASSUME HubTurn
  PROVE  ClientOrder'
BY HubTurnSame DEF HubTurn, ClientOrder, Connected

\* A state that is past stays what it was.
LEMMA PastStays ==
  ASSUME HubTypes, HubTypes', Longer, NEW u, NEW a \in Nat, a <= Len(log)
  PROVE  StateAt(log', u, a) = StateAt(log, u, a) /\ a <= Len(log')
<1>1. CASE log' = log
  BY <1>1
<1>2. ASSUME NEW e, e.seq = Len(log) + 1, log' = Append(log, e)
      PROVE  StateAt(log', u, a) = StateAt(log, u, a) /\ a <= Len(log')
  <2>1. Len(log) \in Nat /\ log \in Seq(Envelopes)
    BY LogTyped
  <2>2. Len(log') = Len(log) + 1
    BY <1>2, <2>1
  <2>3. a \in Int /\ ~(e.seq <= a)
    BY <1>2, <2>1
  <2>4. StateAt(Append(log, e), u, a) = StateAt(log, u, a)
    BY <2>3, StateStays
  <2> QED BY <1>2, <2>1, <2>2, <2>4
<1> QED BY <1>1, <1>2 DEF Longer

\* Copies, and what was saved of them, stay true while the log grows.
LEMMA HistoryKept ==
  ASSUME HubTurn
  PROVE  CopiesTrue' /\ Gapless' /\ AllKept'
<1>1. /\ Types /\ HubTypes /\ HubTypes' /\ Longer /\ gone \subseteq gone'
      /\ CopiesTrue /\ Gapless /\ AllKept /\ view \in Plain(Told)
      /\ Len(log) \in Nat /\ Len(log') \in Nat
  <2>1. Types /\ HubTypes /\ HubTypes' /\ view \in Plain(Told)
    BY Parted DEF HubTurn, Types, ClientParts
  <2>2. Len(log) \in Nat
    BY <2>1, LogTyped
  <2>3. Len(log') \in Nat
    BY <2>1 DEF HubTypes
  <2> QED BY <2>1, <2>2, <2>3 DEF HubTurn, MirrorOrder
<1>2. CopiesTrue'
  <2>1. ASSUME NEW u \in Known(view) \ gone' PROVE Copied(view.mirrors[u], u)'
    <3>1. Copied(view.mirrors[u], u) /\ view.mirrors[u].applied \in Nat
      BY <1>1, PlainParts DEF CopiesTrue
    <3>2. PICK m : m = view.mirrors[u]
      OBVIOUS
    <3>3. StateAt(log', u, m.applied) = StateAt(log, u, m.applied) /\ m.applied <= Len(log')
      BY <1>1, <3>1, <3>2, PastStays DEF Copied
    <3>4. view'.mirrors[u] = m
      BY <3>2, HubTurnSame
    <3> QED BY <3>1, <3>2, <3>3, <3>4 DEF Copied
  <2> QED BY <2>1, HubTurnSame DEF CopiesTrue
<1>3. Gapless'
  <2>1. view.seen \in Nat /\ view.seen <= Len(log)
    BY <1>1, PlainParts DEF Gapless
  <2>2. view.seen <= Len(log')
    BY <1>1, <2>1, PastStays
  <2>3. ASSUME NEW u \in subscribed \ gone'
        PROVE  Between(u, view.mirrors[u].applied, view.seen)' = {}
    <3>1. u \in Known(view)
      BY <2>3 DEF HubTurn, MirrorsKept
    <3>2. view.mirrors[u].applied \in Nat
      BY <1>1, <3>1, PlainParts
    <3>3. PICK a, b : a = view.mirrors[u].applied /\ b = view.seen
      OBVIOUS
    <3>4. Between(u, a, b) = {}
      BY <1>1, <2>3, <3>3 DEF Gapless
    <3>6. a \in Int /\ b \in Int /\ b <= Len(log)
      BY <2>1, <3>2, <3>3
    <3>7. Between(u, a, b)' = Between(u, a, b)
      BY <1>1, <3>6, BetweenStays
    <3>5. view'.mirrors[u].applied = a /\ view'.seen = b
      BY <3>3, HubTurnSame
    <3> QED BY <3>4, <3>5, <3>7
  <2> QED BY <2>1, <2>2, <2>3, HubTurnSame DEF Gapless
<1>4. ASSUME NEW c \in Checkpoints, Kept(c) PROVE Kept(c)'
  <2>1. c.seen \in Nat /\ c.seen <= Len(log) /\ c.seen <= Len(log')
    <3>1. c.seen \in Nat /\ c.seen <= Len(log)
      BY <1>4 DEF Kept, Checkpoints
    <3> QED BY <1>1, <3>1, PastStays
  <2>2. ASSUME NEW u \in DOMAIN c.channels \ gone'
        PROVE  /\ c.channels[u].confirmed = StateAt(log', u, c.channels[u].applied)
               /\ c.channels[u].applied <= Len(log')
               /\ Between(u, c.channels[u].applied, c.seen)' = {}
    <3>1. c.channels[u].applied \in Nat
      BY <1>4 DEF Checkpoints
    <3>2. PICK a : a = c.channels[u].applied
      OBVIOUS
    <3>3. /\ c.channels[u].confirmed = StateAt(log, u, a) /\ a <= Len(log)
          /\ Between(u, a, c.seen) = {}
      BY <1>1, <1>4, <2>2, <3>2 DEF Kept
    <3>4. StateAt(log', u, a) = StateAt(log, u, a) /\ a <= Len(log')
      BY <1>1, <3>1, <3>2, <3>3, PastStays
    <3>5. Between(u, a, c.seen)' = {}
      BY <1>1, <2>1, <3>1, <3>2, <3>3, BetweenStays
    <3> QED BY <3>2, <3>3, <3>4, <3>5
  <2> QED BY <2>1, <2>2 DEF Kept
<1>5. AllKept'
  <2>1. stored \in Checkpoints \cup {None} /\ saves \in Seq(Checkpoints)
    BY <1>1 DEF Types, ClientTypes
  <2>2. stored # None => Kept(stored)'
    <3>1. PICK c : c = stored
      OBVIOUS
    <3>2. c # None => Kept(c)'
      BY <1>1, <1>4, <2>1, <3>1 DEF AllKept
    <3> QED BY <3>1, <3>2, HubTurnSame DEF Kept
  <2>3. ASSUME NEW k \in DOMAIN saves PROVE Kept(saves[k])'
    <3>1. PICK c : c = saves[k]
      OBVIOUS
    <3>2. Kept(c)'
      BY <1>1, <1>4, <2>1, <3>1 DEF AllKept
    <3> QED BY <3>1, <3>2, HubTurnSame DEF Kept
  <2> QED BY <2>2, <2>3, HubTurnSame DEF AllKept
<1> QED BY <1>2, <1>3, <1>5

\* The hub reads at most one frame of the client's, or gives its socket up.
Shrinks(k) ==
  \/ up'[reader] = << >>
  \/ k \in {0, 1} /\ Shifted(up[reader], up'[reader], k)

\* What the client counts on is still not undone.
LEMMA UprightOn ==
  ASSUME HubTurn, Connected, NEW k, Shrinks(k),
         \A r \in waiting : Handling(r)' /\ Restates(r) =>
           \/ up'[reader] = << >> \/ Handling(r)
           \/ k = 1 /\ 1 \in DOMAIN up[reader] /\ up[reader][1] = r,
         Shaking' => Shaking \/ \A u \in Uris : ~Claimed(u),
         \A r \in waiting, i \in DOMAIN Coming' : AnswerTo(Coming'[i], r) =>
           \/ \E j \in DOMAIN Coming : AnswerTo(Coming[j], r)
           \/ Handling(r) /\ ~Shaking' /\ ~Handling(r)'
  PROVE  Upright'
<1>1. /\ Upright /\ waiting' = waiting /\ view' = view /\ reader' = reader
      /\ Known(view') = Known(view) /\ reader \in Sockets
  BY HubTurnSame, ReaderIs DEF HubTurn, MirrorOrder
<1>2. /\ up[reader] \in Seq(UpFrames) /\ Len(up[reader]) \in Nat /\ DOMAIN up[reader] = 1..Len(up[reader])
      /\ up'[reader] \in Seq(UpFrames') /\ Len(up'[reader]) \in Nat
      /\ DOMAIN up'[reader] = 1..Len(up'[reader])
  <2>1. up[reader] \in Seq(UpFrames) /\ up'[reader] \in Seq(UpFrames')
    BY <1>1 DEF HubTurn, Types, WireTypes
  <2> QED BY <2>1
<1>3. PICK d : d \in {0, 1} /\ (up'[reader] = << >> \/ (d = k /\ Shifted(up[reader], up'[reader], d)))
  BY DEF Shrinks
<1>4. ASSUME NEW j \in DOMAIN up'[reader]
      PROVE  d = k /\ j + d \in DOMAIN up[reader] /\ up'[reader][j] = up[reader][j + d]
  <2>1. up'[reader] # << >>
    BY <1>4
  <2> QED BY <1>3, <2>1 DEF Shifted
<1>5. \A u \in Uris : Undisturbed(u) => Undisturbed(u)'
  BY <1>1, <1>4 DEF Undisturbed, Upsets
<1>6. ASSUME NEW u \in Uris, Claimed(u)'
      PROVE  Undisturbed(u)' /\ ~Shaking'
  <2>1. CASE Claimed(u)
    <3>1. Undisturbed(u) /\ ~Shaking
      BY <1>1, <2>1 DEF Upright
    <3> QED BY <1>5, <2>1, <3>1
  <2>2. CASE ~Claimed(u)
    <3>1. PICK r \in waiting : /\ Restates(r) /\ u \in r.uris
                               /\ \E i \in DOMAIN Coming' : AnswerTo(Coming'[i], r)
      BY <1>1, <1>6, <2>2 DEF Claimed, Restates, AnswerTo
    <3>2. Handling(r) /\ ~Shaking'
      BY <2>2, <3>1 DEF Claimed
    <3>3. Undisturbed(u)
      BY <1>1, <3>1, <3>2 DEF Upright
    <3> QED BY <1>5, <3>2, <3>3
  <2> QED BY <2>1, <2>2
<1>7. ASSUME NEW u \in Uris, NEW r \in waiting, Restates(r), u \in r.uris
      PROVE  /\ Handling(r)' => Undisturbed(u)'
             /\ \A i, j \in DOMAIN up'[reader] :
                  i < j /\ up'[reader][i] = r => ~Upsets(up'[reader][j], u)
  <2>1. \A i, j \in DOMAIN up[reader] :
          i < j /\ up[reader][i] = r => ~Upsets(up[reader][j], u)
    BY <1>1, <1>7 DEF Upright
  <2>2. \A i, j \in DOMAIN up'[reader] :
          i < j /\ up'[reader][i] = r => ~Upsets(up'[reader][j], u)
    <3>1. ASSUME NEW i \in DOMAIN up'[reader], NEW j \in DOMAIN up'[reader], i < j,
                 up'[reader][i] = r
          PROVE  ~Upsets(up'[reader][j], u)
      <4>1. /\ i + d \in DOMAIN up[reader] /\ up'[reader][i] = up[reader][i + d]
            /\ j + d \in DOMAIN up[reader] /\ up'[reader][j] = up[reader][j + d]
        BY <1>4
      <4>2. i + d < j + d
        BY <1>2, <1>3, <3>1
      <4> QED BY <2>1, <3>1, <4>1, <4>2
    <3> QED BY <3>1
  <2>3. ASSUME Handling(r)' PROVE Undisturbed(u)'
    <3>1. CASE up'[reader] = << >>
      BY <1>1, <3>1 DEF Undisturbed
    <3>2. CASE Handling(r)
      <4>1. Undisturbed(u)
        BY <1>1, <1>7, <3>2 DEF Upright
      <4> QED BY <1>5, <4>1
    <3>3. CASE k = 1 /\ 1 \in DOMAIN up[reader] /\ up[reader][1] = r
      <4>1. ASSUME NEW j \in DOMAIN up'[reader] PROVE ~Upsets(up'[reader][j], u)
        <5>1. d = 1 /\ j + 1 \in DOMAIN up[reader] /\ up'[reader][j] = up[reader][j + 1]
          BY <1>4, <3>3
        <5>2. 1 < j + 1
          BY <1>2
        <5> QED BY <2>1, <3>3, <5>1, <5>2
      <4> QED BY <1>1, <4>1 DEF Undisturbed, Upsets
    <3> QED BY <1>7, <2>3, <3>1, <3>2, <3>3
  <2> QED BY <2>2, <2>3
<1> QED BY <1>1, <1>6, <1>7 DEF Upright, Restates, Upsets

-----------------------------------------------------------------------------
(* Channels with nothing after what they are restated from. *)

\* A channel without later envelopes joins anything.
LEMMA JoinsAfter ==
  ASSUME Types, Connected, NEW u \in Known(view), NEW b \in 0..Len(log),
         Between(u, b, Len(log)) = {}, NEW i
  PROVE  Joins(u, b, i)
<1>1. HubTypes /\ Len(log) \in Nat
  BY LogTyped DEF Types
<1>2. \A e \in Told : e.uri = u => e.seq <= b
  <2>1. \A e \in Told : e.seq \in Nat /\ e.seq <= Len(log)
    BY <1>1, ToldTyped
  <2> QED BY <1>1, <2>1 DEF Between
<1>3. \A k \in DOMAIN view.mirrors[u].buffered :
        /\ view.mirrors[u].buffered[k].seq <= b /\ view.mirrors[u].buffered[k].seq \in Nat
  BY <1>2, BufferedTyped
<1>4. ASSUME NEW j \in DOMAIN Coming, ~IsPush(Coming[j]), Coming[j].result.type = "envelope",
             Coming[j].result.envelope.uri = u
      PROVE  Coming[j].result.envelope.seq <= b
  <2>1. Coming[j] \in Answers
    BY <1>4, ComingTyped
  <2>2. Coming[j].result.envelope \in Told
    BY <1>4, <2>1, ResultParts DEF Answers
  <2> QED BY <1>2, <1>4, <2>2
<1>5. b <= Len(log) /\ b \in Nat
  BY <1>1
<1>6. \A k \in DOMAIN view.mirrors[u].buffered : ~(view.mirrors[u].buffered[k].seq > b)
  BY <1>3, <1>5
<1> QED BY <1>3, <1>4, <1>5, <1>6 DEF Joins

\* The same as an implication ...
LEMMA JoinsAfterThen ==
  Types /\ Connected =>
    \A u \in Known(view), b \in 0..Len(log), i \in Nat :
      Between(u, b, Len(log)) = {} => Joins(u, b, i)
BY JoinsAfter

\* ... of the state after a step.
LEMMA JoinsAfterNext ==
  (Types /\ Connected)' =>
    (\A u \in Known(view), b \in 0..Len(log), i \in Nat :
      Between(u, b, Len(log)) = {} => Joins(u, b, i))'
BY JoinsAfterThen, PTL

\* The frames that are on their way after a turn of the hub: at most an answer more.
AnswersMore ==
  \/ Coming' = Coming
  \/ \E f : /\ ~IsPush(f) /\ Coming' = Append(Coming, f)
            /\ job[reader].stage = "answering" /\ Marks(f.result) = Marks(job[reader].result)

\* What the hub is about to answer is no news.
MarksNoMore ==
  job'[reader].stage = "answering" =>
    \/ job'[reader] = job[reader]
    \/ Marks(job'[reader].result) = {}
    \/ reader \notin detached /\ \A h \in Marks(job'[reader].result) : h <= Len(log)

\* What is promised now was, or is as of the end of the log.
PromisesNow ==
  \A u \in Known(view) \ gone', b \in 0..Len(log), i \in 1..(Len(Coming') + 1) :
    Promised(u, b, i)' =>
      \/ i \in 1..(Len(Coming) + 1) /\ Promised(u, b, i)
      \/ Between(u, b, Len(log)) = {}

LinksNow == \A u \in Known(view) \ gone', b \in 0..Len(log) : Based(u, b)' => Linked(u)'

\* The frames of a longer stream.
LEMMA ComingLonger ==
  ASSUME HubTurn, Connected, NEW f, Coming' = Coming \/ Coming' = Append(Coming, f)
  PROVE  /\ Len(Coming) \in Nat /\ Len(Coming') \in Nat /\ Len(Coming) <= Len(Coming')
         /\ DOMAIN Coming = 1..Len(Coming) /\ DOMAIN Coming' = 1..Len(Coming')
         /\ \A i \in DOMAIN Coming : i \in DOMAIN Coming' /\ Coming'[i] = Coming[i]
         /\ \A i \in DOMAIN Coming' : i \notin DOMAIN Coming =>
              i = Len(Coming) + 1 /\ Coming'[i] = f /\ Coming' = Append(Coming, f)
         /\ Range(Coming) \subseteq Range(Coming')
         /\ Coming' = Append(Coming, f) =>
              Len(Coming') = Len(Coming) + 1 /\ f \in Range(Coming')
<1>1. Types /\ Types' /\ Connected'
  BY HubTurnSame DEF HubTurn
<1>2. Coming \in Seq(DownFrames) /\ Len(Coming) \in Nat /\ DOMAIN Coming = 1..Len(Coming)
  BY <1>1, Parted DEF ComingParts
<1>3. PICK D, F : D = Coming /\ F = Coming'
  OBVIOUS
<1>4. CASE F = D /\ F # Append(D, f)
  <2>1. Range(D) \subseteq Range(F)
    BY <1>4
  <2>2. Len(D) \in Nat /\ DOMAIN D = 1..Len(D) /\ Len(D) <= Len(D)
    BY <1>2, <1>3
  <2>3. Len(F) = Len(D) /\ DOMAIN F = DOMAIN D /\ \A i \in DOMAIN D : F[i] = D[i]
    BY <1>4
  <2> QED BY <1>3, <1>4, <2>1, <2>2, <2>3
<1>5. CASE F = Append(D, f)
  <2>1. Append(D, f) = [k \in 1..(Len(D) + 1) |-> IF k = Len(D) + 1 THEN f ELSE D[k]]
    BY <1>2, <1>3, AppendIs
  <2>2. PICK n : n = Len(D)
    OBVIOUS
  <2>3. n \in Nat /\ DOMAIN D = 1..n
    BY <1>2, <1>3, <2>2
  <2>4. F = [k \in 1..(n + 1) |-> IF k = n + 1 THEN f ELSE D[k]]
    BY <1>5, <2>1, <2>2
  <2>5. Len(F) = n + 1
    BY <1>2, <1>3, <1>5, <2>2
  <2>6. DOMAIN F = 1..(n + 1)
    BY <2>4
  <2>7. \A i \in 1..n : i \in 1..(n + 1) /\ F[i] = D[i]
    BY <2>3, <2>4
  <2>8. F[n + 1] = f /\ n + 1 \in 1..(n + 1)
    BY <2>3, <2>4
  <2>9. \A i \in 1..(n + 1) : i \notin 1..n => i = n + 1
    BY <2>3
  <2>10. Range(D) \subseteq Range(F) /\ f \in Range(F)
    BY <2>3, <2>6, <2>7, <2>8 DEF Range
  <2>11. n <= n + 1 /\ n + 1 \in Nat
    BY <2>3
  <2> QED BY <1>3, <1>5, <2>2, <2>3, <2>5, <2>6, <2>7, <2>8, <2>9, <2>10, <2>11
<1> QED BY <1>3, <1>4, <1>5

\* A turn without a commit keeps the stream in order, ...
LEMMA QuietStream ==
  ASSUME HubTurn, Connected, AnswersMore
  PROVE  Stream'
<1>1. PICK f : Coming' = Coming \/ (Coming' = Append(Coming, f) /\ ~IsPush(f))
  BY DEF AnswersMore
<1>2. /\ \A i \in DOMAIN Coming : i \in DOMAIN Coming' /\ Coming'[i] = Coming[i]
      /\ \A i \in DOMAIN Coming' : i \notin DOMAIN Coming => i = Len(Coming) + 1 /\ Coming'[i] = f
                                      /\ Coming' = Append(Coming, f)
      /\ DOMAIN Coming = 1..Len(Coming) /\ DOMAIN Coming' = 1..Len(Coming')
      /\ Len(Coming) \in Nat /\ Len(Coming') \in Nat
  BY <1>1, ComingLonger
<1>3. InOrder(Had, early, Coming)
  BY DEF HubTurn, MirrorOrder, Stream
<1>0. Coming' = Coming \/ ~IsPush(f)
  BY <1>1
<1>4. PICK D, F, H, E : D = Coming /\ F = Coming' /\ H = Had /\ E = early
  OBVIOUS
<1>5. InOrder(H, E, F)
  <2>1. ASSUME NEW j \in DOMAIN F, IsPush(F[j])
        PROVE  /\ \A h \in H : h < F[j].seq
               /\ \A i \in DOMAIN F : i < j => \A h \in Bears(F[i]) : h < F[j].seq
    <3>1. j \in DOMAIN D /\ F[j] = D[j]
      <4>1. CASE F = D
        BY <2>1, <4>1
      <4>2. CASE F # D
        <5>1. ~IsPush(f)
          BY <1>0, <1>4, <4>2
        <5>2. F[j] # f
          BY <2>1, <5>1
        <5> QED BY <1>2, <1>4, <2>1, <5>2
      <4> QED BY <4>1, <4>2
    <3>2. ASSUME NEW i \in DOMAIN F, i < j PROVE i \in DOMAIN D /\ F[i] = D[i]
      <4>1. i \in DOMAIN D
        <5>1. DOMAIN D = 1..Len(D) /\ DOMAIN F = 1..Len(F) /\ Len(D) \in Nat /\ Len(F) \in Nat
          BY <1>2, <1>4
        <5> QED BY <3>1, <3>2, <5>1
      <4> QED BY <1>2, <1>4, <4>1
    <3> QED BY <1>3, <1>4, <2>1, <3>1, <3>2 DEF InOrder
  <2> QED BY <1>3, <1>4, <2>1 DEF InOrder
<1> QED BY <1>4, <1>5, HubTurnSame DEF Stream

\* ... what the mirrors are restated from, ...
LEMMA QuietBases ==
  ASSUME HubTurn, log' = log, Connected, AnswersMore, PromisesNow, LinksNow
  PROVE  Bases'
<1>1. PICK f : Coming' = Coming \/ Coming' = Append(Coming, f)
  BY DEF AnswersMore
<1>2. /\ \A i \in DOMAIN Coming : i \in DOMAIN Coming' /\ Coming'[i] = Coming[i]
      /\ \A i \in DOMAIN Coming' : i \notin DOMAIN Coming => i = Len(Coming) + 1
      /\ DOMAIN Coming = 1..Len(Coming) /\ DOMAIN Coming' = 1..Len(Coming')
      /\ Len(Coming) \in Nat /\ Len(Coming') \in Nat
  BY <1>1, ComingLonger
<1>3. ASSUME NEW u \in Known(view) \ gone', NEW b \in 0..Len(log), NEW i \in 1..(Len(Coming') + 1),
             Promised(u, b, i)'
      PROVE  Joins(u, b, i)'
  <2>1. CASE Between(u, b, Len(log)) = {}
    <3>1. Between(u, b, Len(log))' = {}
      BY <2>1 DEF Between, Told
    <3>2. (Types /\ Connected)' /\ i \in Nat /\ u \in Known(view)' /\ b \in (0..Len(log))'
      BY HubTurnSame DEF HubTurn
    <3> QED BY <3>1, <3>2, JoinsAfterNext
  <2>2. CASE i \in 1..(Len(Coming) + 1) /\ Promised(u, b, i)
    <3>1. Joins(u, b, i)
      BY <2>2 DEF HubTurn, MirrorOrder, Bases
    <3>2. \A j \in DOMAIN Coming' : j < i => j \in DOMAIN Coming /\ Coming'[j] = Coming[j]
      BY <1>2, <2>2
    <3> QED BY <3>1, <3>2, HubTurnSame DEF Joins
  <2> QED BY <1>3, <2>1, <2>2 DEF PromisesNow
<1>4. ASSUME NEW u \in Known(view) \ gone', NEW b \in 0..Len(log), Based(u, b)'
      PROVE  Linked(u)'
  BY <1>4 DEF LinksNow
<1> QED BY <1>3, <1>4, HubTurnSame DEF Bases

\* ... and what the client misses.
LEMMA QuietCut ==
  ASSUME HubTurn, log' = log, Connected, AnswersMore, MarksNoMore, PromisesNow
  PROVE  Cut'
<1>1. PICK f : \/ Coming' = Coming
               \/ /\ Coming' = Append(Coming, f) /\ ~IsPush(f)
                  /\ job[reader].stage = "answering" /\ Marks(f.result) = Marks(job[reader].result)
  BY DEF AnswersMore
<1>2. /\ \A i \in DOMAIN Coming : i \in DOMAIN Coming' /\ Coming'[i] = Coming[i]
      /\ \A i \in DOMAIN Coming' : i \notin DOMAIN Coming =>
           i = Len(Coming) + 1 /\ Coming'[i] = f /\ Coming' = Append(Coming, f)
      /\ Len(Coming) \in Nat
      /\ Range(Coming) \subseteq Range(Coming')
  BY <1>1, ComingLonger
<1>3. PICK c \in 0..Len(log) : Reached(c)
  BY DEF HubTurn, MirrorOrder, Cut
<1>4. reader \notin detached' => c = Len(log)
  BY <1>3 DEF Reached, HubTurn
<1>5. \A h \in Had : h <= c
  BY <1>3 DEF Reached
<1>6. ASSUME NEW i \in DOMAIN Coming', NEW h \in Bears(Coming'[i]) PROVE h <= c
  <2>1. CASE i \in DOMAIN Coming
    BY <1>2, <1>3, <1>6, <2>1 DEF Reached
  <2>2. CASE i \notin DOMAIN Coming
    <3>1. Coming' # Coming
      BY <2>2
    <3>2. Bears(Coming'[i]) = Marks(job[reader].result) /\ job[reader].stage = "answering"
      BY <1>1, <1>2, <2>2, <3>1 DEF Bears
    <3> QED BY <1>3, <1>6, <3>2 DEF Reached
  <2> QED BY <2>1, <2>2
<1>7. job'[reader].stage = "answering" => \A h \in Marks(job'[reader].result) : h <= c
  BY <1>3 DEF Reached, MarksNoMore
<1>8. \A u \in Known(view) : Held(u) \subseteq Held(u)'
  BY <1>2, HubTurnSame DEF Held
<1>9. ASSUME NEW u \in Known(view) \ gone', NEW b \in 0..Len(log), Based(u, b)'
      PROVE  Between(u, b, c) \subseteq Held(u)'
  <2>1. CASE Based(u, b)
    <3>1. Between(u, b, c) \subseteq Held(u)
      BY <1>3, <2>1 DEF Reached, HubTurn
    <3> QED BY <1>8, <3>1
  <2>2. CASE Between(u, b, Len(log)) = {}
    <3>1. \A e \in Told : e.seq \in Nat /\ e.seq <= Len(log)
      BY HubTurnSame, ToldTyped
    <3>2. Between(u, b, c) = {}
      BY <2>2, <3>1 DEF Between
    <3> QED BY <3>2
  <2>3. Based(u, b) \/ Between(u, b, Len(log)) = {}
    <3>1. CASE view'.mirrors[u].primed /\ b = view'.mirrors[u].applied
      BY <3>1, HubTurnSame DEF Based
    <3>2. ASSUME NEW i \in 1..(Len(Coming') + 1), Promised(u, b, i)'
          PROVE  Based(u, b) \/ Between(u, b, Len(log)) = {}
      BY <3>2 DEF PromisesNow, Based
    <3> QED BY <1>9, <3>1, <3>2 DEF Based
  <2> QED BY <2>1, <2>2, <2>3
<1>10. \A u, b : Between(u, b, c)' = Between(u, b, c)
  BY DEF Between, Told
<1>11. Reached(c)'
  BY <1>4, <1>5, <1>6, <1>7, <1>9, <1>10, HubTurnSame DEF Reached
<1> QED BY <1>11, HubTurnSame DEF Cut

\* A turn that commits nothing.
LEMMA QuietKeeps ==
  ASSUME HubTurn, log' = log,
         Connected => Upright' /\ AnswersMore /\ MarksNoMore /\ PromisesNow /\ LinksNow
  PROVE  ClientOrder' /\ MirrorOrder'
<1>1. ClientOrder' /\ CopiesTrue' /\ Gapless' /\ AllKept'
  BY HubTurnCalls, HistoryKept
<1>2. CASE ~Connected
  <2>1. Upright' /\ Stream' /\ Bases' /\ Cut'
    BY <1>2, HubTurnSame DEF Upright, Stream, Bases, Cut
  <2> QED BY <1>1, <2>1 DEF MirrorOrder
<1>3. CASE Connected
  BY <1>1, <1>3, QuietStream, QuietBases, QuietCut DEF MirrorOrder
<1> QED BY <1>2, <1>3

\* What the hub's job promises now it did before, or promises as of the end of the log.
JobPromises ==
  \A r \in waiting, u \in Known(view) \ gone', b \in 0..Len(log) :
    Restates(r) /\ u \in r.uris /\ InJob(r, u, b)' =>
      \/ InJob(r, u, b) /\ (Linked(u) => Linked(u)')
      \/ Between(u, b, Len(log)) = {} /\ Linked(u)'

ClaimsLinked == \A u \in Known(view) \ gone' : Claimed(u) /\ Linked(u) => Linked(u)'

\* A turn that sends nothing.
LEMMA JobTurn ==
  ASSUME HubTurn, log' = log,
         Connected => Coming' = Coming /\ Upright' /\ MarksNoMore /\ JobPromises /\ ClaimsLinked
  PROVE  ClientOrder' /\ MirrorOrder'
<1>1. ASSUME Connected PROVE AnswersMore /\ PromisesNow /\ LinksNow
  <2>1. Coming' = Coming /\ JobPromises /\ ClaimsLinked
    BY <1>1
  <2>2. AnswersMore
    BY <2>1 DEF AnswersMore
  <2>3. Len(Coming) \in Nat /\ DOMAIN Coming = 1..Len(Coming)
    BY <1>1, Parted DEF HubTurn, ComingParts
  <2>4. \A u \in Known(view) \ gone', b \in 0..Len(log) : Based(u, b) => Linked(u)
    BY <1>1 DEF HubTurn, MirrorOrder, Bases
  <2>5. \A i, r, u, b : InFrame(i, r, u, b)' => InFrame(i, r, u, b)
    <3>1. \A r, u, b, i : Brings(Coming[i].result, r, u, b)' => Brings(Coming[i].result, r, u, b)
      BY <2>1, HubTurnSame DEF Brings, Between, Told
    <3> QED BY <2>1, <3>1 DEF InFrame, AnswerTo, Brings
  <2>6. ASSUME NEW u \in Known(view) \ gone', NEW b \in 0..Len(log), NEW i \in 1..(Len(Coming) + 1),
               Promised(u, b, i)'
        PROVE  \/ Promised(u, b, i) /\ (Linked(u) => Linked(u)')
               \/ Between(u, b, Len(log)) = {} /\ Linked(u)'
    <3>1. /\ ~view.mirrors[u].primed
          /\ \E r \in waiting :
               /\ Restates(r) /\ u \in r.uris
               /\ \/ i \in DOMAIN Coming /\ InFrame(i, r, u, b)'
                  \/ i = Len(Coming) + 1 /\ InJob(r, u, b)'
      BY <2>1, <2>6, HubTurnSame DEF Promised, Restates
    <3>2. PICK r \in waiting :
               /\ Restates(r) /\ u \in r.uris
               /\ \/ i \in DOMAIN Coming /\ InFrame(i, r, u, b)'
                  \/ i = Len(Coming) + 1 /\ InJob(r, u, b)'
      BY <3>1
    <3>3. CASE i \in DOMAIN Coming /\ InFrame(i, r, u, b)'
      <4>1. InFrame(i, r, u, b)
        BY <2>5, <3>3
      <4>2. Promised(u, b, i)
        BY <3>1, <3>2, <3>3, <4>1 DEF Promised
      <4>3. Claimed(u)
        BY <3>2, <3>3, <4>1 DEF Claimed, InFrame
      <4>4. Linked(u)
        BY <2>4, <4>2 DEF Based
      <4> QED BY <2>1, <4>2, <4>3, <4>4 DEF ClaimsLinked
    <3>4. CASE i = Len(Coming) + 1 /\ InJob(r, u, b)'
      <4>1. \/ InJob(r, u, b) /\ (Linked(u) => Linked(u)')
            \/ Between(u, b, Len(log)) = {} /\ Linked(u)'
        BY <2>1, <3>2, <3>4 DEF JobPromises
      <4>2. InJob(r, u, b) => Promised(u, b, i)
        BY <3>1, <3>2, <3>4 DEF Promised
      <4> QED BY <4>1, <4>2
    <3> QED BY <3>2, <3>3, <3>4
  <2>7. PromisesNow
    BY <2>1, <2>6 DEF PromisesNow
  <2>8. ASSUME NEW u \in Known(view) \ gone', NEW b \in 0..Len(log), Based(u, b)' PROVE Linked(u)'
    <3>1. CASE view'.mirrors[u].primed /\ b = view'.mirrors[u].applied
      <4>1. Claimed(u) /\ Based(u, b)
        BY <3>1, HubTurnSame DEF Claimed, Based
      <4>2. Linked(u)
        BY <2>4, <4>1
      <4> QED BY <2>1, <4>1, <4>2 DEF ClaimsLinked
    <3>2. ASSUME NEW i \in 1..(Len(Coming) + 1), Promised(u, b, i)' PROVE Linked(u)'
      <4>1. \/ Promised(u, b, i) /\ (Linked(u) => Linked(u)')
            \/ Between(u, b, Len(log)) = {} /\ Linked(u)'
        BY <2>6, <3>2
      <4>2. Promised(u, b, i) => Linked(u)
        BY <2>4 DEF Based
      <4> QED BY <4>1, <4>2
    <3> QED BY <2>1, <2>8, <3>1, <3>2 DEF Based
  <2>9. LinksNow
    BY <2>8 DEF LinksNow
  <2> QED BY <2>2, <2>7, <2>9
<1> QED BY <1>1, QuietKeeps

\* A turn for another socket, or one that ends the client's.
LEMMA ElsewhereKeeps ==
  ASSUME HubTurn, log' = log, Connected => Coming' = Coming,
         Connected =>
           \/ up'[reader] = up[reader] /\ job'[reader] = job[reader]
           \/ /\ up'[reader] = << >> /\ reader \in detached'
              /\ job'[reader] = Idle \/ (job'[reader] = job[reader] /\ job[reader].stage = "writing"),
         Connected => \A u \in Known(view) \ gone' : Linked(u) => Linked(u)'
  PROVE  ClientOrder' /\ MirrorOrder'
<1>1. ASSUME Connected PROVE Upright' /\ MarksNoMore /\ JobPromises /\ ClaimsLinked
  <2>1. /\ Coming' = Coming
        /\ \/ up'[reader] = up[reader] /\ job'[reader] = job[reader]
           \/ /\ up'[reader] = << >> /\ reader \in detached'
              /\ job'[reader] = Idle \/ (job'[reader] = job[reader] /\ job[reader].stage = "writing")
    BY <1>1
  <2>2. reader \in Sockets /\ up[reader] \in Seq(UpFrames)
    BY <1>1, ReaderIs DEF HubTurn, Types, WireTypes
  <2>3. Shrinks(0)
    <3>1. Shifted(up[reader], up[reader], 0)
      BY <2>2, ShiftedNot
    <3> QED BY <2>1, <3>1 DEF Shrinks
  <2>4. job'[reader] = job[reader] \/ job'[reader] = Idle
    BY <2>1
  <2>5. \A r \in waiting : Handling(r)' => Handling(r)
    BY <2>4, HubTurnSame DEF Handling
  <2>6. Shaking' => Shaking
    BY <2>4, HubTurnSame DEF Shaking, Idle
  <2>7. Upright'
    BY <1>1, <2>1, <2>3, <2>5, <2>6, UprightOn
  <2>8. MarksNoMore
    BY <2>4 DEF MarksNoMore, Idle
  <2>9. \A r, u, b : InJob(r, u, b)' => InJob(r, u, b)
    <3>1. CASE job'[reader] = Idle
      BY <3>1, HubTurnSame DEF InJob, Handling
    <3>2. CASE job'[reader] = job[reader]
      <4>1. \A r, u, b : Brings(job[reader].result, r, u, b)' => Brings(job[reader].result, r, u, b)
        BY <3>2, HubTurnSame DEF Brings, Between, Told
      <4> QED BY <3>2, <4>1, HubTurnSame DEF InJob, Handling
    <3> QED BY <2>4, <3>1, <3>2
  <2>10. JobPromises /\ ClaimsLinked
    BY <1>1, <2>9 DEF JobPromises, ClaimsLinked
  <2> QED BY <2>7, <2>8, <2>10
<1> QED BY <1>1, JobTurn

\* What a turn of the hub leaves of the wire.
LEMMA FrameTaken ==
  ASSUME HubTurn, NEW s \in 1..current, NEW methods, FrameFor(s, methods)
  PROVE  /\ s \in Sockets /\ s \notin detached /\ job[s] = Idle
         /\ up[s] \in Seq(UpFrames) /\ 1 \in DOMAIN up[s] /\ Head(up[s]) = up[s][1]
         /\ Head(up[s]) \in UpFrames /\ Head(up[s]).method \in methods
         /\ Shifted(up[s], Tail(up[s]), 1)
         /\ up \in [Sockets -> Seq(UpFrames)] /\ job \in [Sockets -> Jobs]
<1>1. s \in Sockets /\ up \in [Sockets -> Seq(UpFrames)] /\ job \in [Sockets -> Jobs]
  BY LinkWithin DEF HubTurn, HubOrder, Types, WireTypes, HubTypes
<1>2. s \notin detached /\ job[s] = Idle /\ up[s] # << >> /\ Head(up[s]).method \in methods
  BY DEF FrameFor
<1>3. PICK q : q = up[s]
  OBVIOUS
<1>4. q \in Seq(UpFrames) /\ q # << >>
  BY <1>1, <1>2, <1>3
<1>5. Shifted(q, Tail(q), 1) /\ Head(q) = q[1] /\ 1 \in DOMAIN q
  BY <1>4, ShiftedTail
<1>6. Head(q) \in UpFrames
  BY <1>4
<1> QED BY <1>1, <1>2, <1>3, <1>4, <1>5, <1>6

\* The client's link at the hub is the socket it reads, or is none.
LEMMA LinkedHere ==
  ASSUME HubTurn, Connected, NEW u, Linked(u)
  PROVE  reader \in detached \/ (link = reader /\ u \in subs /\ link # 0)
BY DEF Linked, Connected

\* A handshake of another socket: the client's ends, if it was linked.
LEMMA HandshakeElsewhere ==
  ASSUME HubTurn, NEW s \in 1..current, TakeHandshake(s), s # reader
  PROVE  ClientOrder' /\ MirrorOrder'
<1> DEFINE replaced == {link} \ {0, s}
<1>1. /\ s \in Sockets /\ up \in [Sockets -> Seq(UpFrames)] /\ job \in [Sockets -> Jobs]
  BY FrameTaken DEF TakeHandshake
<1>2. /\ log' = log /\ down' = down /\ link' = s /\ subs' = {}
      /\ detached' = detached \cup replaced /\ up' = Drained(Taken(s), replaced)
  BY DEF TakeHandshake, hubVars
<1>3. \A t \in Sockets : t # s =>
        /\ up'[t] = IF t \in replaced THEN << >> ELSE up[t]
        /\ job'[t] = IF t \in replaced /\ job[t].stage # "writing" THEN Idle ELSE job[t]
  BY <1>1 DEF TakeHandshake, Drained, Taken, Ended
<1> HIDE DEF replaced
<1>4. ASSUME Connected
      PROVE  /\ Coming' = Coming
             /\ \/ up'[reader] = up[reader] /\ job'[reader] = job[reader]
                \/ /\ up'[reader] = << >> /\ reader \in detached'
                   /\ job'[reader] = Idle \/ (job'[reader] = job[reader] /\ job[reader].stage = "writing")
             /\ \A u \in Known(view) \ gone' : Linked(u) => Linked(u)'
  <2>1. reader \in Sockets /\ reader' = reader /\ reader # 0
    BY <1>4, ReaderIs DEF HubTurn, Connected
  <2>2. Coming' = Coming
    BY <1>2, <2>1 DEF Coming
  <2>3. \/ up'[reader] = up[reader] /\ job'[reader] = job[reader]
        \/ /\ up'[reader] = << >> /\ reader \in detached'
           /\ job'[reader] = Idle \/ (job'[reader] = job[reader] /\ job[reader].stage = "writing")
    BY <1>2, <1>3, <2>1
  <2>4. ASSUME NEW u, Linked(u) PROVE Linked(u)'
    <3>1. reader \in detached \/ (link = reader /\ link # 0)
      BY <1>4, <2>4, LinkedHere
    <3>2. reader \in detached'
      BY <1>2, <2>1, <3>1 DEF replaced
    <3> QED BY <2>1, <3>2 DEF Linked
  <2> QED BY <2>2, <2>3, <2>4
<1> QED BY <1>2, <1>4, ElsewhereKeeps

\* A handshake of the client's socket: nobody counts on anything.
LEMMA HandshakeHere ==
  ASSUME HubTurn, TakeHandshake(reader), Connected, reader \in 1..current
  PROVE  ClientOrder' /\ MirrorOrder'
<1>1. PICK s \in 1..current : s = reader /\ TakeHandshake(s)
  OBVIOUS
<1>2. /\ s \in Sockets /\ up \in [Sockets -> Seq(UpFrames)] /\ job \in [Sockets -> Jobs]
      /\ job[s] = Idle /\ 1 \in DOMAIN up[s] /\ Head(up[s]) = up[s][1]
      /\ Shifted(up[s], Tail(up[s]), 1) /\ Head(up[s]).method \in {"hello", "reconnect"}
  BY <1>1, FrameTaken DEF TakeHandshake
<1>3. PICK f : f = Head(up[s])
  OBVIOUS
<1>4. PICK stage : /\ stage \in {"resuming", "greeting", "subscribing"}
                   /\ stage = "greeting" => f.uris = {}
                   /\ job'[s] = Job(stage, f, f.uris)
  <2>1. job'[s] = Job(IF f.method = "reconnect" THEN "resuming"
                      ELSE IF f.uris = {} THEN "greeting" ELSE "subscribing", f, f.uris)
    BY <1>1, <1>2, <1>3 DEF TakeHandshake, Ended
  <2> QED BY <2>1
<1>5. /\ log' = log /\ down' = down /\ Coming' = Coming
      /\ up'[s] = Tail(up[s])
  <2>1. log' = log /\ down' = down /\ up' = Drained(Taken(s), {link} \ {0, s})
    BY <1>1 DEF TakeHandshake, hubVars
  <2>2. up'[s] = Tail(up[s])
    BY <1>2, <2>1 DEF Drained, Taken
  <2> QED BY <2>1, <2>2, HubTurnSame DEF Coming
<1>6. ASSUME NEW u \in Uris PROVE ~Claimed(u)
  <2>1. ~Undisturbed(u)
    BY <1>1, <1>2 DEF Undisturbed, Upsets
  <2> QED BY <2>1 DEF HubTurn, MirrorOrder, Upright
<1>7. Upright'
  <2>1. Shrinks(1)
    BY <1>1, <1>2, <1>5 DEF Shrinks
  <2>2. \A r \in waiting : Handling(r)' => up[reader][1] = r /\ 1 \in DOMAIN up[reader]
    BY <1>1, <1>2, <1>3, <1>4, HubTurnSame DEF Handling, Job
  <2> QED BY <1>5, <1>6, <2>1, <2>2, UprightOn
<1>8. MarksNoMore
  BY <1>1, <1>4 DEF MarksNoMore, Job
<1>9. JobPromises
  <2>1. \A r, u, b : InJob(r, u, b)' => stage \in {"greeting", "subscribing"} /\ r = f /\ u \notin f.uris
    BY <1>1, <1>4, HubTurnSame DEF InJob, Handling, Job
  <2> QED BY <2>1 DEF JobPromises
<1>10. ClaimsLinked
  <2>1. Known(view) \subseteq Uris
    BY Parted DEF HubTurn, ClientParts
  <2> QED BY <1>6, <2>1 DEF ClaimsLinked
<1> QED BY <1>5, <1>7, <1>8, <1>9, <1>10, JobTurn

\* A handshake is taken up.
LEMMA TakeHandshakeKeeps ==
  ASSUME HubTurn, NEW s \in 1..current, TakeHandshake(s)
  PROVE  ClientOrder' /\ MirrorOrder'
<1>1. CASE s # reader
  BY <1>1, HandshakeElsewhere
<1>2. CASE s = reader
  <2>1. s # 0
    BY FrameTaken DEF TakeHandshake, Sockets
  <2>2. Connected
    BY <1>2, <2>1 DEF Connected
  <2> QED BY <1>2, <2>2, HandshakeHere
<1> QED BY <1>1, <1>2

\* A frame of the client's socket is taken up, and its request is refused or put to work.
LEMMA TakeHere ==
  ASSUME HubTurn, Connected, NEW s \in 1..current, s = reader, NEW methods, FrameFor(s, methods),
         log' = log, down' = down, up' = Taken(s),
         \/ job'[s] = job[s]
         \/ /\ job'[s].request = Head(up[s]) /\ ~Shaking'
            /\ \/ job'[s].stage = "subscribing" /\ job'[s].snapshots = {}
                  /\ (job'[s].request).uris \subseteq job'[s].todo
               \/ job'[s].stage = "committing"
               \/ job'[s].stage = "answering" /\ job'[s].result.type \in {"error", "duplicate"},
         \A u \in Known(view) \ gone' : Claimed(u) /\ Linked(u) => Linked(u)'
  PROVE  ClientOrder' /\ MirrorOrder'
<1>1. /\ s \in Sockets /\ up \in [Sockets -> Seq(UpFrames)] /\ job[s] = Idle
      /\ 1 \in DOMAIN up[s] /\ Head(up[s]) = up[s][1] /\ Shifted(up[s], Tail(up[s]), 1)
  BY FrameTaken
<1>2. up'[s] = Tail(up[s]) /\ Coming' = Coming
  BY <1>1, HubTurnSame DEF Taken, Coming
<1>3. Upright'
  <2>1. Shrinks(1)
    BY <1>1, <1>2 DEF Shrinks
  <2>2. \A r \in waiting : Handling(r)' => up[reader][1] = r /\ 1 \in DOMAIN up[reader]
    BY <1>1, HubTurnSame DEF Handling
  <2>3. ~Shaking'
    BY <1>1, HubTurnSame DEF Shaking, Idle
  <2> QED BY <1>2, <2>1, <2>2, <2>3, UprightOn
<1>4. MarksNoMore
  BY <1>1 DEF MarksNoMore, Marks, Idle
<1>5. JobPromises
  <2>1. ASSUME NEW r, NEW u, NEW b, InJob(r, u, b)' PROVE u \notin r.uris
    <3>1. job'[s] # Idle /\ job'[s].request = r
      BY <2>1, HubTurnSame DEF InJob, Handling
    <3>2. CASE job'[s].stage = "subscribing" /\ job'[s].snapshots = {}
                  /\ (job'[s].request).uris \subseteq job'[s].todo
      BY <2>1, <3>1, <3>2, HubTurnSame DEF InJob
    <3>3. CASE job'[s].stage = "committing"
      BY <2>1, <3>3, HubTurnSame DEF InJob
    <3>4. CASE job'[s].stage = "answering" /\ job'[s].result.type \in {"error", "duplicate"}
      BY <2>1, <3>4, HubTurnSame DEF InJob, Brings
    <3> QED BY <1>1, <3>1, <3>2, <3>3, <3>4
  <2> QED BY <2>1 DEF JobPromises
<1>6. ClaimsLinked
  BY DEF ClaimsLinked
<1> QED BY <1>2, <1>3, <1>4, <1>5, <1>6, JobTurn

\* A subscription, a dispatch, and the end of a subscription are taken up.
LEMMA TakesKeep ==
  ASSUME HubTurn, NEW s \in 1..current,
         TakeSubscribe(s) \/ TakeUnsubscribe(s) \/ TakeDispatch(s)
  PROVE  ClientOrder' /\ MirrorOrder'
<1>1. PICK methods : FrameFor(s, methods)
  BY DEF TakeSubscribe, TakeUnsubscribe, TakeDispatch
<1>2. /\ s \in Sockets /\ up \in [Sockets -> Seq(UpFrames)] /\ job \in [Sockets -> Jobs]
      /\ job[s] = Idle /\ 1 \in DOMAIN up[s] /\ Head(up[s]) = up[s][1] /\ Head(up[s]) \in UpFrames
  BY <1>1, FrameTaken
<1>3. /\ log' = log /\ down' = down /\ up' = Taken(s) /\ link' = link /\ detached' = detached
      /\ subs' = subs \/ (link = s /\ subs' = subs \ {Head(up[s]).uri} /\ TakeUnsubscribe(s))
  BY DEF TakeSubscribe, TakeUnsubscribe, TakeDispatch, hubVars, linkVars
<1>4. \A t \in Sockets : t # s => up'[t] = up[t] /\ job'[t] = job[t]
  BY <1>2, <1>3 DEF TakeSubscribe, TakeUnsubscribe, TakeDispatch, Taken
<1>5. Connected => reader \in Sockets
  BY ReaderIs DEF HubTurn
<1>6. CASE s # reader
  <2>1. ASSUME Connected
        PROVE  \A u \in Known(view) \ gone' : Linked(u) => Linked(u)'
    <3>1. subs' = subs \/ link # reader
      BY <1>3, <1>6
    <3> QED BY <1>3, <3>1, HubTurnSame DEF Linked
  <2>2. Connected => Coming' = Coming
    BY <1>3, HubTurnSame DEF Coming
  <2>3. Connected => up'[reader] = up[reader] /\ job'[reader] = job[reader]
    BY <1>4, <1>5, <1>6
  <2> QED BY <1>3, <2>1, <2>2, <2>3, ElsewhereKeeps
<1>7. CASE s = reader
  <2>1. Connected
    BY <1>2, <1>7 DEF Connected, Sockets
  <2>2. PICK f : f = Head(up[s])
    OBVIOUS
  <2>3. CASE TakeSubscribe(s)
    <3>1. job'[s] = IF link = s THEN Job("subscribing", f, {f.uri}) ELSE Refusal(f)
      BY <1>2, <2>2, <2>3 DEF TakeSubscribe
    <3>2. f.method = "subscribe" /\ f \in UpFrames
      BY <1>2, <2>2, <2>3 DEF TakeSubscribe, FrameFor
    <3>3. f.uris = {f.uri}
      BY <3>2 DEF UpFrames, Issued, Requests
    <3>4. ~Shaking'
      BY <1>7, <3>1, <3>2, HubTurnSame DEF Shaking, Job, Refusal, Answering
    <3>5. \/ job'[s].stage = "subscribing" /\ job'[s].snapshots = {}
                  /\ (job'[s].request).uris \subseteq job'[s].todo
          \/ job'[s].stage = "answering" /\ job'[s].result.type \in {"error", "duplicate"}
      BY <3>1, <3>3 DEF Job, Refusal, Answering
    <3>6. job'[s].request = Head(up[s])
      BY <2>2, <3>1 DEF Job, Refusal, Answering
    <3>7. subs' = subs
      BY <2>3 DEF TakeSubscribe, linkVars
    <3>8. \A u \in Known(view) \ gone' : Claimed(u) /\ Linked(u) => Linked(u)'
      BY <1>3, <3>7, HubTurnSame DEF Linked
    <3> QED BY <1>1, <1>3, <1>7, <2>1, <3>4, <3>5, <3>6, <3>8, TakeHere
  <2>4. CASE TakeDispatch(s)
    <3>1. \/ job'[s] = Job("committing", f, {})
          \/ job'[s] = Answering(f, [type |-> "duplicate"])
          \/ job'[s] = Refusal(f)
      BY <1>2, <2>2, <2>4 DEF TakeDispatch
    <3>4. ~Shaking'
      BY <1>7, <3>1, HubTurnSame DEF Shaking, Job, Refusal, Answering
    <3>5. \/ job'[s].stage = "committing"
          \/ job'[s].stage = "answering" /\ job'[s].result.type \in {"error", "duplicate"}
      BY <3>1 DEF Job, Refusal, Answering
    <3>6. job'[s].request = Head(up[s])
      BY <2>2, <3>1 DEF Job, Refusal, Answering
    <3>7. subs' = subs
      BY <2>4 DEF TakeDispatch, linkVars
    <3>8. \A u \in Known(view) \ gone' : Claimed(u) /\ Linked(u) => Linked(u)'
      BY <1>3, <3>7, HubTurnSame DEF Linked
    <3> QED BY <1>1, <1>3, <1>7, <2>1, <3>4, <3>5, <3>6, <3>8, TakeHere
  <2>5. CASE TakeUnsubscribe(s)
    <3>1. job' = job
      BY <2>5 DEF TakeUnsubscribe
    <3>2. f.method = "unsubscribe"
      BY <2>2, <2>5 DEF TakeUnsubscribe, FrameFor
    <3>3. ASSUME NEW u \in Known(view) \ gone', Claimed(u), Linked(u) PROVE Linked(u)'
      <4>1. u \in Uris
        BY Parted DEF HubTurn, ClientParts
      <4>2. Undisturbed(u)
        BY <2>1, <3>3, <4>1 DEF HubTurn, MirrorOrder, Upright
      <4>3. f.uri # u
        BY <1>2, <1>7, <2>2, <3>2, <4>2 DEF Undisturbed, Upsets
      <4> QED BY <1>3, <2>2, <3>3, <4>3, HubTurnSame DEF Linked
    <3> QED BY <1>1, <1>3, <1>7, <2>1, <3>1, <3>3, TakeHere
  <2> QED BY <2>3, <2>4, <2>5
<1> QED BY <1>6, <1>7

\* The hub goes on with the frame of another socket.
LEMMA WorkElsewhere ==
  ASSUME HubTurn, log' = log, UNCHANGED <<up, down, detached>>, NEW s \in 1..current, s # reader,
         \A t \in Sockets : t # s => job'[t] = job[t],
         (link' = link /\ subs \subseteq subs') \/ link = s
  PROVE  ClientOrder' /\ MirrorOrder'
<1>1. Connected => reader \in Sockets
  BY ReaderIs DEF HubTurn
<1>2. Connected => Coming' = Coming /\ up'[reader] = up[reader] /\ job'[reader] = job[reader]
  BY <1>1, HubTurnSame DEF Coming
<1>3. \A u : Linked(u) => Linked(u)'
  BY HubTurnSame DEF Linked
<1> QED BY <1>2, <1>3, ElsewhereKeeps

\* ... and with the one of the client's.
LEMMA WorkHere ==
  ASSUME HubTurn, Connected, log' = log, UNCHANGED <<up, down>>,
         job'[reader].request = job[reader].request, job[reader] # Idle,
         Shaking' => Shaking, MarksNoMore, JobPromises, ClaimsLinked
  PROVE  ClientOrder' /\ MirrorOrder'
<1>1. reader \in Sockets /\ up[reader] \in Seq(UpFrames) /\ Coming' = Coming
  BY ReaderIs, HubTurnSame DEF HubTurn, Types, WireTypes, Coming
<1>2. Shrinks(0)
  <2>1. Shifted(up[reader], up[reader], 0)
    BY <1>1, ShiftedNot
  <2> QED BY <2>1 DEF Shrinks
<1>3. \A r \in waiting : Handling(r)' => Handling(r)
  BY HubTurnSame DEF Handling
<1>4. Upright'
  BY <1>1, <1>2, <1>3, UprightOn
<1> QED BY <1>1, <1>4, JobTurn

\* The link of the client's socket, while that socket is at work on it.
LEMMA LinkedWork ==
  ASSUME HubTurn, Connected, job[reader].stage \in {"subscribing", "greeting", "resuming"}
  PROVE  /\ link = reader /\ reader \notin detached /\ reader \in Sockets /\ job[reader] # Idle
         /\ job[reader] \in Jobs /\ JobGood(job[reader]) /\ job[reader].request \in Requests
         /\ JobGood(job[reader])'
<1>1. reader \in Sockets /\ reader' = reader
  BY ReaderIs DEF HubTurn
<1>2. link = reader /\ reader \notin detached
  BY <1>1 DEF HubTurn, HubOrder, LinksOrdered
<1>3. job[reader] \in Jobs /\ job[reader] # Idle
  BY <1>1 DEF HubTurn, Types, HubTypes, Idle
<1>4. job[reader].request \in Requests
  BY <1>3 DEF Jobs, Issued, Idle
<1>5. JobGood(job[reader])
  BY <1>1 DEF HubTurn, HubOrder, JobsGood
<1>6. JobGood(job[reader])'
  BY <1>1 DEF HubTurn, HubOrder, JobsGood
<1> QED BY <1>1, <1>2, <1>3, <1>4, <1>5, <1>6

\* Channels that nothing is committed to, and the end of the log.
LEMMA NothingAfter ==
  ASSUME HubTypes, LogKept, NEW u, NEW b \in Nat, u \in Stateless \/ b = Len(log)
  PROVE  Between(u, b, Len(log)) = {}
<1>1. Len(log) \in Nat /\ DOMAIN log = 1..Len(log)
  BY LogTyped
<1>2. ASSUME NEW e \in Told PROVE e.uri \notin Stateless /\ e.seq <= Len(log) /\ e.seq \in Nat
  <2>1. e.seq \in 1..Len(log) /\ log[e.seq] = e
    BY LogTyped
  <2>2. e.uri \in Stateful
    BY <1>1, <2>1 DEF LogKept
  <2>3. e.uri \notin Stateless
    BY <2>2 DEF Stateful
  <2>4. PICK n, k : n = Len(log) /\ k = e.seq
    OBVIOUS
  <2>6. k \in 1..n /\ n \in Nat
    BY <1>1, <2>1, <2>4
  <2>5. k <= n /\ k \in Nat
    BY <2>6
  <2> QED BY <2>3, <2>4, <2>5
<1>3. ASSUME NEW e \in Between(u, b, Len(log)) PROVE FALSE
  <2>1. e \in Told /\ e.uri = u /\ b < e.seq
    BY <1>3 DEF Between
  <2>2. PICK n, k : n = Len(log) /\ k = e.seq
    OBVIOUS
  <2>3. k <= n /\ k \in Nat /\ n \in Nat /\ u \notin Stateless /\ b < k
    BY <1>1, <1>2, <2>1, <2>2
  <2> QED BY <2>2, <2>3
<1> QED BY <1>3

\* What the hub is about to answer is about the past.
LEMMA MarksWithin ==
  ASSUME Types, HubOrder, Connected, job[reader].stage = "answering",
         job[reader].result.type # "hello"
  PROVE  \A h \in Marks(job[reader].result) : h <= Len(log)
<1>1. reader \in Sockets /\ HubTypes
  BY ReaderIs DEF Types
<1>2. job[reader] \in Jobs /\ job[reader] # Idle
  BY <1>1 DEF HubTypes, Idle
<1>3. PICK j : j = job[reader]
  OBVIOUS
<1>4. j.result \in Results /\ GoodResult(j.request, j.result)
  BY <1>1, <1>2, <1>3 DEF HubOrder, JobsGood, JobGood, Jobs, Idle
<1>5. \A e \in Told : e.seq <= Len(log)
  BY <1>1, LogTyped
<1>6. CASE j.result.type = "replay"
  <2>1. j.result.actions \in Seq(Told)
    BY <1>4, <1>6, ResultParts
  <2>2. \A k \in DOMAIN j.result.actions : j.result.actions[k] \in Told
    BY <2>1
  <2> QED BY <1>3, <1>5, <1>6, <2>2 DEF Marks
<1>7. CASE j.result.type = "envelope"
  BY <1>3, <1>4, <1>5, <1>7, ResultParts DEF Marks
<1>8. CASE j.result.type \in {"subscribed", "snapshot"}
  <2>1. \A t \in j.result.snapshots : t.fromSeq <= Len(log)
    BY <1>4, <1>8 DEF GoodResult, TrueSnapshots
  <2> QED BY <1>3, <1>8, <2>1 DEF Marks
<1>9. CASE j.result.type \in {"error", "duplicate"}
  BY <1>3, <1>9 DEF Marks
<1> QED BY <1>3, <1>4, <1>6, <1>7, <1>8, <1>9, ResultParts

\* The same as an implication ...
LEMMA MarksWithinThen ==
  Types /\ HubOrder /\ Connected /\ job[reader].stage = "answering"
    /\ job[reader].result.type # "hello"
  => \A h \in Marks(job[reader].result) : h <= Len(log)
BY MarksWithin

\* ... of the state after a step.
LEMMA MarksWithinNext ==
  (Types /\ HubOrder /\ Connected /\ job[reader].stage = "answering"
    /\ job[reader].result.type # "hello")'
  => (\A h \in Marks(job[reader].result) : h <= Len(log))'
BY MarksWithinThen, PTL

\* hello or subscribe reaches a channel.
LEMMA SubscribeOneHere ==
  ASSUME HubTurn, Connected, NEW u \in Uris, NEW s \in 1..current, s = reader,
         SubscribeOne(s, u)
  PROVE  ClientOrder' /\ MirrorOrder'
<1>1. /\ job[s].stage = "subscribing" /\ u \in job[s].todo /\ s \in Sockets
      /\ link = s /\ s \notin detached /\ job[s] # Idle /\ JobGood(job[s]) /\ JobGood(job[s])'
      /\ job[s].request \in Requests
      /\ job \in [Sockets -> Jobs] /\ HubTypes /\ LogKept
  <2>1. job[s].stage = "subscribing" /\ u \in job[s].todo
    BY DEF SubscribeOne
  <2> QED BY <2>1, LinkedWork DEF HubTurn, HubOrder, Types, HubTypes
<1>2. log' = log /\ UNCHANGED <<up, down>> /\ detached' = detached
  BY DEF SubscribeOne, hubVars
<1>3. Known(view) \subseteq Uris
  BY Parted DEF HubTurn, ClientParts
<1>4. PICK r : r = job[s].request
  OBVIOUS
<1>5. CASE u \in gone
  <2>1. job'[s] = Refusal(r) /\ (r.method = "hello" \/ UNCHANGED linkVars)
    BY <1>1, <1>4, <1>5 DEF SubscribeOne
  <2>2. job'[s].request = r /\ ~Shaking'
    BY <2>1, HubTurnSame DEF Refusal, Answering, Shaking
  <2>3. MarksNoMore
    BY <2>1, HubTurnSame DEF Refusal, Answering, MarksNoMore, Marks
  <2>4. JobPromises
    BY <2>1, HubTurnSame DEF Refusal, Answering, JobPromises, InJob, Brings
  <2>5. ClaimsLinked
    <3>1. CASE r.method = "hello"
      <4>1. Shaking
        BY <1>1, <1>4, <3>1 DEF Shaking
      <4>2. \A t \in Uris : ~Claimed(t)
        BY <4>1 DEF HubTurn, MirrorOrder, Upright
      <4> QED BY <1>3, <4>2 DEF ClaimsLinked
    <3>2. CASE UNCHANGED linkVars
      BY <1>2, <3>2, HubTurnSame DEF ClaimsLinked, Linked, linkVars
    <3> QED BY <2>1, <3>1, <3>2
  <2> QED BY <1>1, <1>2, <1>4, <2>2, <2>3, <2>4, <2>5, WorkHere
<1>6. CASE u \notin gone
  <2> DEFINE got == IF u \in Stateless THEN job[s].snapshots
                    ELSE job[s].snapshots \cup {SnapshotOf(u)}
             todo == job[s].todo \ {u}
  <2>1. /\ subs' = subs \cup {u} /\ link' = link
        /\ job'[s] = IF r.method = "subscribe"
                     THEN Answering(r, [type |-> "subscribed", snapshots |-> got])
                     ELSE [job[s] EXCEPT !.todo = todo, !.snapshots = got,
                                         !.stage = IF todo = {} THEN "greeting" ELSE "subscribing"]
    BY <1>1, <1>4, <1>6 DEF SubscribeOne
  <2>2. \A t \in got : t \in job[s].snapshots \/ (t.uri = u /\ t.fromSeq = Len(log))
    BY DEF SnapshotOf
  <2>3. \A t : t \notin todo => t \notin job[s].todo \/ t = u
    OBVIOUS
  <2> HIDE DEF got, todo
  <2>4. CASE r.method = "subscribe"
    <3>1. /\ job'[s].stage = "answering" /\ job'[s].request = r
          /\ job'[s].result = [type |-> "subscribed", snapshots |-> got]
      BY <2>1, <2>4 DEF Answering
    <3>2. ~Shaking'
      BY <3>1, HubTurnSame DEF Shaking
    <3>3. MarksNoMore
      <4>1. (Types /\ HubOrder /\ Connected /\ job[reader].stage = "answering"
                /\ job[reader].result.type # "hello")'
        BY <3>1, HubTurnSame DEF HubTurn
      <4>2. (\A h \in Marks(job[reader].result) : h <= Len(log))'
        BY <4>1, MarksWithinNext
      <4>3. \A h \in Marks(job'[s].result) : h <= Len(log)
        BY <1>2, <4>2, HubTurnSame DEF Marks
      <4> QED BY <1>1, <4>3 DEF MarksNoMore
    <3>4. r.uris = job[s].todo /\ r.uris = {u}
      <4>1. r.uris = job[s].todo
        BY <1>1, <1>4, <2>4 DEF JobGood
      <4>2. r.uris = {r.uri}
        BY <1>1, <1>4, <2>4 DEF Requests
      <4> QED BY <1>1, <4>1, <4>2
    <3>5. ASSUME NEW q \in waiting, NEW t \in Known(view) \ gone', NEW b \in 0..Len(log),
                 t \in q.uris, InJob(q, t, b)'
          PROVE  \/ InJob(q, t, b)
                 \/ Between(t, b, Len(log)) = {} /\ t = u
      <4>1. q = r
        BY <1>4, <3>1, <3>5, HubTurnSame DEF InJob, Handling
      <4>2. \/ \E x \in got : x.uri = t /\ x.fromSeq = b
            \/ t \in Stateless /\ b = view.mirrors[t].applied
        BY <3>1, <3>5, HubTurnSame DEF InJob, Brings
      <4>3. t = u
        BY <3>4, <3>5, <4>1
      <4>4. CASE \E x \in job[s].snapshots : x.uri = t /\ x.fromSeq = b
        <5>1. Handling(q)
          BY <1>1, <1>4, <4>1 DEF Handling
        <5> QED BY <1>1, <4>4, <5>1 DEF InJob
      <4>5. CASE b = Len(log) \/ t \in Stateless
        BY <1>1, <4>3, <4>5, NothingAfter
      <4> QED BY <2>2, <4>2, <4>4, <4>5
    <3>6. \A t : Linked(t) => Linked(t)'
      BY <1>2, <2>1, HubTurnSame DEF Linked
    <3>7. Linked(u)'
      BY <1>1, <1>2, <2>1, HubTurnSame DEF Linked
    <3>8. JobPromises /\ ClaimsLinked
      BY <3>5, <3>6, <3>7 DEF JobPromises, ClaimsLinked
    <3> QED BY <1>1, <1>2, <1>4, <3>1, <3>2, <3>3, <3>8, WorkHere
  <2>5. CASE r.method # "subscribe"
    <3>1. /\ job'[s].stage \in {"subscribing", "greeting"} /\ job'[s].request = r
          /\ job'[s].snapshots = got /\ job'[s].todo = todo
      <4>1. DOMAIN job[s] = {"stage", "request", "todo", "missing", "snapshots"}
        BY <1>1 DEF Jobs, Idle
      <4> QED BY <1>4, <2>1, <2>5, <4>1
    <3>2. Shaking' => Shaking
      BY <1>1, <1>4, <3>1, HubTurnSame DEF Shaking
    <3>3. MarksNoMore
      BY <3>1, HubTurnSame DEF MarksNoMore
    <3>5. ASSUME NEW q, NEW t \in Known(view) \ gone', NEW b \in 0..Len(log),
                 InJob(q, t, b)'
          PROVE  \/ InJob(q, t, b)
                 \/ Between(t, b, Len(log)) = {} /\ t = u
      <4>1. q = r /\ Handling(q)
        BY <1>1, <1>4, <3>1, <3>5, HubTurnSame DEF InJob, Handling
      <4>2. \/ \E x \in got : x.uri = t /\ x.fromSeq = b
            \/ t \in Stateless /\ t \notin todo /\ b = view.mirrors[t].applied
        BY <3>1, <3>5, HubTurnSame DEF InJob
      <4>4. CASE \E x \in job[s].snapshots : x.uri = t /\ x.fromSeq = b
        BY <1>1, <4>1, <4>4 DEF InJob
      <4>5. CASE t = u /\ (b = Len(log) \/ t \in Stateless)
        BY <1>1, <4>5, NothingAfter
      <4>6. CASE t \in Stateless /\ t \notin job[s].todo /\ b = view.mirrors[t].applied
        BY <1>1, <4>1, <4>6 DEF InJob
      <4> QED BY <2>2, <2>3, <4>2, <4>4, <4>5, <4>6
    <3>6. \A t : Linked(t) => Linked(t)'
      BY <1>2, <2>1, HubTurnSame DEF Linked
    <3>7. Linked(u)'
      BY <1>1, <1>2, <2>1, HubTurnSame DEF Linked
    <3>8. JobPromises /\ ClaimsLinked
      BY <3>5, <3>6, <3>7 DEF JobPromises, ClaimsLinked
    <3> QED BY <1>1, <1>2, <1>4, <3>1, <3>2, <3>3, <3>8, WorkHere
  <2> QED BY <2>4, <2>5
<1> QED BY <1>5, <1>6

\* The client's link of a socket that is at work on it.
LEMMA WorkLinks ==
  ASSUME HubTurn, NEW s \in 1..current
  PROVE  /\ s \in Sockets /\ job \in [Sockets -> Jobs] /\ (s = reader => Connected)
         /\ job[s].stage \in {"subscribing", "greeting", "resuming"} => link = s
<1>1. s \in Sockets
  BY LinkWithin DEF HubTurn, HubOrder
<1>2. job \in [Sockets -> Jobs]
  BY DEF HubTurn, Types, HubTypes
<1>3. s # 0
  BY <1>1 DEF Sockets
<1> QED BY <1>1, <1>2, <1>3 DEF HubTurn, HubOrder, LinksOrdered, Connected

\* hello or subscribe reaches a channel.
LEMMA SubscribeOneKeeps ==
  ASSUME HubTurn, NEW u \in Uris, NEW s \in 1..current, SubscribeOne(s, u)
  PROVE  ClientOrder' /\ MirrorOrder'
<1>1. /\ s \in Sockets /\ job \in [Sockets -> Jobs] /\ link = s
      /\ log' = log /\ UNCHANGED <<up, down, detached>>
  BY WorkLinks DEF SubscribeOne, hubVars
<1>2. CASE s = reader
  BY <1>2, WorkLinks, SubscribeOneHere
<1>3. CASE s # reader
  <2>1. \A t \in Sockets : t # s => job'[t] = job[t]
    BY <1>1 DEF SubscribeOne
  <2> QED BY <1>1, <1>3, <2>1, WorkElsewhere
<1> QED BY <1>2, <1>3

\* hello reads the sequence.
LEMMA GreetKeeps ==
  ASSUME HubTurn, NEW s \in 1..current, Greet(s)
  PROVE  ClientOrder' /\ MirrorOrder'
<1>1. /\ s \in Sockets /\ job \in [Sockets -> Jobs] /\ link = s /\ job[s].stage = "greeting"
      /\ log' = log /\ UNCHANGED <<up, down, detached, link, subs>>
  BY WorkLinks DEF Greet, hubVars, linkVars
<1>2. job'[s] = Answering(job[s].request,
        [type |-> "hello", serverSeq |-> Len(log), snapshots |-> job[s].snapshots])
  BY <1>1 DEF Greet
<1>3. CASE s # reader
  <2>1. \A t \in Sockets : t # s => job'[t] = job[t]
    BY <1>1 DEF Greet
  <2> QED BY <1>1, <1>3, <2>1, WorkElsewhere
<1>4. CASE s = reader
  <2>1. /\ Connected /\ reader \notin detached /\ job[reader] # Idle /\ JobGood(job[reader])
    BY <1>1, <1>4, WorkLinks, LinkedWork
  <2>2. /\ job'[s].stage = "answering" /\ job'[s].request = job[s].request
        /\ job'[s].result =
             [type |-> "hello", serverSeq |-> Len(log), snapshots |-> job[s].snapshots]
    BY <1>2 DEF Answering
  <2>3. ~Shaking'
    BY <1>4, <2>2, HubTurnSame DEF Shaking
  <2>4. TrueSnapshots(job[s].snapshots) /\ job[s].todo = {}
    BY <1>1, <1>4, <2>1 DEF JobGood
  <2>5. MarksNoMore
    <3>1. Len(log) \in Nat
      BY LogTyped DEF HubTurn, Types
    <3>2. \A t \in job[s].snapshots : t.fromSeq <= Len(log)
      BY <2>4 DEF TrueSnapshots
    <3>3. Marks(job'[s].result) = {Len(log)} \cup {t.fromSeq : t \in job[s].snapshots}
      BY <2>2 DEF Marks
    <3>4. \A h \in Marks(job'[s].result) : h <= Len(log)
      BY <3>1, <3>2, <3>3
    <3> QED BY <1>4, <2>1, <3>4 DEF MarksNoMore
  <2>6. ASSUME NEW r, NEW u, NEW b, InJob(r, u, b)' PROVE InJob(r, u, b)
    <3>1. Handling(r)
      BY <1>4, <2>1, <2>2, <2>6, HubTurnSame DEF InJob, Handling
    <3>2. \/ \E t \in job[s].snapshots : t.uri = u /\ t.fromSeq = b
          \/ u \in Stateless /\ b = view.mirrors[u].applied
      BY <1>4, <2>2, <2>6, HubTurnSame DEF InJob, Brings
    <3> QED BY <1>1, <1>4, <2>4, <3>1, <3>2 DEF InJob
  <2>7. \A u : Linked(u) => Linked(u)'
    BY <1>1, HubTurnSame DEF Linked
  <2>8. JobPromises /\ ClaimsLinked
    BY <2>6, <2>7 DEF JobPromises, ClaimsLinked
  <2> QED BY <1>1, <1>4, <2>1, <2>2, <2>3, <2>5, <2>8, WorkHere
<1> QED BY <1>3, <1>4

\* A turn of the client's socket after which its job promises nothing.
LEMMA WorkSilent ==
  ASSUME HubTurn, Connected, log' = log, UNCHANGED <<up, down, detached, link>>, subs \subseteq subs',
         job'[reader].request = job[reader].request, job[reader] # Idle,
         \/ job'[reader].stage \in {"resuming", "writing"}
         \/ job'[reader].stage = "answering" /\ job'[reader].result.type = "error"
  PROVE  ClientOrder' /\ MirrorOrder'
<1>1. PICK j : j = job'[reader]
  OBVIOUS
<1>2. \/ j.stage \in {"resuming", "writing"}
      \/ j.stage = "answering" /\ j.result.type = "error"
  BY <1>1
<1>3. ~Shaking'
  BY <1>1, <1>2, HubTurnSame DEF Shaking
<1>4. MarksNoMore
  BY <1>1, <1>2 DEF MarksNoMore, Marks
<1>5. \A r, u, b : ~InJob(r, u, b)'
  BY <1>1, <1>2, HubTurnSame DEF InJob, Brings
<1>6. \A u : Linked(u) => Linked(u)'
  BY HubTurnSame DEF Linked
<1>7. JobPromises /\ ClaimsLinked
  BY <1>5, <1>6 DEF JobPromises, ClaimsLinked
<1> QED BY <1>3, <1>4, <1>7, WorkHere

\* reconnect reaches a channel.
LEMMA ResumeOneKeeps ==
  ASSUME HubTurn, NEW s \in 1..current, NEW u \in Uris, ResumeOne(s, u)
  PROVE  ClientOrder' /\ MirrorOrder'
<1>1. /\ s \in Sockets /\ job \in [Sockets -> Jobs] /\ link = s /\ job[s].stage = "resuming"
      /\ log' = log /\ UNCHANGED <<up, down, detached, link>> /\ subs \subseteq subs'
  BY WorkLinks DEF ResumeOne, hubVars
<1>2. CASE s # reader
  <2>1. \A t \in Sockets : t # s => job'[t] = job[t]
    BY <1>1 DEF ResumeOne
  <2> QED BY <1>1, <1>2, <2>1, WorkElsewhere
<1>3. CASE s = reader
  <2>1. Connected /\ job[s] # Idle
    BY <1>1, <1>3, WorkLinks, LinkedWork
  <2>2. job[s] \in Jobs
    BY <1>1
  <2>3. job'[s].stage = "resuming" /\ job'[s].request = job[s].request
    BY <1>1, <2>1, <2>2 DEF ResumeOne, Jobs
  <2> QED BY <1>1, <1>3, <2>1, <2>3, WorkSilent
<1> QED BY <1>2, <1>3

\* A commit starts, or is refused.
LEMMA CommitKeeps ==
  ASSUME HubTurn, NEW s \in 1..current, Commit(s)
  PROVE  ClientOrder' /\ MirrorOrder'
<1>1. /\ s \in Sockets /\ job \in [Sockets -> Jobs] /\ job[s].stage = "committing"
      /\ log' = log /\ UNCHANGED <<up, down, detached, link, subs>>
  BY WorkLinks DEF Commit, hubVars, linkVars
<1>2. CASE s # reader
  <2>1. \A t \in Sockets : t # s => job'[t] = job[t]
    BY <1>1 DEF Commit
  <2> QED BY <1>1, <1>2, <2>1, WorkElsewhere
<1>3. CASE s = reader
  <2>1. Connected /\ job[s] # Idle
    BY <1>1, <1>3, WorkLinks DEF Idle
  <2>2. PICK verdict \in Verdicts :
          job'[s] = IF verdict = "throw" THEN Refusal(job[s].request)
                    ELSE [stage |-> "writing", request |-> job[s].request,
                          accepted |-> verdict = "accept"]
    BY <1>1 DEF Commit
  <2>3. /\ job'[s].request = job[s].request
        /\ \/ job'[s].stage = "writing"
           \/ job'[s].stage = "answering" /\ job'[s].result.type = "error"
    BY <2>2 DEF Refusal, Answering
  <2> QED BY <1>1, <1>3, <2>1, <2>3, WorkSilent
<1> QED BY <1>2, <1>3

\* What answers a reconnect: all there is to tell, as of the end of the log.
LEMMA ResumeTells ==
  ASSUME HubTypes, LogKept, NEW r \in Requests, NEW missing, r.uris \ gone \subseteq subs,
         NEW u \in r.uris \ gone, NEW b \in 0..Len(log),
         Brings(AnswerToResume(r, missing), r, u, b)
  PROVE  Between(u, b, Len(log)) = {}
<1>1. PICK result : result = AnswerToResume(r, missing)
  OBVIOUS
<1>2. Len(log) \in Nat /\ r.seen \in Nat
  BY LogTyped DEF Requests
<1>3. CASE r.seen = Len(log) \/ Replayed!Covers(ring, r.seen)
  <2>1. result = Replay(r.seen, missing)
    BY <1>1, <1>3 DEF AnswerToResume
  <2>2. Replays(Replay(r.seen, missing).actions, r, Len(log))
    BY <1>3, ReplayIsAll
  <2>3. Replays(result.actions, r, Len(log)) /\ result.type = "replay"
    BY <2>1, <2>2 DEF Replay
  <2>4. {e \in Range(result.actions) : e.uri = u} = Between(u, r.seen, Len(log))
    BY <2>3 DEF Replays
  <2>5. r.seen <= b /\ {e \in Range(result.actions) : e.uri = u} = Between(u, r.seen, b)
    BY <1>1, <2>3 DEF Brings
  <2>6. Between(u, r.seen, Len(log)) = Between(u, r.seen, b)
    BY <2>4, <2>5
  <2>7. ASSUME NEW e \in Between(u, b, Len(log)) PROVE FALSE
    <3>1. e \in Told /\ e.uri = u /\ b < e.seq /\ e.seq <= Len(log) /\ e.seq \in Nat
      BY <2>7, ToldTyped DEF Between
    <3>2. r.seen < e.seq
      BY <1>2, <2>5, <3>1
    <3>3. e \in Between(u, r.seen, b)
      BY <2>6, <3>1, <3>2 DEF Between
    <3>4. e.seq <= b
      BY <3>3 DEF Between
    <3> QED BY <3>1, <3>4
  <2> QED BY <2>7
<1>4. CASE ~(r.seen = Len(log) \/ Replayed!Covers(ring, r.seen))
  <2>1. result = [type |-> "snapshot", missing |-> missing,
                  snapshots |-> {SnapshotOf(t) : t \in (r.uris \ missing) \ Stateless}]
    BY <1>1, <1>4 DEF AnswerToResume
  <2>2. result.type = "snapshot" /\ \A t \in result.snapshots : t.fromSeq = Len(log)
    BY <2>1 DEF SnapshotOf
  <2>3. u \in Stateless \/ b = Len(log)
    BY <1>1, <2>2 DEF Brings
  <2> QED BY <2>3, NothingAfter
<1> QED BY <1>3, <1>4

\* The same as an implication, for a state before or after a step.
LEMMA ResumeTellsThen ==
  HubTypes /\ LogKept =>
    \A r \in Requests : \A missing :
      r.uris \ gone \subseteq subs =>
        \A u \in r.uris \ gone, b \in 0..Len(log) :
          Brings(AnswerToResume(r, missing), r, u, b) => Between(u, b, Len(log)) = {}
BY ResumeTells

\* A reconnect has reached all its channels, and is answered.
LEMMA ResumeKeeps ==
  ASSUME HubTurn, NEW s \in 1..current, Resume(s)
  PROVE  ClientOrder' /\ MirrorOrder'
<1>1. /\ s \in Sockets /\ job \in [Sockets -> Jobs] /\ link = s /\ job[s].stage = "resuming"
      /\ log' = log /\ UNCHANGED <<up, down, detached, link, subs, gone>> /\ job[s].todo = {}
  BY WorkLinks DEF Resume, hubVars, linkVars
<1>2. job'[s] = Answering(job[s].request, AnswerToResume(job[s].request, job[s].missing))
  BY <1>1 DEF Resume
<1>3. CASE s # reader
  <2>1. \A t \in Sockets : t # s => job'[t] = job[t]
    BY <1>1 DEF Resume
  <2> QED BY <1>1, <1>3, <2>1, WorkElsewhere
<1>4. CASE s = reader
  <2>1. /\ Connected /\ reader \notin detached /\ job[reader] # Idle /\ JobGood(job[reader])
        /\ job[reader].request \in Requests
    BY <1>1, <1>4, WorkLinks, LinkedWork
  <2>2. PICK r, missing, result :
          r = job[s].request /\ missing = job[s].missing /\ result = AnswerToResume(r, missing)
    OBVIOUS
  <2>3. job'[s].stage = "answering" /\ job'[s].request = r /\ job'[s].result = result
    BY <1>2, <2>2 DEF Answering
  <2>4. result.type \in {"replay", "snapshot"}
    BY <2>2 DEF AnswerToResume, Replay
  <2>5. ~Shaking'
    BY <1>4, <2>3, HubTurnSame DEF Shaking
  <2>6. r \in Requests /\ r.uris \ gone \subseteq subs
    BY <1>1, <1>4, <2>1, <2>2 DEF JobGood
  <2>7. MarksNoMore
    <3>1. (Types /\ HubOrder /\ Connected /\ job[reader].stage = "answering"
              /\ job[reader].result.type # "hello")'
      BY <1>4, <2>1, <2>3, <2>4, HubTurnSame DEF HubTurn
    <3>2. (\A h \in Marks(job[reader].result) : h <= Len(log))'
      BY <3>1, MarksWithinNext
    <3>3. \A h \in Marks(job'[s].result) : h <= Len(log)
      BY <1>1, <1>4, <3>2, HubTurnSame DEF Marks
    <3> QED BY <1>4, <2>1, <3>3 DEF MarksNoMore
  <2>8. \A u : Linked(u) => Linked(u)'
    BY <1>1, HubTurnSame DEF Linked
  <2>9. ASSUME NEW q \in waiting, NEW u \in Known(view) \ gone', NEW b \in 0..Len(log),
               u \in q.uris, InJob(q, u, b)'
        PROVE  Between(u, b, Len(log)) = {} /\ Linked(u)'
    <3>1. q = r
      BY <1>4, <2>3, <2>9, HubTurnSame DEF InJob, Handling
    <3>2. Brings(result, q, u, b)
      <4>1. Brings(job[reader].result, q, u, b)'
        BY <1>4, <2>3, <2>9, HubTurnSame DEF InJob
      <4> QED BY <1>1, <1>4, <2>3, <4>1, HubTurnSame DEF Brings, Between, Told
    <3>3. u \in r.uris \ gone
      BY <1>1, <2>9, <3>1
    <3>4. HubTypes /\ LogKept
      BY DEF HubTurn, HubOrder, Types
    <3>5. Brings(AnswerToResume(r, missing), r, u, b)
      BY <2>2, <3>1, <3>2
    <3>6. Between(u, b, Len(log)) = {}
      BY <2>6, <3>3, <3>4, <3>5, ResumeTellsThen
    <3>7. Linked(u)
      BY <1>1, <1>4, <2>6, <3>3 DEF Linked
    <3> QED BY <2>8, <3>6, <3>7
  <2>10. JobPromises /\ ClaimsLinked
    BY <2>8, <2>9 DEF JobPromises, ClaimsLinked
  <2> QED BY <1>1, <1>4, <2>1, <2>2, <2>3, <2>5, <2>7, <2>10, WorkHere
<1> QED BY <1>3, <1>4

\* The answer to a frame of the client's socket is sent.
LEMMA AnswerSent ==
  ASSUME HubTurn, Connected, log' = log, reader \in Sockets, job \in [Sockets -> Jobs],
         job[reader].stage = "answering", job'[reader] = Idle,
         UNCHANGED <<up, detached, link, subs>>, NEW f,
         f = [kind |-> "answer", id |-> job[reader].request.id, result |-> job[reader].result],
         Coming' = Append(Coming, f)
  PROVE  ClientOrder' /\ MirrorOrder'
<1>1. PICK j : j = job[reader]
  OBVIOUS
<1>2. j \in Jobs /\ j # Idle /\ j.stage = "answering"
  BY <1>1 DEF Idle
<1>3. j.request \in Issued
  BY <1>2 DEF Jobs, Idle
<1>4. /\ f.kind = "answer" /\ f.id = j.request.id /\ f.result = j.result /\ ~IsPush(f)
      /\ Marks(f.result) = Marks(job[reader].result)
  BY <1>1 DEF IsPush
<1>5. AnswersMore
  BY <1>1, <1>2, <1>4 DEF AnswersMore
<1>6. /\ Len(Coming) \in Nat /\ DOMAIN Coming = 1..Len(Coming)
      /\ Len(Coming') = Len(Coming) + 1 /\ DOMAIN Coming' = 1..(Len(Coming) + 1)
      /\ \A i \in DOMAIN Coming : i \in DOMAIN Coming' /\ Coming'[i] = Coming[i]
      /\ Coming'[Len(Coming) + 1] = f
  <2>1. Len(Coming) \in Nat /\ DOMAIN Coming = 1..Len(Coming) /\ Coming \in Seq(DownFrames)
    BY Parted DEF HubTurn, ComingParts
  <2>2. Coming' = [k \in 1..(Len(Coming) + 1) |-> IF k = Len(Coming) + 1 THEN f ELSE Coming[k]]
    BY <2>1, AppendIs
  <2>3. Len(Coming') \in Nat /\ DOMAIN Coming' = 1..Len(Coming') /\ Len(Coming') = Len(Coming) + 1
    BY <1>4, ComingLonger
  <2> QED BY <2>1, <2>2, <2>3
<1>7. \A r \in waiting : AnswerTo(f, r) => Handling(r)
  BY <1>1, <1>2, <1>3, <1>4 DEF AnswerTo, Issued, Handling
<1>8. /\ \A r : ~Handling(r)'
      /\ ~Shaking'
      /\ \A r, u, b : ~InJob(r, u, b)'
  BY HubTurnSame DEF Handling, Shaking, InJob, Idle
<1>9. MarksNoMore
  BY DEF MarksNoMore, Idle
<1>10. Upright'
  <2>1. Shrinks(0)
    <3>1. up[reader] \in Seq(UpFrames)
      BY DEF HubTurn, Types, WireTypes
    <3>2. Shifted(up[reader], up[reader], 0)
      BY <3>1, ShiftedNot
    <3> QED BY <3>2 DEF Shrinks
  <2>2. ASSUME NEW r \in waiting, NEW i \in DOMAIN Coming', AnswerTo(Coming'[i], r)
        PROVE  \/ \E k \in DOMAIN Coming : AnswerTo(Coming[k], r)
               \/ Handling(r) /\ ~Shaking' /\ ~Handling(r)'
    <3>1. CASE i \in DOMAIN Coming
      BY <1>6, <2>2, <3>1
    <3>2. CASE i = Len(Coming) + 1
      BY <1>6, <1>7, <1>8, <2>2, <3>2
    <3> QED BY <1>6, <3>1, <3>2
  <2> QED BY <1>8, <2>1, <2>2, UprightOn
<1>11. ASSUME NEW i \in 1..(Len(Coming') + 1), NEW u \in Known(view), NEW b, Promised(u, b, i)'
       PROVE  i \in 1..(Len(Coming) + 1) /\ Promised(u, b, i)
  <2>1. ~view.mirrors[u].primed
    BY <1>11, HubTurnSame DEF Promised
  <2>2. PICK r \in waiting : Restates(r) /\ u \in r.uris /\ i \in DOMAIN Coming' /\ InFrame(i, r, u, b)'
    BY <1>8, <1>11, HubTurnSame DEF Promised, Restates
  <2>3. AnswerTo(Coming'[i], r)
    BY <2>2 DEF InFrame, AnswerTo
  <2>4. PICK g : g = Coming'[i]
    OBVIOUS
  <2>5. Brings(g.result, r, u, b)
    <3>1. Brings(Coming[i].result, r, u, b)'
      BY <2>2 DEF InFrame
    <3> QED BY <2>4, <3>1, HubTurnSame DEF Brings, Between, Told
  <2>6. CASE i \in DOMAIN Coming
    <3>1. InFrame(i, r, u, b)
      BY <1>6, <2>3, <2>4, <2>5, <2>6 DEF InFrame
    <3> QED BY <1>6, <2>1, <2>2, <2>6, <3>1 DEF Promised
  <2>7. CASE i = Len(Coming) + 1
    <3>1. g = f
      BY <1>6, <2>4, <2>7
    <3>2. Handling(r)
      BY <1>7, <2>3, <2>4, <3>1
    <3>3. Brings(job[reader].result, r, u, b)
      BY <1>1, <1>4, <2>5, <3>1
    <3>4. InJob(r, u, b)
      BY <1>1, <1>2, <3>2, <3>3 DEF InJob
    <3> QED BY <1>6, <2>1, <2>2, <2>7, <3>4 DEF Promised
  <2> QED BY <1>6, <2>2, <2>6, <2>7
<1>12. PromisesNow
  BY <1>11 DEF PromisesNow
<1>13. LinksNow
  <2>1. \A u : Linked(u) => Linked(u)'
    BY HubTurnSame DEF Linked
  <2>2. ASSUME NEW u \in Known(view) \ gone', NEW b \in 0..Len(log), Based(u, b)' PROVE Linked(u)
    <3>1. Based(u, b)
      <4>1. CASE view'.mirrors[u].primed /\ b = view'.mirrors[u].applied
        BY <4>1, HubTurnSame DEF Based
      <4>2. CASE \E i \in 1..(Len(Coming') + 1) : Promised(u, b, i)'
        BY <1>11, <4>2 DEF Based
      <4> QED BY <2>2, <4>1, <4>2 DEF Based
    <3> QED BY <2>2, <3>1 DEF HubTurn, MirrorOrder, Bases
  <2> QED BY <2>1, <2>2 DEF LinksNow
<1> QED BY <1>5, <1>9, <1>10, <1>12, <1>13, QuietKeeps

\* An answer leaves.
LEMMA AnswerKeeps ==
  ASSUME HubTurn, NEW s \in 1..current, Answer(s)
  PROVE  ClientOrder' /\ MirrorOrder'
<1> DEFINE f == [kind |-> "answer", id |-> job[s].request.id, result |-> job[s].result]
<1>1. /\ s \in Sockets /\ job \in [Sockets -> Jobs] /\ job[s].stage = "answering"
      /\ log' = log /\ UNCHANGED <<up, detached, link, subs>> /\ job' = [job EXCEPT ![s] = Idle]
      /\ down' = SentDown(down, s, f)
  BY WorkLinks DEF Answer, hubVars, linkVars
<1> HIDE DEF f
<1>2. \A u : Linked(u) => Linked(u)'
  BY <1>1, HubTurnSame DEF Linked
<1>3. CASE s # reader
  <2>1. down' = down
    BY <1>1, <1>3 DEF SentDown
  <2>2. Connected => reader \in Sockets
    BY ReaderIs DEF HubTurn
  <2>3. Connected => Coming' = Coming /\ up'[reader] = up[reader] /\ job'[reader] = job[reader]
    BY <1>1, <1>3, <2>1, <2>2, HubTurnSame DEF Coming
  <2> QED BY <1>1, <1>2, <2>3, ElsewhereKeeps
<1>4. CASE s = reader /\ s \in detached
  <2>1. Connected /\ down' = down
    BY <1>1, <1>4, WorkLinks DEF SentDown
  <2>2. Coming' = Coming /\ job'[reader] = Idle
    BY <1>1, <1>4, <2>1, HubTurnSame DEF Coming
  <2>3. /\ \A r : ~Handling(r)'
        /\ ~Shaking'
        /\ \A r, u, b : ~InJob(r, u, b)'
    BY <2>2, HubTurnSame DEF Handling, Shaking, InJob, Idle
  <2>4. Shrinks(0)
    <3>1. up[reader] \in Seq(UpFrames)
      BY <1>1, <1>4 DEF HubTurn, Types, WireTypes
    <3>2. Shifted(up[reader], up[reader], 0)
      BY <3>1, ShiftedNot
    <3> QED BY <1>1, <3>2 DEF Shrinks
  <2>5. Upright'
    BY <2>1, <2>2, <2>3, <2>4, UprightOn
  <2>6. MarksNoMore
    BY <2>2 DEF MarksNoMore, Idle
  <2>7. JobPromises /\ ClaimsLinked
    BY <1>2, <2>3 DEF JobPromises, ClaimsLinked
  <2> QED BY <1>1, <2>2, <2>5, <2>6, <2>7, JobTurn
<1>5. CASE s = reader /\ s \notin detached
  <2>1. Connected /\ Coming' = Append(Coming, f)
    BY <1>1, <1>5, WorkLinks, SentComes DEF HubTurn
  <2> QED BY <1>1, <1>5, <2>1, AnswerSent DEF f
<1> QED BY <1>3, <1>4, <1>5

\* A socket ends.
LEMMA DetachKeeps ==
  ASSUME HubTurn, NEW s \in 1..current, Detach(s)
  PROVE  ClientOrder' /\ MirrorOrder'
<1>1. /\ s \in Sockets /\ job \in [Sockets -> Jobs]
      /\ log' = log /\ down' = down /\ detached' = detached \cup {s}
      /\ up' = Drained(up, {s}) /\ job' = Ended(job, {s})
      /\ link # s => UNCHANGED <<link, subs>>
  BY WorkLinks DEF Detach, hubVars, linkVars
<1>2. ASSUME Connected
      PROVE  /\ Coming' = Coming
             /\ \/ up'[reader] = up[reader] /\ job'[reader] = job[reader]
                \/ /\ up'[reader] = << >> /\ reader \in detached'
                   /\ job'[reader] = Idle \/ (job'[reader] = job[reader] /\ job[reader].stage = "writing")
             /\ \A u \in Known(view) \ gone' : Linked(u) => Linked(u)'
  <2>1. reader \in Sockets /\ reader' = reader /\ Coming' = Coming
    BY <1>1, <1>2, ReaderIs, HubTurnSame DEF HubTurn, Coming
  <2>2. CASE s = reader
    <3>1. up'[reader] = << >> /\ reader \in detached'
      BY <1>1, <2>1, <2>2 DEF Drained
    <3>2. job'[reader] = Idle \/ (job'[reader] = job[reader] /\ job[reader].stage = "writing")
      BY <1>1, <2>1, <2>2 DEF Ended
    <3>3. \A u : Linked(u)'
      BY <2>1, <3>1 DEF Linked
    <3> QED BY <2>1, <3>1, <3>2, <3>3
  <2>3. CASE s # reader
    <3>1. up'[reader] = up[reader] /\ job'[reader] = job[reader]
      BY <1>1, <2>1, <2>3 DEF Drained, Ended
    <3>2. \A u : Linked(u) => Linked(u)'
      BY <1>1, <2>1, <2>3 DEF Linked
    <3> QED BY <2>1, <3>1, <3>2
  <2> QED BY <2>2, <2>3
<1> QED BY <1>1, <1>2, ElsewhereKeeps

\* A channel is destroyed.
LEMMA DestroyKeeps ==
  ASSUME HubTurn, NEW u \in Uris, Destroy(u)
  PROVE  ClientOrder' /\ MirrorOrder'
<1>1. /\ log' = log /\ gone' = gone \cup {u} /\ subs' = subs \ {u}
      /\ UNCHANGED <<link, job, up, down, detached>>
  BY DEF Destroy
<1>2. \A t : t \notin gone' /\ Linked(t) => Linked(t)'
  BY <1>1, HubTurnSame DEF Linked
<1>3. Connected => Coming' = Coming
  BY <1>1, HubTurnSame DEF Coming
<1> QED BY <1>1, <1>2, <1>3, ElsewhereKeeps

-----------------------------------------------------------------------------
(* Commits. *)

\* One more envelope, which the client is sent if it is linked and subscribed.
NewsTurn(e) ==
  /\ HubTurn /\ Connected
  /\ e.seq = Len(log) + 1 /\ e.kind = "action" /\ log' = Append(log, e) /\ gone' = gone
  /\ reader \notin detached' => link' = link /\ subs' = subs
  /\ Coming' = Coming \/ (Coming' = Append(Coming, e) /\ reader \notin detached')
  /\ reader \notin detached' /\ link = reader /\ e.uri \in subs => Coming' = Append(Coming, e)
  /\ up'[reader] = up[reader] \/ up'[reader] = << >>
  /\ \/ job'[reader] = job[reader]
     \/ job'[reader] = Idle
     \/ /\ reader \notin detached' /\ job[reader] # Idle
        /\ job'[reader].stage = "answering" /\ job'[reader].request = job[reader].request
        /\ job'[reader].result = [type |-> "envelope", envelope |-> e]

\* The log before and after it.
LEMMA NewsTold ==
  ASSUME NEW e, NewsTurn(e)
  PROVE  /\ Len(log) \in Nat /\ Len(log') = Len(log) + 1 /\ Told' = Told \cup {e}
         /\ IsPush(e) /\ Bears(e) = {e.seq}
         /\ \A x \in Told : x.seq \in Nat /\ x.seq <= Len(log)
<1>1. log \in Seq(Envelopes) /\ Len(log) \in Nat /\ DOMAIN log = 1..Len(log) /\ HubTypes
  BY LogTyped DEF NewsTurn, HubTurn, Types
<1>2. log' = [k \in 1..(Len(log) + 1) |-> IF k = Len(log) + 1 THEN e ELSE log[k]]
  BY <1>1, AppendIs DEF NewsTurn
<1>3. Told' = Told \cup {e}
  <2>1. DOMAIN log' = 1..(Len(log) + 1) /\ log'[Len(log) + 1] = e
        /\ \A k \in 1..Len(log) : log'[k] = log[k]
    BY <1>1, <1>2
  <2>2. \A k \in 1..(Len(log) + 1) : k = Len(log) + 1 \/ k \in 1..Len(log)
    BY <1>1
  <2>3. Len(log) + 1 \in DOMAIN log' /\ \A k \in 1..Len(log) : k \in DOMAIN log'
    BY <1>1, <2>1
  <2> QED BY <1>1, <2>1, <2>2, <2>3 DEF Told
<1>4. Len(log') = Len(log) + 1
  BY <1>1 DEF NewsTurn
<1>5. \A x \in Told : x.seq \in 1..Len(log)
  BY <1>1, LogTyped
<1>6. \A x \in Told : x.seq \in Nat /\ x.seq <= Len(log)
  BY <1>1, <1>5
<1> QED BY <1>1, <1>3, <1>4, <1>6 DEF NewsTurn, IsPush, Bears

\* The frames before and after it.
LEMMA NewsComing ==
  ASSUME NEW e, NewsTurn(e)
  PROVE  /\ Len(Coming) \in Nat /\ Len(Coming') \in Nat /\ Len(Coming) <= Len(Coming')
         /\ DOMAIN Coming = 1..Len(Coming) /\ DOMAIN Coming' = 1..Len(Coming')
         /\ \A i \in DOMAIN Coming : i \in DOMAIN Coming' /\ Coming'[i] = Coming[i]
         /\ \A i \in DOMAIN Coming' : i \notin DOMAIN Coming =>
              /\ i = Len(Coming) + 1 /\ Coming'[i] = e /\ Coming' = Append(Coming, e)
              /\ reader \notin detached'
         /\ Range(Coming) \subseteq Range(Coming')
         /\ Coming' = Append(Coming, e) =>
              Len(Coming') = Len(Coming) + 1 /\ e \in Range(Coming')
         /\ Coming' # Append(Coming, e) => Coming' = Coming
<1>1. HubTurn /\ Connected /\ (Coming' = Coming \/ Coming' = Append(Coming, e))
  BY DEF NewsTurn
<1>2. ASSUME NEW i \in DOMAIN Coming', i \notin DOMAIN Coming
      PROVE  reader \notin detached'
  BY <1>2 DEF NewsTurn
<1> QED BY <1>1, <1>2, ComingLonger

\* The client goes on as it did.
LEMMA NewsUpright ==
  ASSUME NEW e, NewsTurn(e)
  PROVE  Upright'
<1>1. HubTurn /\ Connected
  BY DEF NewsTurn
<1>2. Shrinks(0)
  <2>1. up[reader] \in Seq(UpFrames)
    BY <1>1, ReaderIs DEF HubTurn, Types, WireTypes
  <2>2. Shifted(up[reader], up[reader], 0)
    BY <2>1, ShiftedNot
  <2> QED BY <2>2 DEF Shrinks, NewsTurn
<1>3. \A r : Handling(r)' => Handling(r)
  BY HubTurnSame DEF Handling, NewsTurn
<1>4. Shaking' => Shaking
  BY HubTurnSame DEF Shaking, NewsTurn, Idle
<1>5. ASSUME NEW r, NEW i \in DOMAIN Coming', AnswerTo(Coming'[i], r)
      PROVE  \E j \in DOMAIN Coming : AnswerTo(Coming[j], r)
  <2>1. ~AnswerTo(e, r)
    BY DEF AnswerTo, NewsTurn
  <2> QED BY <1>5, <2>1, NewsComing
<1> QED BY <1>1, <1>2, <1>3, <1>4, <1>5, UprightOn

\* The envelope is the last of the stream.
LEMMA NewsStream ==
  ASSUME NEW e, NewsTurn(e)
  PROVE  Stream'
<1>1. HubTurn /\ Connected /\ Len(log) \in Nat
  BY NewsTold DEF NewsTurn
<1>2. PICK c \in 0..Len(log) : Reached(c)
  BY <1>1 DEF HubTurn, MirrorOrder, Cut
<1>3. CASE Coming' = Coming
  BY <1>1, <1>3, QuietStream DEF AnswersMore
<1>4. CASE Coming' # Coming
  <2>1. PICK n, m, D, F, H, E : /\ n = Len(log) /\ m = Len(Coming)
                                /\ D = Coming /\ F = Coming' /\ H = Had /\ E = early
    OBVIOUS
  <2>2. /\ m \in Nat /\ DOMAIN D = 1..m /\ DOMAIN F = 1..(m + 1)
        /\ \A i \in DOMAIN D : F[i] = D[i]
    BY <1>4, <2>1, NewsComing
  <2>3. F[m + 1] = e
    <3>1. m + 1 \in DOMAIN F /\ m + 1 \notin DOMAIN D
      BY <2>2
    <3> QED BY <2>1, <3>1, NewsComing
  <2>4. /\ \A h \in H : h <= c
        /\ \A i \in DOMAIN D : \A h \in Bears(D[i]) : h <= c
    BY <1>2, <2>1 DEF Reached
  <2>5. H \subseteq Nat /\ \A i \in DOMAIN D : Bears(D[i]) \subseteq Nat
    BY <1>1, <2>1, HadTyped, ComingTyped DEF HubTurn
  <2>6. e.seq = n + 1 /\ n \in Nat /\ c \in 0..n
    BY <1>1, <1>2, <2>1 DEF NewsTurn
  <2>7. /\ \A h \in H : h < e.seq
        /\ \A i \in DOMAIN D : \A h \in Bears(D[i]) : h < e.seq
    BY <2>4, <2>5, <2>6
  <2>8. InOrder(H, E, D)
    BY <1>1, <2>1 DEF HubTurn, MirrorOrder, Stream
  <2>9. ASSUME NEW j \in DOMAIN F, IsPush(F[j])
        PROVE  /\ \A h \in H : h < F[j].seq
               /\ \A i \in DOMAIN F : i < j => \A h \in Bears(F[i]) : h < F[j].seq
    <3>1. \A i \in DOMAIN F : i < j => i \in DOMAIN D
      BY <2>2, <2>9
    <3>2. CASE j \in DOMAIN D
      BY <2>2, <2>8, <2>9, <3>1, <3>2 DEF InOrder
    <3>3. CASE j = m + 1
      BY <2>2, <2>3, <2>7, <3>1, <3>3
    <3> QED BY <2>2, <2>9, <3>2, <3>3
  <2>10. InOrder(H, E, F)
    BY <2>8, <2>9 DEF InOrder
  <2> QED BY <1>1, <2>1, <2>10, HubTurnSame DEF Stream
<1> QED BY <1>3, <1>4

\* An answer that restates a channel after the commit did so before it.
LEMMA BringsBefore ==
  ASSUME NEW e, NewsTurn(e), NEW r \in waiting, NEW result \in Results, Fits(r, result),
         GoodResult(r, result), NEW u \in Known(view) \ gone, NEW b \in 0..(Len(log) + 1),
         Brings(result, r, u, b)'
  PROVE  \E d \in 0..Len(log) : d <= b /\ (b <= Len(log) => d = b) /\ Brings(result, r, u, d)
<1>1. HubTurn /\ view' = view /\ Len(log) \in Nat /\ HubTypes /\ HubTypes' /\ Longer
  BY NewsTold, HubTurnSame DEF NewsTurn, HubTurn
<1>2. CASE result.type = "replay"
  <2>1. /\ r.seen <= b /\ \A k \in DOMAIN result.actions : result.actions[k].seq <= b
        /\ {x \in Range(result.actions) : x.uri = u} = Between(u, r.seen, b)'
    BY <1>2 DEF Brings
  <2>2. r.method = "reconnect"
    BY <1>2 DEF Fits
  <2>3. r.seen = view.seen /\ view.seen <= Len(log)
    BY <1>1, <2>2 DEF HubTurn, ClientOrder, MirrorOrder, Gapless
  <2>4. r.seen \in Nat
    BY <1>1, Parted DEF HubTurn, ClientParts, Requests
  <2>5. CASE b <= Len(log)
    <3>1. Between(u, r.seen, b)' = Between(u, r.seen, b)
      BY <1>1, <2>4, <2>5, BetweenStays
    <3>2. Brings(result, r, u, b)
      BY <1>2, <2>1, <3>1 DEF Brings
    <3> QED BY <1>1, <2>5, <3>2
  <2>6. CASE b = Len(log) + 1
    <3>1. result.actions \in Seq(Told)
      BY <1>2, ResultParts
    <3>2. \A k \in DOMAIN result.actions : result.actions[k] \in Told
      BY <3>1
    <3>3. Range(result.actions) \subseteq Told
      BY <3>2 DEF Range
    <3>4. \A k \in DOMAIN result.actions : result.actions[k].seq <= Len(log)
      BY <3>2, NewsTold
    <3>5. {x \in Range(result.actions) : x.uri = u} = Between(u, r.seen, Len(log))
      <4>1. ASSUME NEW x \in Range(result.actions), x.uri = u
            PROVE  x \in Between(u, r.seen, Len(log))
        <5>1. x \in Told /\ x.seq <= Len(log)
          BY <3>3, NewsTold
        <5>2. r.seen < x.seq
          BY <2>1, <4>1 DEF Between
        <5> QED BY <4>1, <5>1, <5>2 DEF Between
      <4>2. ASSUME NEW x \in Between(u, r.seen, Len(log))
            PROVE  x \in Range(result.actions) /\ x.uri = u
        <5>1. x \in Told /\ x.uri = u /\ r.seen < x.seq /\ x.seq <= Len(log) /\ x.seq \in Nat
          BY <4>2, NewsTold DEF Between
        <5>2. x \in Told' /\ x.seq <= b
          BY <1>1, <2>6, <5>1, NewsTold
        <5>3. x \in Between(u, r.seen, b)'
          BY <5>1, <5>2 DEF Between
        <5> QED BY <2>1, <5>3
      <4> QED BY <4>1, <4>2
    <3>6. Brings(result, r, u, Len(log))
      BY <1>2, <2>3, <3>4, <3>5 DEF Brings
    <3>7. Len(log) \in 0..Len(log) /\ Len(log) <= b /\ ~(b <= Len(log))
      BY <1>1, <2>6
    <3> QED BY <3>6, <3>7
  <2> QED BY <1>1, <2>5, <2>6
<1>3. CASE result.type # "replay"
  <2>1. /\ result.type \in {"hello", "subscribed", "snapshot"}
        /\ \/ \E t \in result.snapshots : t.uri = u /\ t.fromSeq = b
           \/ u \in Stateless /\ b = view.mirrors[u].applied
    BY <1>1, <1>3 DEF Brings
  <2>2. Brings(result, r, u, b)
    BY <2>1 DEF Brings
  <2>3. TrueSnapshots(result.snapshots)
    BY <2>1 DEF GoodResult
  <2>4. view.mirrors[u].applied <= Len(log)
    BY <1>1 DEF HubTurn, MirrorOrder, CopiesTrue, Copied
  <2>5. b <= Len(log)
    BY <1>1, <2>1, <2>3, <2>4 DEF TrueSnapshots
  <2> QED BY <1>1, <2>2, <2>5
<1> QED BY <1>2, <1>3

\* What the client's job promises after a commit it did before it.
LEMMA InJobBefore ==
  ASSUME NEW e, NewsTurn(e), NEW r \in waiting, NEW u \in Known(view) \ gone,
         NEW b \in 0..(Len(log) + 1), InJob(r, u, b)'
  PROVE  \E d \in 0..Len(log) : d <= b /\ (b <= Len(log) => d = b) /\ InJob(r, u, d)
<1>1. HubTurn /\ Connected /\ view' = view /\ reader' = reader /\ Len(log) \in Nat /\ reader \in Sockets
  BY NewsTold, ReaderIs, HubTurnSame DEF NewsTurn, HubTurn
<1>2. job'[reader] = job[reader]
  <2>1. job'[reader] # Idle
    BY <1>1, <1>1 DEF InJob, Handling
  <2>2. ~(job'[reader].stage = "answering"
            /\ job'[reader].result = [type |-> "envelope", envelope |-> e])
    BY <1>1 DEF InJob, Brings
  <2> QED BY <2>1, <2>2 DEF NewsTurn
<1>3. PICK j : j = job[reader]
  OBVIOUS
<1>4. j \in Jobs /\ j # Idle /\ JobGood(j) /\ j.request = r
  <2>1. Handling(r)'
    BY DEF InJob
  <2>2. Handling(r)
    BY <1>1, <1>2, <2>1 DEF Handling
  <2> QED BY <1>1, <1>3, <2>2 DEF HubTurn, Types, HubTypes, HubOrder, JobsGood, Handling
<1>5. CASE j.stage \in {"subscribing", "greeting"}
  <2>1. \/ \E t \in j.snapshots : t.uri = u /\ t.fromSeq = b
        \/ u \in Stateless /\ u \notin j.todo /\ b = view.mirrors[u].applied
    BY <1>1, <1>2, <1>3, <1>5 DEF InJob
  <2>2. TrueSnapshots(j.snapshots)
    BY <1>4, <1>5 DEF JobGood
  <2>3. view.mirrors[u].applied <= Len(log)
    BY <1>1 DEF HubTurn, MirrorOrder, CopiesTrue, Copied
  <2>4. b <= Len(log)
    BY <1>1, <2>1, <2>2, <2>3 DEF TrueSnapshots
  <2>5. InJob(r, u, b)
    BY <1>3, <1>4, <1>5, <2>1 DEF InJob, Handling
  <2> QED BY <1>1, <2>4, <2>5
<1>6. CASE j.stage \notin {"subscribing", "greeting"}
  <2>1. j.stage = "answering"
    BY <1>1, <1>2, <1>3, <1>6 DEF InJob
  <2>2. PICK result : result = j.result
    OBVIOUS
  <2>3. Brings(result, r, u, b)'
    <3>1. Brings(job[reader].result, r, u, b)'
      BY <1>1, <1>2, <1>3, <1>6 DEF InJob
    <3> QED BY <1>1, <1>2, <1>3, <2>2, <3>1 DEF Brings
  <2>4. result \in Results /\ Fits(r, result) /\ GoodResult(r, result)
    BY <1>4, <2>1, <2>2 DEF Jobs, Idle, JobGood
  <2>5. PICK d \in 0..Len(log) : d <= b /\ (b <= Len(log) => d = b) /\ Brings(result, r, u, d)
    BY <2>3, <2>4, BringsBefore
  <2>6. InJob(r, u, d)
    BY <1>3, <1>4, <2>1, <2>2, <2>5 DEF InJob, Handling
  <2> QED BY <2>5, <2>6
<1> QED BY <1>5, <1>6

\* ... and so do the frames on their way.
LEMMA InFrameBefore ==
  ASSUME NEW e, NewsTurn(e), NEW r \in waiting, NEW u \in Known(view) \ gone,
         NEW b \in 0..(Len(log) + 1), NEW i \in DOMAIN Coming', InFrame(i, r, u, b)'
  PROVE  /\ i \in DOMAIN Coming
         /\ \E d \in 0..Len(log) : d <= b /\ (b <= Len(log) => d = b) /\ InFrame(i, r, u, d)
<1>1. HubTurn /\ Connected /\ view' = view
  BY HubTurnSame DEF NewsTurn
<1>2. AnswerTo(Coming'[i], r)
  BY DEF InFrame, AnswerTo
<1>3. i \in DOMAIN Coming /\ Coming'[i] = Coming[i]
  <2>1. ~AnswerTo(e, r)
    BY DEF AnswerTo, NewsTurn
  <2> QED BY <1>2, <2>1, NewsComing
<1>4. PICK f : f = Coming[i]
  OBVIOUS
<1>5. PICK result : result = f.result
  OBVIOUS
<1>6. f \in Answers
  <2>1. ~IsPush(f)
    BY <1>2, <1>3, <1>4 DEF AnswerTo, IsPush
  <2> QED BY <1>1, <1>3, <1>4, <2>1, ComingTyped DEF HubTurn
<1>7. result \in Results /\ Fits(r, result) /\ GoodResult(r, result)
  <2>1. result \in Results /\ Fits(r, result)
    BY <1>2, <1>3, <1>4, <1>5, <1>6, AnswerParts DEF AnswerTo
  <2>2. GoodResult(r, result)
    BY <1>1, <1>2, <1>3, <1>4, <1>5 DEF HubTurn, HubOrder, AnswersGood
  <2> QED BY <2>1, <2>2
<1>8. Brings(result, r, u, b)'
  <2>1. Brings(Coming[i].result, r, u, b)'
    BY DEF InFrame
  <2> QED BY <1>1, <1>3, <1>4, <1>5, <2>1 DEF Brings
<1>9. PICK d \in 0..Len(log) : d <= b /\ (b <= Len(log) => d = b) /\ Brings(result, r, u, d)
  BY <1>7, <1>8, BringsBefore
<1>10. InFrame(i, r, u, d)
  BY <1>2, <1>3, <1>4, <1>5, <1>9 DEF InFrame
<1> QED BY <1>3, <1>9, <1>10

\* What is promised was promised.
LEMMA NewsPromises ==
  ASSUME NEW e, NewsTurn(e), NEW u \in Known(view) \ gone, NEW b \in 0..(Len(log) + 1),
         NEW i \in 1..(Len(Coming') + 1), Promised(u, b, i)'
  PROVE  \E d \in 0..Len(log), k \in 1..(Len(Coming) + 1) :
           /\ d <= b /\ (b <= Len(log) => d = b) /\ Promised(u, d, k)
           /\ \/ k = i
              \/ k = Len(Coming) + 1 /\ i = Len(Coming) + 2 /\ Coming' = Append(Coming, e)
<1>1. HubTurn /\ Connected /\ view' = view /\ waiting' = waiting
  BY HubTurnSame DEF NewsTurn
<1>2. ~view.mirrors[u].primed
  BY <1>1 DEF Promised
<1>3. PICK r \in waiting :
        /\ Restates(r) /\ u \in r.uris
        /\ \/ i \in DOMAIN Coming' /\ InFrame(i, r, u, b)'
           \/ i = Len(Coming') + 1 /\ InJob(r, u, b)'
  BY <1>1 DEF Promised, Restates
<1>4. CASE i \in DOMAIN Coming' /\ InFrame(i, r, u, b)'
  <2>1. i \in DOMAIN Coming /\ \E d \in 0..Len(log) : d <= b /\ (b <= Len(log) => d = b) /\ InFrame(i, r, u, d)
    BY <1>4, InFrameBefore
  <2>2. PICK d \in 0..Len(log) : d <= b /\ (b <= Len(log) => d = b) /\ InFrame(i, r, u, d)
    BY <2>1
  <2>3. Promised(u, d, i)
    BY <1>2, <1>3, <2>1, <2>2 DEF Promised
  <2>4. i \in 1..(Len(Coming) + 1)
    BY <2>1, NewsComing
  <2> QED BY <2>2, <2>3, <2>4
<1>5. CASE i = Len(Coming') + 1 /\ InJob(r, u, b)'
  <2>1. PICK d \in 0..Len(log) : d <= b /\ (b <= Len(log) => d = b) /\ InJob(r, u, d)
    BY <1>5, InJobBefore
  <2>2. PICK k : k = Len(Coming) + 1
    OBVIOUS
  <2>3. Promised(u, d, k)
    BY <1>2, <1>3, <2>1, <2>2 DEF Promised
  <2>4. k \in 1..(Len(Coming) + 1)
    BY <2>2, NewsComing
  <2>5. \/ k = i
        \/ k = Len(Coming) + 1 /\ i = Len(Coming) + 2 /\ Coming' = Append(Coming, e)
    BY <1>5, <2>2, NewsComing
  <2> QED BY <2>1, <2>3, <2>4, <2>5
<1> QED BY <1>3, <1>4, <1>5

\* What a channel may be restated from was so before the commit, or is the commit.
LEMMA NewsBased ==
  ASSUME NEW e, NewsTurn(e), NEW u \in Known(view) \ gone, NEW b \in 0..(Len(log) + 1), Based(u, b)'
  PROVE  \E d \in 0..Len(log) : d <= b /\ (b <= Len(log) => d = b) /\ Based(u, d)
<1>1. HubTurn /\ Connected /\ view' = view /\ Len(log) \in Nat
  BY NewsTold, HubTurnSame DEF NewsTurn
<1>2. CASE view'.mirrors[u].primed /\ b = view'.mirrors[u].applied
  <2>1. view.mirrors[u].applied <= Len(log)
    BY <1>1 DEF HubTurn, MirrorOrder, CopiesTrue, Copied
  <2>2. Based(u, b) /\ b \in 0..Len(log) /\ b <= b
    BY <1>1, <1>2, <2>1 DEF Based
  <2> QED BY <2>2
<1>3. ASSUME NEW i \in 1..(Len(Coming') + 1), Promised(u, b, i)'
      PROVE  \E d \in 0..Len(log) : d <= b /\ (b <= Len(log) => d = b) /\ Based(u, d)
  <2>1. PICK d \in 0..Len(log), k \in 1..(Len(Coming) + 1) :
          d <= b /\ (b <= Len(log) => d = b) /\ Promised(u, d, k)
    BY <1>3, NewsPromises
  <2>2. Based(u, d)
    BY <2>1 DEF Based
  <2> QED BY <2>1, <2>2
<1> QED BY <1>2, <1>3 DEF Based

\* What the client is promised joins on to what it held back, as it did.
LEMMA NewsJoins ==
  ASSUME NEW e, NewsTurn(e), NEW u \in Known(view), NEW b \in 0..(Len(log) + 1),
         NEW d \in 0..Len(log), d <= b,
         NEW i \in Nat, NEW k \in Nat, Joins(u, d, k),
         k = i \/ (k = Len(Coming) + 1 /\ i = Len(Coming) + 2)
  PROVE  Joins(u, b, i)'
<1>1. /\ HubTurn /\ Connected /\ view' = view /\ ready' = ready /\ Len(log) \in Nat
      /\ Len(log') = Len(log) + 1
  BY NewsTold, HubTurnSame DEF NewsTurn
<1>2. PICK held : held = view.mirrors[u].buffered
  OBVIOUS
<1>3. \A j \in DOMAIN held : held[j].seq \in Nat
  BY <1>1, <1>2, BufferedTyped DEF HubTurn
<1>4. \A j, l \in DOMAIN held : j < l /\ held[l].seq > b => held[j].seq < held[l].seq
  <2>1. \A j, l \in DOMAIN held : j < l /\ held[l].seq > d => held[j].seq < held[l].seq
    BY <1>2 DEF Joins
  <2>2. \A l \in DOMAIN held : held[l].seq > b => held[l].seq > d
    BY <1>1, <1>3
  <2> QED BY <2>1, <2>2
<1>5. ~ready => \A l \in DOMAIN held : held[l].seq <= b
  <2>1. ~ready => \A l \in DOMAIN held : held[l].seq <= d
    BY <1>2 DEF Joins
  <2>2. \A l \in DOMAIN held : held[l].seq <= d => held[l].seq <= b
    BY <1>1, <1>3
  <2> QED BY <2>1, <2>2
<1>6. ASSUME NEW j \in DOMAIN Coming', j < i, ~IsPush(Coming'[j]),
             Coming'[j].result.type = "envelope", Coming'[j].result.envelope.uri = u
      PROVE  Coming'[j].result.envelope.seq <= b
  <2>1. j \in DOMAIN Coming /\ Coming'[j] = Coming[j]
    BY <1>6, NewsComing, NewsTold
  <2>2. j < k
    BY <1>6, <2>1, NewsComing
  <2>3. Coming[j].result.envelope.seq <= d
    BY <1>6, <2>1, <2>2 DEF Joins
  <2>4. Coming[j].result.envelope.seq \in Nat
    <3>1. Coming[j] \in Answers
      BY <1>1, <1>6, <2>1, ComingTyped DEF HubTurn
    <3>2. Coming[j].result \in Results
      BY <3>1, AnswerParts
    <3>3. Coming[j].result.envelope \in Told
      BY <1>6, <2>1, <3>2, ResultParts
    <3> QED BY <3>3, NewsTold
  <2> QED BY <1>1, <2>1, <2>3, <2>4
<1> QED BY <1>1, <1>2, <1>4, <1>5, <1>6 DEF Joins, IsPush

\* A commit keeps what the mirrors are restated from ...
LEMMA NewsBases ==
  ASSUME NEW e, NewsTurn(e)
  PROVE  Bases'
<1>1. /\ HubTurn /\ Connected /\ Len(log) \in Nat /\ Len(log') = Len(log) + 1
      /\ Known(view') = Known(view) /\ gone' = gone /\ Bases
  BY NewsTold, HubTurnSame DEF NewsTurn, HubTurn, MirrorOrder
<1>2. ASSUME NEW u \in Known(view) \ gone, NEW b \in 0..(Len(log) + 1), Based(u, b)'
      PROVE  Linked(u)'
  <2>1. PICK d \in 0..Len(log) : Based(u, d)
    BY <1>2, NewsBased
  <2>2. Linked(u)
    BY <1>1, <2>1 DEF Bases
  <2> QED BY <1>1, <2>2, HubTurnSame DEF Linked, NewsTurn, HubTurn
<1>3. ASSUME NEW u \in Known(view) \ gone, NEW b \in 0..(Len(log) + 1),
             NEW i \in 1..(Len(Coming') + 1), Promised(u, b, i)'
      PROVE  Joins(u, b, i)'
  <2>1. PICK d \in 0..Len(log), k \in 1..(Len(Coming) + 1) :
          /\ d <= b /\ Promised(u, d, k)
          /\ k = i \/ (k = Len(Coming) + 1 /\ i = Len(Coming) + 2)
    BY <1>3, NewsPromises
  <2>2. Joins(u, d, k)
    BY <1>1, <2>1 DEF Bases
  <2>3. i \in Nat /\ k \in Nat
    BY NewsComing
  <2> QED BY <2>1, <2>2, <2>3, NewsJoins
<1> QED BY <1>1, <1>2, <1>3 DEF Bases

\* What the client misses is still on its way.
LEMMA NewsHeld ==
  ASSUME NEW e, NewsTurn(e), NEW c \in 0..Len(log), Reached(c), NEW d \in 0..(Len(log) + 1),
         d = IF reader \in detached' THEN c ELSE Len(log) + 1,
         NEW u \in Known(view) \ gone, NEW b \in 0..(Len(log) + 1), Based(u, b)'
  PROVE  Between(u, b, d)' \subseteq Held(u)'
<1>1. /\ HubTurn /\ Connected /\ Len(log) \in Nat /\ Told' = Told \cup {e}
      /\ view' = view /\ early' = early /\ reader' = reader /\ e.seq = Len(log) + 1
      /\ \A x \in Told : x.seq \in Nat /\ x.seq <= Len(log)
  BY NewsTold, HubTurnSame DEF NewsTurn
<1>2. Held(u) \subseteq Held(u)'
  BY <1>1, NewsComing DEF Held
<1>3. PICK n : n = Len(log)
  OBVIOUS
<1>4. ASSUME NEW x \in Between(u, b, d)' PROVE x \in Held(u)'
  <2>1. x \in Told' /\ x.uri = u /\ b < x.seq /\ x.seq <= d
    BY <1>4 DEF Between
  <2>2. x.seq \in Nat /\ x.seq <= n + 1
    BY <1>1, <1>3, <2>1
  <2>3. n \in Nat /\ b \in 0..(n + 1) /\ c \in 0..n /\ d \in 0..(n + 1)
    BY <1>1, <1>3
  <2>4. b <= n
    BY <2>1, <2>2, <2>3
  <2>5. Based(u, b) /\ b \in 0..Len(log)
    <3>1. \E a \in 0..Len(log) : a <= b /\ (b <= Len(log) => a = b) /\ Based(u, a)
      BY NewsBased
    <3> QED BY <1>3, <2>4, <3>1
  <2>6. Between(u, b, c) \subseteq Held(u)
    BY <2>5 DEF Reached
  <2>7. CASE x = e
    <3>1. reader \notin detached'
      BY <1>1, <1>3, <2>1, <2>3, <2>7
    <3>2. reader \notin detached
      BY <1>1, <3>1 DEF HubTurn
    <3>3. Linked(u)
      BY <1>1, <2>5 DEF HubTurn, MirrorOrder, Bases
    <3>4. link = reader /\ e.uri \in subs
      BY <2>1, <2>7, <3>2, <3>3 DEF Linked
    <3>5. Coming' = Append(Coming, e)
      BY <3>1, <3>4 DEF NewsTurn
    <3>6. e \in Range(Coming')
      BY <3>5, NewsComing
    <3> QED BY <2>7, <3>6 DEF Held
  <2>8. CASE x # e
    <3>1. x \in Told /\ x.seq <= n
      BY <1>1, <1>3, <2>1, <2>8
    <3>2. reader \notin detached' => c = n
      BY <1>1, <1>3 DEF Reached, HubTurn
    <3>3. x.seq <= c
      BY <1>3, <2>1, <3>1, <3>2
    <3>4. x \in Between(u, b, c)
      BY <2>1, <3>1, <3>3 DEF Between
    <3> QED BY <1>2, <2>6, <3>4
  <2> QED BY <2>7, <2>8
<1> QED BY <1>4

\* ... and what the client misses.
LEMMA NewsCut ==
  ASSUME NEW e, NewsTurn(e)
  PROVE  Cut'
<1>1. /\ HubTurn /\ Connected /\ Len(log) \in Nat /\ Len(log') = Len(log) + 1
      /\ Known(view') = Known(view) /\ gone' = gone /\ reader' = reader /\ Had' = Had
      /\ e.seq = Len(log) + 1
  BY NewsTold, HubTurnSame DEF NewsTurn
<1>2. PICK c \in 0..Len(log) : Reached(c)
  BY <1>1 DEF HubTurn, MirrorOrder, Cut
<1>3. PICK d \in 0..(Len(log) + 1) : d = IF reader \in detached' THEN c ELSE Len(log) + 1
  BY <1>1
<1>4. c <= d
  BY <1>1, <1>3
<1>5. reader \notin detached' => d = Len(log')
  BY <1>1, <1>3
<1>6. \A h \in Had : h <= d
  <2>1. Had \subseteq Nat /\ \A h \in Had : h <= c
    BY <1>1, <1>2, HadTyped DEF HubTurn, Reached
  <2> QED BY <1>1, <1>4, <2>1
<1>7. ASSUME NEW i \in DOMAIN Coming', NEW h \in Bears(Coming'[i]) PROVE h <= d
  <2>1. CASE i \in DOMAIN Coming
    <3>1. Coming'[i] = Coming[i] /\ Bears(Coming[i]) \subseteq Nat
      BY <1>1, <2>1, NewsComing, ComingTyped DEF HubTurn
    <3>2. h \in Bears(Coming[i])
      BY <1>7, <3>1
    <3>3. h <= c /\ h \in Nat
      BY <1>2, <2>1, <3>1, <3>2 DEF Reached
    <3> QED BY <1>1, <1>4, <3>3
  <2>2. CASE i \notin DOMAIN Coming
    <3>1. Coming'[i] = e /\ reader \notin detached'
      BY <2>2, <1>7, NewsComing
    <3>2. h = e.seq
      BY <1>7, <3>1, NewsTold
    <3> QED BY <1>1, <1>3, <3>1, <3>2
  <2> QED BY <2>1, <2>2
<1>8. ASSUME job'[reader].stage = "answering", NEW h \in Marks(job'[reader].result) PROVE h <= d
  <2>1. CASE job'[reader] = job[reader]
    <3>1. PICK j : j = job[reader]
      OBVIOUS
    <3>2. j \in Jobs /\ j.stage = "answering" /\ j # Idle
      <4>1. reader \in Sockets
        BY <1>1, ReaderIs DEF HubTurn
      <4> QED BY <1>1, <1>8, <2>1, <3>1, <4>1 DEF HubTurn, Types, HubTypes, Idle
    <3>3. j.result \in Results
      BY <3>2 DEF Jobs, Idle
    <3>4. Marks(j.result) \subseteq Nat
      BY <1>1, <3>3, MarksTyped DEF HubTurn, Types
    <3>5. h <= c /\ h \in Nat
      BY <1>2, <1>8, <2>1, <3>1, <3>2, <3>4 DEF Reached
    <3> QED BY <1>1, <1>4, <3>5
  <2>2. CASE job'[reader] # job[reader]
    <3>1. reader \notin detached' /\ job'[reader].result = [type |-> "envelope", envelope |-> e]
      BY <1>8, <2>2 DEF NewsTurn, Idle
    <3>2. h = e.seq
      BY <1>8, <3>1 DEF Marks
    <3> QED BY <1>1, <1>3, <3>1, <3>2
  <2> QED BY <2>1, <2>2
<1>9. ASSUME NEW u \in Known(view) \ gone, NEW b \in 0..(Len(log) + 1), Based(u, b)'
      PROVE  Between(u, b, d)' \subseteq Held(u)'
  BY <1>2, <1>3, <1>9, NewsHeld
<1>10. Reached(d)'
  <2>1. \A u \in Known(view') \ gone' : \A b \in 0..Len(log') :
          Based(u, b)' => Between(u, b, d)' \subseteq Held(u)'
    BY <1>1, <1>9
  <2> QED BY <1>1, <1>5, <1>6, <1>7, <1>8, <2>1 DEF Reached
<1>11. d \in 0..Len(log')
  BY <1>1
<1> QED BY <1>10, <1>11 DEF Cut

\* A commit keeps what is to be kept.
LEMMA NewsKeeps ==
  ASSUME NEW e, NewsTurn(e)
  PROVE  ClientOrder' /\ MirrorOrder'
<1>1. HubTurn
  BY DEF NewsTurn
<1>2. ClientOrder' /\ CopiesTrue' /\ Gapless' /\ AllKept'
  BY <1>1, HubTurnCalls, HistoryKept
<1>3. Upright' /\ Stream' /\ Bases' /\ Cut'
  BY NewsUpright, NewsStream, NewsBases, NewsCut
<1> QED BY <1>2, <1>3 DEF MirrorOrder

\* A commit that no client is there to hear of.
LEMMA UnheardKeeps ==
  ASSUME HubTurn, ~Connected
  PROVE  ClientOrder' /\ MirrorOrder'
<1>1. ClientOrder' /\ CopiesTrue' /\ Gapless' /\ AllKept'
  BY HubTurnCalls, HistoryKept
<1>2. Upright' /\ Stream' /\ Bases' /\ Cut'
  BY HubTurnSame DEF Upright, Stream, Bases, Cut
<1> QED BY <1>1, <1>2 DEF MirrorOrder

\* What a broadcast does to the client's stream.
LEMMA BroadcastComes ==
  ASSUME HubTurn, Connected, NEW e, Broadcast(e), detached' = detached
  PROVE  /\ log' = Append(log, e) /\ gone' = gone
         /\ Coming' = Coming \/ (Coming' = Append(Coming, e) /\ reader \notin detached')
         /\ reader \notin detached' /\ link = reader /\ e.uri \in subs => Coming' = Append(Coming, e)
<1>1. reader \in Sockets /\ reader # 0 /\ reader' = reader
  BY ReaderIs DEF HubTurn, Connected
<1>2. log' = Append(log, e) /\ gone' = gone
  BY DEF Broadcast
<1>3. down' = SentDown(down, link, e) \/ down' = down
  BY DEF Broadcast
<1>4. Coming' = Coming \/ (Coming' = Append(Coming, e) /\ link = reader)
  BY <1>3, SentComes DEF HubTurn
<1>5. CASE reader \in detached
  <2>1. down' = down
    BY <1>3, <1>5 DEF SentDown
  <2> QED BY <1>1, <1>2, <1>5, <2>1 DEF Coming
<1>6. CASE reader \notin detached
  <2>1. link = reader /\ e.uri \in subs => down' = SentDown(down, link, e)
    BY <1>1 DEF Broadcast
  <2>2. link = reader /\ e.uri \in subs => Coming' = Append(Coming, e)
    BY <1>6, <2>1, SentComes DEF HubTurn
  <2> QED BY <1>2, <1>4, <1>6, <2>2
<1> QED BY <1>5, <1>6

\* A dispatch of the client's is committed.
LEMMA PublishKeeps ==
  ASSUME HubTurn, NEW s \in 1..current, Publish(s)
  PROVE  ClientOrder' /\ MirrorOrder'
<1>1. CASE ~Connected
  BY <1>1, UnheardKeeps
<1>2. CASE Connected
  <2>1. /\ s \in Sockets /\ job \in [Sockets -> Jobs] /\ job[s].stage = "writing"
        /\ UNCHANGED <<up, detached, link, subs>>
    BY WorkLinks DEF Publish, linkVars
  <2>2. PICK e : /\ e = Envelope(job[s].request.uri, job[s].request.n, job[s].accepted)
                 /\ Broadcast(e)
                 /\ job' = [job EXCEPT ![s] =
                      IF s \in detached THEN Idle
                      ELSE Answering(job[s].request, [type |-> "envelope", envelope |-> e])]
    BY DEF Publish
  <2>3. e.seq = Len(log) + 1 /\ e.kind = "action"
    BY <2>2 DEF Envelope
  <2>4. reader \in Sockets
    BY <1>2, ReaderIs DEF HubTurn
  <2>5. \/ job'[reader] = job[reader]
        \/ job'[reader] = Idle
        \/ /\ reader \notin detached' /\ job[reader] # Idle
           /\ job'[reader].stage = "answering" /\ job'[reader].request = job[reader].request
           /\ job'[reader].result = [type |-> "envelope", envelope |-> e]
    <3>1. CASE s = reader
      BY <2>1, <2>2, <3>1 DEF Answering, Idle
    <3>2. CASE s # reader
      BY <2>1, <2>2, <2>4, <3>2
    <3> QED BY <3>1, <3>2
  <2>6. NewsTurn(e)
    BY <1>2, <2>1, <2>2, <2>3, <2>5, BroadcastComes DEF NewsTurn
  <2> QED BY <2>6, NewsKeeps
<1> QED BY <1>1, <1>2

\* Somebody else's action is committed.
LEMMA ForeignKeeps ==
  ASSUME HubTurn, NEW u \in Uris, Foreign(u)
  PROVE  ClientOrder' /\ MirrorOrder'
<1>1. CASE ~Connected
  BY <1>1, UnheardKeeps
<1>2. CASE Connected
  <2>1. PICK e : e = Envelope(u, 0, TRUE) /\ Broadcast(e)
    BY DEF Foreign
  <2>2. e.seq = Len(log) + 1 /\ e.kind = "action"
    BY <2>1 DEF Envelope
  <2>3. UNCHANGED <<up, detached, link, subs, job>>
    BY DEF Foreign, linkVars
  <2>4. NewsTurn(e)
    BY <1>2, <2>1, <2>2, <2>3, BroadcastComes DEF NewsTurn
  <2> QED BY <2>4, NewsKeeps
<1> QED BY <1>1, <1>2

\* The hub starts over.
LEMMA RestartKeeps ==
  ASSUME HubTurn, Restart(1..current)
  PROVE  ClientOrder' /\ MirrorOrder'
<1>1. CASE ~Connected
  BY <1>1, UnheardKeeps
<1>2. CASE Connected
  <2>1. /\ reader \in Sockets /\ reader \in 1..current /\ reader' = reader
    BY <1>2, ReaderIs DEF HubTurn, Sockets, Types, ClientTypes
  <2>2. /\ reader \in detached' /\ up'[reader] = << >> /\ job'[reader] = Idle
        /\ down' = down /\ gone' = gone
    BY <2>1 DEF Restart, Drained
  <2>3. Coming' = Coming
    BY <2>1, <2>2 DEF Coming
  <2>4. \A u : Linked(u)'
    BY <2>1, <2>2 DEF Linked
  <2>5. CASE log' = log
    BY <1>2, <2>2, <2>3, <2>4, <2>5, ElsewhereKeeps
  <2>6. CASE log' # log
    <3>1. PICK s \in Writing :
            log' = Append(log, Envelope(job[s].request.uri, job[s].request.n, job[s].accepted))
      BY <2>6 DEF Restart
    <3>2. PICK e : e = Envelope(job[s].request.uri, job[s].request.n, job[s].accepted)
      OBVIOUS
    <3>3. e.seq = Len(log) + 1 /\ e.kind = "action" /\ log' = Append(log, e)
      BY <3>1, <3>2 DEF Envelope
    <3>4. NewsTurn(e)
      BY <1>2, <2>2, <2>3, <3>3 DEF NewsTurn
    <3> QED BY <3>4, NewsKeeps
  <2> QED BY <2>5, <2>6
<1> QED BY <1>1, <1>2

-----------------------------------------------------------------------------
(* All turns. *)

\* A step of the hub is a turn of the hub.
LEMMA HubStepsTurn ==
  ASSUME Types, Types', MirrorsKept, HubOrder, HubOrder', ClientOrder, MirrorOrder,
         UNCHANGED clientVars, HubSteps
  PROVE  HubTurn
<1>1. reader' = reader /\ gone \subseteq gone' /\ detached \subseteq detached'
  BY DEF HubSteps, TakeHandshake, TakeSubscribe, TakeUnsubscribe, TakeDispatch, SubscribeOne, Greet,
         ResumeOne, Resume, Commit, Publish, Foreign, Answer, Detach, Restart, Destroy, Broadcast,
         hubVars
<1>2. Longer
  <2>1. \/ log' = log
        \/ \E s \in 1..current : Publish(s)
        \/ \E u \in Uris : Foreign(u)
        \/ Restart(1..current)
    BY DEF HubSteps, TakeHandshake, TakeSubscribe, TakeUnsubscribe, TakeDispatch, SubscribeOne, Greet,
           ResumeOne, Resume, Commit, Answer, Detach, Destroy, hubVars
  <2>2. \A u, n, accepted : Envelope(u, n, accepted).seq = Len(log) + 1
    BY DEF Envelope
  <2>3. ASSUME NEW s \in 1..current, Publish(s) PROVE Longer
    <3>1. log' = Append(log, Envelope(job[s].request.uri, job[s].request.n, job[s].accepted))
      BY <2>3 DEF Publish, Broadcast
    <3> QED BY <2>2, <3>1 DEF Longer
  <2>4. ASSUME NEW u \in Uris, Foreign(u) PROVE Longer
    <3>1. log' = Append(log, Envelope(u, 0, TRUE))
      BY <2>4 DEF Foreign, Broadcast
    <3> QED BY <2>2, <3>1 DEF Longer
  <2>5. ASSUME Restart(1..current) PROVE Longer
    <3>1. \/ log' = log
          \/ \E s \in Writing : log' =
               Append(log, Envelope(job[s].request.uri, job[s].request.n, job[s].accepted))
      BY <2>5 DEF Restart
    <3> QED BY <2>2, <3>1 DEF Longer
  <2> QED BY <2>1, <2>3, <2>4, <2>5 DEF Longer
<1> QED BY <1>1, <1>2 DEF HubTurn

\* A turn of the hub keeps what is to be kept.
LEMMA HubStepsKeep ==
  ASSUME Types, Types', MirrorsKept, HubOrder, HubOrder', ClientOrder, MirrorOrder,
         UNCHANGED clientVars, HubSteps
  PROVE  ClientOrder' /\ MirrorOrder'
<1>1. HubTurn
  BY HubStepsTurn
<1> QED BY <1>1, TakeHandshakeKeeps, TakesKeep, SubscribeOneKeeps, GreetKeeps, ResumeOneKeeps,
           ResumeKeeps, CommitKeeps, PublishKeeps, ForeignKeeps, AnswerKeeps, DetachKeeps,
           DestroyKeeps, RestartKeeps DEF HubSteps

\* Nothing is known, and nothing is on its way, at the start.
LEMMA InitMirrored ==
  ASSUME Init
  PROVE  ClientOrder /\ MirrorOrder
<1>1. /\ Known(view) = {} /\ view.seen = 0 /\ early = << >> /\ waiting = {} /\ subscribed = {}
      /\ stored = None /\ saves = << >> /\ initialized = FALSE /\ ready = FALSE /\ Connected
      /\ log = << >> /\ reader = 1
  BY DEF Init, WireInit, ServerInit, ClientInit, Known, Connected
<1>2. Coming = << >> /\ job[reader] = Idle
  <2>1. 1 \in Sockets
    BY ServerAssumption DEF Sockets
  <2> QED BY <1>1, <2>1 DEF Init, WireInit, ServerInit, Coming
<1>3. Told = {}
  BY <1>1 DEF Told
<1>4. ClientOrder
  BY <1>1 DEF ClientOrder
<1>5. Upright
  BY <1>1 DEF Upright, Claimed
<1>6. CopiesTrue /\ Gapless /\ AllKept
  BY <1>1 DEF CopiesTrue, Gapless, AllKept
<1>7. Had = {0}
  BY <1>1 DEF Had
<1>8. Stream
  BY <1>1, <1>2 DEF Stream, InOrder
<1>9. Bases
  BY <1>1 DEF Bases
<1>10. Cut
  <2>1. Reached(0)
    BY <1>1, <1>2, <1>7 DEF Reached, Idle
  <2>2. 0 \in 0..Len(log)
    BY <1>1
  <2> QED BY <2>1, <2>2 DEF Cut
<1> QED BY <1>4, <1>5, <1>6, <1>8, <1>9, <1>10 DEF MirrorOrder

-----------------------------------------------------------------------------
(* The invariant. *)

\* What is kept of the copies, of what they are made from and of what will restate them.
Mirrored == Types /\ MirrorsKept /\ HubOrder /\ ClientOrder /\ MirrorOrder

\* Every turn keeps it, for an application that makes one call at a time for a channel.
LEMMA StepMirrored ==
  ASSUME Habits = {}, Mirrored, [Next]_vars
  PROVE  Mirrored'
<1>1. Types' /\ HubOrder'
  BY StepTyped, StepOrdered DEF Mirrored
<1>2. MirrorsKept'
  BY StepKeepsMirrors DEF Mirrored
<1>3. CASE Next
  <2>1. (HubSteps /\ UNCHANGED clientVars) \/ (ClientSteps /\ UNCHANGED serverVars)
    BY <1>3, NextIs
  <2>2. CASE HubSteps /\ UNCHANGED clientVars
    BY <1>1, <1>2, <2>2, HubStepsKeep DEF Mirrored
  <2>3. CASE ClientSteps /\ UNCHANGED serverVars
    <3>1. ClientTurn
      BY <1>1, <1>2, <2>3 DEF ClientTurn, Mirrored
    <3>2. ClientOrder' /\ MirrorOrder'
      BY <2>3, <3>1, ClientStepsKeep
    <3> QED BY <1>1, <1>2, <3>2 DEF Mirrored
  <2> QED BY <2>1, <2>2, <2>3
<1>4. CASE UNCHANGED vars
  <2>1. HubTurn
    BY <1>1, <1>4 DEF HubTurn, Mirrored, vars, Longer, serverVars, hubVars
  <2>2. log' = log /\ Coming' = Coming /\ UNCHANGED <<up, job, link, subs, detached, reader>>
    BY <1>4 DEF vars, serverVars, hubVars, linkVars, Coming
  <2>3. \A u : Linked(u) => Linked(u)'
    BY <2>2 DEF Linked
  <2>4. ClientOrder' /\ MirrorOrder'
    BY <2>1, <2>2, <2>3, ElsewhereKeeps
  <2> QED BY <1>1, <1>2, <2>4 DEF Mirrored
<1> QED BY <1>3, <1>4

\* The session's second inductive invariant: links, log, jobs and answers of the hub are in
\* order, the client's calls fit what it believes, and every copy is true, gapless and about
\* to be restated from what is under way (the handlers of client.ts, attachSocket of rpc.ts).
THEOREM MirrorInvariance ==
  ASSUME Habits = {}
  PROVE  Spec => []Mirrored
<1>1. Init => Mirrored
  <2>1. Init => MirrorsKept
    BY DEF Init, ClientInit, MirrorsKept
  <2> QED BY <2>1, InitTyped, InitOrdered, InitMirrored DEF Mirrored
<1>2. Mirrored /\ [Next]_vars => Mirrored'
  BY StepMirrored
<1> QED BY <1>1, <1>2, PTL DEF Spec

\* The state a client calls confirmed is the reduction of a prefix of its channel's log,
\* whatever replays, snapshots, crashes and checkpoints it went through (#reconcile,
\* #applySnapshot, applyEvents of hello and reconnect, #restore).
THEOREM ConfirmedTrue ==
  ASSUME Habits = {}
  PROVE  Spec => []ConfirmedIsLog
<1>1. Mirrored => ConfirmedIsLog
  BY DEF Mirrored, MirrorOrder, CopiesTrue, Copied, ConfirmedIsLog
<1> QED BY <1>1, MirrorInvariance, PTL

\* An event of the log up to the last sequence number the client has seen is part of the
\* confirmed state of its channel, or on its way to be: the marker that the client hands
\* out at its next reconnect never runs ahead of what it applied (#see, #prime, #restore).
THEOREM NothingIsSkipped ==
  ASSUME Habits = {}
  PROVE  Spec => []NothingSkipped
<1>1. Mirrored => NothingSkipped
  <2> SUFFICES ASSUME Mirrored, NEW u \in (subscribed \cap Known(view)) \ gone, NEW i \in DOMAIN log,
                      log[i].uri = u, i > view.mirrors[u].applied, i <= view.seen
               PROVE  FALSE
    BY DEF NothingSkipped
  <2>1. log[i] \in Told /\ log[i].seq = i
    BY LogTyped DEF Mirrored, Types
  <2>2. log[i] \in Between(u, view.mirrors[u].applied, view.seen)
    BY <2>1 DEF Between
  <2>3. u \in subscribed \ gone
    OBVIOUS
  <2> QED BY <2>2, <2>3 DEF Mirrored, MirrorOrder, Gapless
<1> QED BY <1>1, MirrorInvariance, PTL

-----------------------------------------------------------------------------
(* Agreement. *)

\* When nothing is under way, nothing is pending ...
LEMMA QuietSettled ==
  ASSUME Types, PendingIsOpen, OpenIsAwaited, Quiet
  PROVE  \A u \in Known(view) : view.mirrors[u].pending = << >>
<1>1. waiting = {} /\ flushing = << >> /\ ready
  BY DEF Quiet
<1>2. \A n \in Numbers : view.outcome[n] # "open"
  <2>1. DOMAIN << >> = {}
    OBVIOUS
  <2> QED BY <1>1, <2>1 DEF OpenIsAwaited, Numbers
<1>3. ASSUME NEW u \in Known(view)
      PROVE  view.mirrors[u].pending = << >>
  <2> DEFINE p == view.mirrors[u].pending
  <2>1. p \in Seq(Numbers) /\ Pend(view, u) \subseteq Numbers
    BY ViewStands, PendTyped
  <2>2. \A n \in Pend(view, u) : view.outcome[n] = "open"
    BY DEF PendingIsOpen, Standing
  <2>3. Range(p) = {}
    BY <1>2, <2>1, <2>2 DEF Pend
  <2> HIDE DEF p
  <2>4. p = << >>
    <3>1. 1 \notin DOMAIN p
      BY <2>3 DEF Range
    <3> QED BY <2>1, <3>1
  <2> QED BY <2>4 DEF p
<1> QED BY <1>3

\* ... and every copy is up to date.
LEMMA QuietCurrent ==
  ASSUME Mirrored, Quiet, NEW u \in subscribed \ gone
  PROVE  /\ u \in Known(view) /\ u \in subs
         /\ view.mirrors[u].confirmed = StateAt(log, u, Len(log))
<1> DEFINE m == view.mirrors[u]
           a == view.mirrors[u].applied
<1>1. /\ waiting = {} /\ ready /\ link = reader /\ Coming = << >>
      /\ Types /\ HubTypes /\ ClientOrder /\ CopiesTrue
  BY DEF Quiet, Coming, Mirrored, MirrorOrder, Types
<1>2. u \in Known(view) /\ Connected /\ reader \notin detached /\ early = << >>
  BY <1>1 DEF Mirrored, MirrorsKept, ClientOrder, HubOrder, LinksOrdered
<1>3. view.mirrors[u].primed /\ view.mirrors[u].buffered = << >>
  BY <1>1, <1>2 DEF ClientOrder
<1>4. m.confirmed = StateAt(log, u, a) /\ a <= Len(log) /\ a \in Nat /\ Len(log) \in Nat
  <2>1. view \in Plain(Told)
    BY <1>1, Parted DEF ClientParts
  <2>2. a \in Nat
    BY <1>2, <2>1, PlainParts DEF Mirrors
  <2>3. Len(log) \in Nat
    BY <1>1, LogTyped
  <2> QED BY <1>1, <1>2, <2>2, <2>3 DEF CopiesTrue, Copied
<1>5. a \in 0..Len(log) /\ Based(u, a)
  BY <1>3, <1>4 DEF Based
<1>6. u \in subs
  BY <1>2, <1>5 DEF Mirrored, MirrorOrder, Bases, Linked
<1>7. Between(u, a, Len(log)) = {}
  <2>1. PICK c \in 0..Len(log) : Reached(c)
    BY <1>2 DEF Mirrored, MirrorOrder, Cut
  <2>2. c = Len(log)
    BY <1>2, <2>1 DEF Reached
  <2>3. Between(u, a, c) \subseteq Held(u)
    BY <1>2, <1>5, <2>1 DEF Reached
  <2>4. Held(u) = {}
    <3>1. Range(<< >>) = {}
      <4>1. DOMAIN << >> = {}
        OBVIOUS
      <4> QED BY <4>1 DEF Range
    <3> QED BY <1>1, <1>2, <1>3, <3>1 DEF Held
  <2> QED BY <2>2, <2>3, <2>4
<1>8. StateAt(log, u, a) = StateAt(log, u, Len(log))
  BY <1>1, <1>4, <1>7, StateUnchanged
<1> QED BY <1>2, <1>4, <1>6, <1>8

\* When nothing is under way between the two, the hub has every subscription the client
\* believes in, nothing is pending, and each confirmed state is the hub's (#welcome,
\* #applySnapshot, #reconcile and #answered on one side, subscribe, reconnect and
\* #broadcast on the other), after whatever losses of links, restarts and checkpoints.
THEOREM QuietIsAgreed ==
  ASSUME Habits = {}
  PROVE  Spec => []QuietAgrees
<1>1. ASSUME Mirrored, PendingIsOpen, OpenIsAwaited
      PROVE  QuietAgrees
  <2> SUFFICES ASSUME Quiet
               PROVE  /\ subscribed \ gone \subseteq subs
                      /\ \A u \in subscribed \ Stateless :
                           u \in Known(view) /\ view.mirrors[u].pending = << >>
                      /\ \A u \in (subscribed \ Stateless) \ gone :
                           view.mirrors[u].confirmed = StateAt(log, u, Len(log))
    BY DEF QuietAgrees
  <2>1. \A u \in subscribed \ gone :
          u \in subs /\ view.mirrors[u].confirmed = StateAt(log, u, Len(log))
    BY <1>1, QuietCurrent
  <2>2. \A u \in subscribed : u \in Known(view) /\ view.mirrors[u].pending = << >>
    BY <1>1, QuietSettled DEF Mirrored, MirrorsKept
  <2> QED BY <2>1, <2>2
<1>2. Mirrored /\ PendingIsOpen /\ OpenIsAwaited => QuietAgrees
  BY <1>1
<1>3. "rehello" \notin Habits
  OBVIOUS
<1> QED BY <1>2, <1>3, MirrorInvariance, PendingStaysOpen, OpensAreAwaited, PTL

-----------------------------------------------------------------------------
(* Copies move forward. *)

\* The snapshots of a result, and those a job has found so far.
Given(result) ==
  IF result.type \in {"hello", "subscribed", "snapshot"} THEN result.snapshots ELSE {}

Found(j) ==
  IF j.stage = "answering" THEN Given(j.result)
  ELSE IF j.stage \in {"subscribing", "greeting"} THEN j.snapshots ELSE {}

\* They are not behind the copies they will replace.
NotBehind(ss) ==
  \A t \in ss : t.uri \in Known(view) => view.mirrors[t.uri].applied <= t.fromSeq

SnapshotsAhead ==
  Connected => \A r \in waiting : Restates(r) =>
    /\ \A i \in DOMAIN Coming : AnswerTo(Coming[i], r) => NotBehind(Given(Coming[i].result))
    /\ Handling(r) => NotBehind(Found(job[reader]))

\* What a turn of the hub adds to the snapshots of the client's job shows the end of the log.
FindsLatest ==
  \/ Found(job'[reader]) = {}
  \/ /\ job[reader] # Idle /\ job'[reader].request = job[reader].request
     /\ \A t \in Found(job'[reader]) : t \in Found(job[reader]) \/ t.fromSeq = Len(log)

\* What it sends is an envelope, or what the job has found.
SendsFound ==
  \A i \in DOMAIN Coming' :
    \/ i \in DOMAIN Coming /\ Coming'[i] = Coming[i]
    \/ IsPush(Coming'[i])
    \/ /\ job[reader].stage = "answering" /\ Coming'[i].id = job[reader].request.id
       /\ Coming'[i].result = job[reader].result

\* A job that goes on as it was.
LEMMA FindsNoMore ==
  ASSUME job'[reader] = job[reader] \/ job'[reader] = Idle
  PROVE  FindsLatest
<1>1. Found(Idle) = {}
  BY DEF Found, Idle
<1> QED BY <1>1 DEF FindsLatest

\* A stream that goes on as it was.
LEMMA SendsNoMore ==
  ASSUME HubTurn, Connected, NEW f, Coming' = Coming \/ (IsPush(f) /\ Coming' = Append(Coming, f))
  PROVE  SendsFound
<1>1. \A i \in DOMAIN Coming' : \/ i \in DOMAIN Coming /\ Coming'[i] = Coming[i]
                                \/ Coming'[i] = f /\ IsPush(f)
  <2>1. CASE Coming' = Coming
    BY <2>1
  <2>2. CASE IsPush(f) /\ Coming' = Append(Coming, f)
    BY <2>2, ComingLonger
  <2> QED BY <2>1, <2>2
<1> QED BY <1>1 DEF SendsFound

\* Snapshots stay ahead in a turn of the hub.
LEMMA HubStaysAhead ==
  ASSUME HubTurn, gone = {}, SnapshotsAhead, Connected => FindsLatest /\ SendsFound
  PROVE  SnapshotsAhead'
<1>1. ASSUME Connected, NEW r \in waiting, Restates(r)
      PROVE  /\ \A i \in DOMAIN Coming' :
                  AnswerTo(Coming'[i], r) => NotBehind(Given(Coming'[i].result))
             /\ Handling(r)' => NotBehind(Found(job'[reader]))
  <2>1. PICK j : j = job[reader]
    OBVIOUS
  <2>2. j \in Jobs /\ reader \in Sockets /\ view \in Plain(Told)
    BY <1>1, <2>1, Parted, ReaderIs DEF HubTurn, ClientParts, Types, WireTypes, HubTypes
  <2>3. \A ss : (\A t \in ss : t \in Found(j) \/ t.fromSeq = Len(log)) /\ NotBehind(Found(j)) =>
          NotBehind(ss)
    <3>1. \A u \in Known(view) : view.mirrors[u].applied <= Len(log)
      BY DEF HubTurn, MirrorOrder, CopiesTrue, Copied
    <3> QED BY <3>1 DEF NotBehind
  <2>4. Handling(r) => NotBehind(Found(j))
    BY <1>1, <2>1 DEF SnapshotsAhead
  <2>5. ASSUME NEW i \in DOMAIN Coming', AnswerTo(Coming'[i], r)
        PROVE  NotBehind(Given(Coming'[i].result))
    <3>1. CASE i \in DOMAIN Coming /\ Coming'[i] = Coming[i]
      BY <1>1, <2>5, <3>1 DEF SnapshotsAhead
    <3>2. CASE IsPush(Coming'[i])
      BY <2>5, <3>2 DEF IsPush, AnswerTo
    <3>3. CASE /\ j.stage = "answering" /\ Coming'[i].id = j.request.id
               /\ Coming'[i].result = j.result
      <4>1. j # Idle /\ j.request \in Issued
        BY <2>2, <3>3 DEF Jobs, Idle
      <4>2. Handling(r)
        BY <2>1, <2>5, <3>3, <4>1 DEF AnswerTo, Issued, Handling
      <4> QED BY <2>4, <3>3, <4>2 DEF Found
    <3> QED BY <1>1, <2>1, <2>5, <3>1, <3>2, <3>3 DEF SendsFound
  <2>6. ASSUME Handling(r)' PROVE NotBehind(Found(job'[reader]))
    <3>1. job'[reader].request = r
      BY <2>6, HubTurnSame DEF Handling
    <3>2. CASE Found(job'[reader]) = {}
      BY <3>2 DEF NotBehind
    <3>3. CASE /\ j # Idle /\ job'[reader].request = j.request
               /\ \A t \in Found(job'[reader]) : t \in Found(j) \/ t.fromSeq = Len(log)
      <4>1. Handling(r)
        BY <2>1, <3>1, <3>3 DEF Handling
      <4> QED BY <2>3, <2>4, <3>3, <4>1
    <3> QED BY <1>1, <2>1, <3>2, <3>3 DEF FindsLatest
  <2> QED BY <2>5, <2>6
<1>2. view' = view /\ waiting' = waiting /\ reader' = reader /\ (Connected' <=> Connected)
  BY HubTurnSame
<1>3. \A ss : NotBehind(ss)' <=> NotBehind(ss)
  BY <1>2 DEF NotBehind
<1> QED BY <1>1, <1>2, <1>3 DEF SnapshotsAhead, AnswerTo, Given, Found, Coming, Restates, Handling, NotBehind

\* A turn for one socket leaves the jobs of the others alone.
LEMMA FindsElsewhere ==
  ASSUME HubTurn, Connected, NEW s \in Sockets, NEW j, job' = [job EXCEPT ![s] = j],
         s = reader => FindsLatest
  PROVE  FindsLatest
<1>1. job \in [Sockets -> Jobs] /\ reader \in Sockets
  BY ReaderIs DEF HubTurn, Types, WireTypes, HubTypes
<1> QED BY <1>1, FindsNoMore

\* A frame is taken up.
LEMMA TakesFind ==
  ASSUME HubTurn, Connected, NEW s \in 1..current,
         TakeHandshake(s) \/ TakeSubscribe(s) \/ TakeUnsubscribe(s) \/ TakeDispatch(s)
  PROVE  FindsLatest /\ SendsFound
<1>1. job \in [Sockets -> Jobs] /\ reader \in Sockets /\ s \in Sockets
  BY ReaderIs, WorkLinks DEF HubTurn, Types, WireTypes, HubTypes
<1>2. /\ \A st \in {"resuming", "greeting", "subscribing", "committing"} : \A r, todo :
           Found(Job(st, r, todo)) = {}
      /\ \A r : Found(Refusal(r)) = {} /\ Found(Answering(r, [type |-> "duplicate"])) = {}
  BY DEF Found, Job, Refusal, Answering, Given
<1>3. Coming' = Coming
  BY DEF TakeHandshake, TakeSubscribe, TakeUnsubscribe, TakeDispatch, Coming
<1>4. FindsLatest
  <2>1. CASE TakeHandshake(s)
    <3> DEFINE r == Head(up[s])
               st == IF r.method = "reconnect" THEN "resuming"
                     ELSE IF r.uris = {} THEN "greeting" ELSE "subscribing"
               replaced == {link} \ {0, s}
    <3>1. /\ st \in {"resuming", "greeting", "subscribing"}
          /\ job' = [Ended(job, replaced) EXCEPT ![s] = Job(st, r, r.uris)]
      BY <2>1 DEF TakeHandshake
    <3> HIDE DEF r, st, replaced
    <3>2. CASE s = reader
      BY <1>1, <1>2, <3>1, <3>2 DEF FindsLatest, Ended
    <3>3. CASE s # reader
      BY <1>1, <3>1, <3>3, FindsNoMore DEF Ended
    <3> QED BY <3>2, <3>3
  <2>2. CASE TakeSubscribe(s) \/ TakeDispatch(s)
    <3>1. PICK j : job' = [job EXCEPT ![s] = j] /\ Found(j) = {}
      BY <1>2, <2>2 DEF TakeSubscribe, TakeDispatch
    <3>2. s = reader => FindsLatest
      BY <1>1, <3>1 DEF FindsLatest
    <3> QED BY <1>1, <3>1, <3>2, FindsElsewhere
  <2>3. CASE TakeUnsubscribe(s)
    BY <2>3, FindsNoMore DEF TakeUnsubscribe
  <2> QED BY <2>1, <2>2, <2>3
<1> QED BY <1>3, <1>4, SendsNoMore

\* The hub goes on with a frame.
LEMMA WorkFinds ==
  ASSUME HubTurn, Connected, NEW s \in 1..current,
         \/ \E u \in Uris : SubscribeOne(s, u) \/ ResumeOne(s, u)
         \/ Greet(s) \/ Resume(s) \/ Commit(s)
  PROVE  FindsLatest /\ SendsFound
<1>1. job \in [Sockets -> Jobs] /\ reader \in Sockets /\ s \in Sockets
  BY ReaderIs, WorkLinks DEF HubTurn, Types, WireTypes, HubTypes
<1>2. Coming' = Coming
  BY DEF SubscribeOne, ResumeOne, Greet, Resume, Commit, Coming
<1>3. PICK j : j = job[s]
  OBVIOUS
<1>4. \A u : SnapshotOf(u).fromSeq = Len(log)
  BY DEF SnapshotOf
<1>5. \A r : Found(Refusal(r)) = {}
  BY DEF Found, Refusal, Answering, Given
<1>6. PICK k : /\ job' = [job EXCEPT ![s] = k]
               /\ \/ Found(k) = {}
                  \/ /\ j # Idle /\ k.request = j.request
                     /\ \A t \in Found(k) : t \in Found(j) \/ t.fromSeq = Len(log)
  <2>1. ASSUME NEW u \in Uris, SubscribeOne(s, u)
        PROVE  \E k : /\ job' = [job EXCEPT ![s] = k]
                      /\ \/ Found(k) = {}
                         \/ /\ j # Idle /\ k.request = j.request
                            /\ \A t \in Found(k) : t \in Found(j) \/ t.fromSeq = Len(log)
    <3>1. j.stage = "subscribing" /\ j # Idle /\ j \in Jobs
      <4>1. j.stage = "subscribing"
        BY <1>3, <2>1 DEF SubscribeOne
      <4>2. j \in Jobs
        BY <1>1, <1>3
      <4> QED BY <4>1, <4>2 DEF Idle
    <3>2. CASE u \in gone
      <4>1. job' = [job EXCEPT ![s] = Refusal(j.request)]
        BY <1>3, <2>1, <3>2 DEF SubscribeOne
      <4> QED BY <1>5, <4>1
    <3>3. CASE u \notin gone
      <4>1. PICK got, todo :
              /\ got = IF u \in Stateless THEN j.snapshots ELSE j.snapshots \cup {SnapshotOf(u)}
              /\ todo = j.todo \ {u}
        OBVIOUS
      <4>2. PICK k : k = IF j.request.method = "subscribe"
                         THEN Answering(j.request, [type |-> "subscribed", snapshots |-> got])
                         ELSE [j EXCEPT !.todo = todo, !.snapshots = got,
                                 !.stage = IF todo = {} THEN "greeting" ELSE "subscribing"]
        OBVIOUS
      <4>5. job' = [job EXCEPT ![s] = k]
        BY <1>1, <1>3, <2>1, <3>3, <4>1, <4>2 DEF SubscribeOne
      <4>3. k.request = j.request /\ Found(k) = got
        BY <3>1, <4>2 DEF Jobs, Idle, Found, Given, Answering
      <4>4. Found(j) = j.snapshots
        BY <3>1 DEF Found
      <4> QED BY <1>4, <3>1, <4>1, <4>3, <4>4, <4>5
    <3> QED BY <3>2, <3>3
  <2>2. ASSUME NEW u \in Uris, ResumeOne(s, u)
        PROVE  \E k : job' = [job EXCEPT ![s] = k] /\ Found(k) = {}
    <3>1. j.stage = "resuming" /\ j # Idle /\ j \in Jobs
      <4>1. j.stage = "resuming"
        BY <1>3, <2>2 DEF ResumeOne
      <4>2. j \in Jobs
        BY <1>1, <1>3
      <4> QED BY <4>1, <4>2 DEF Idle
    <3>2. PICK k : k = [j EXCEPT !.todo = @ \ {u},
                          !.missing = IF u \in gone THEN @ \cup {u} ELSE @]
      OBVIOUS
    <3>3. job' = [job EXCEPT ![s] = k]
      BY <1>1, <1>3, <2>2, <3>2 DEF ResumeOne
    <3>4. k.stage = "resuming"
      BY <3>1, <3>2 DEF Jobs, Idle
    <3> QED BY <3>3, <3>4 DEF Found
  <2>3. ASSUME Greet(s)
        PROVE  \E k : /\ job' = [job EXCEPT ![s] = k]
                      /\ j # Idle /\ k.request = j.request /\ Found(k) = Found(j)
    <3>1. j.stage = "greeting" /\ j # Idle
      BY <1>3, <2>3 DEF Greet, Idle
    <3>2. PICK k : k = Answering(j.request, [type |-> "hello", serverSeq |-> Len(log),
                                             snapshots |-> j.snapshots])
      OBVIOUS
    <3>3. job' = [job EXCEPT ![s] = k]
      BY <1>1, <1>3, <2>3, <3>2 DEF Greet
    <3>4. k.request = j.request /\ Found(k) = Found(j)
      BY <3>1, <3>2 DEF Found, Given, Answering
    <3> QED BY <3>1, <3>3, <3>4
  <2>4. ASSUME Resume(s)
        PROVE  \E k : /\ job' = [job EXCEPT ![s] = k]
                      /\ j # Idle /\ k.request = j.request
                      /\ \A t \in Found(k) : t.fromSeq = Len(log)
    <3>1. j.stage = "resuming" /\ j # Idle
      BY <1>3, <2>4 DEF Resume, Idle
    <3>2. PICK k, result : /\ k = Answering(j.request, result)
                           /\ result = AnswerToResume(j.request, j.missing)
      OBVIOUS
    <3>4. job' = [job EXCEPT ![s] = k]
      BY <1>1, <1>3, <2>4, <3>2 DEF Resume
    <3>3. \A t \in Given(result) : t.fromSeq = Len(log)
      BY <1>4, <3>2 DEF Given, AnswerToResume, Replay
    <3>5. k.request = j.request /\ Found(k) = Given(result)
      BY <3>2 DEF Found, Answering
    <3> QED BY <3>1, <3>3, <3>4, <3>5
  <2>5. ASSUME Commit(s)
        PROVE  \E k : job' = [job EXCEPT ![s] = k] /\ Found(k) = {}
    <3>1. PICK verdict : job' = [job EXCEPT ![s] =
                                  IF verdict = "throw" THEN Refusal(job[s].request)
                                  ELSE [stage |-> "writing", request |-> job[s].request,
                                        accepted |-> verdict = "accept"]]
      BY <2>5 DEF Commit
    <3>2. PICK k : k = IF verdict = "throw" THEN Refusal(job[s].request)
                       ELSE [stage |-> "writing", request |-> job[s].request,
                             accepted |-> verdict = "accept"]
      OBVIOUS
    <3>3. job' = [job EXCEPT ![s] = k]
      BY <3>1, <3>2
    <3>4. Found(k) = {}
      BY <1>5, <3>2 DEF Found
    <3> QED BY <3>3, <3>4
  <2> QED BY <2>1, <2>2, <2>3, <2>4, <2>5
<1>7. s = reader => FindsLatest
  BY <1>1, <1>3, <1>6 DEF FindsLatest
<1> QED BY <1>1, <1>2, <1>6, <1>7, FindsElsewhere, SendsNoMore

\* A commit, an answer, and the turns of the host.
LEMMA EndsFind ==
  ASSUME HubTurn, Connected,
         \/ \E s \in 1..current : Publish(s) \/ Answer(s) \/ Detach(s)
         \/ \E u \in Uris : Foreign(u) \/ Destroy(u)
         \/ Restart(1..current)
  PROVE  FindsLatest /\ SendsFound
<1>1. /\ job \in [Sockets -> Jobs] /\ reader \in Sockets /\ 1..current \subseteq Sockets
      /\ down \in [Sockets -> Seq(DownFrames)] /\ reader' = reader
  BY ReaderIs, WorkLinks DEF HubTurn, Types, WireTypes, HubTypes
<1>2. ASSUME NEW e, IsPush(e), Broadcast(e) PROVE SendsFound
  <2>1. Coming' = Coming \/ Coming' = Append(Coming, e)
    BY <1>1, <1>2 DEF Broadcast, SentDown, Coming
  <2> QED BY <1>2, <2>1, SendsNoMore
<1>3. \A u, n, accepted : IsPush(Envelope(u, n, accepted))
  BY DEF IsPush, Envelope
<1>4. ASSUME NEW s \in 1..current, Publish(s) PROVE FindsLatest /\ SendsFound
  <2>1. PICK e, r, j : /\ IsPush(e) /\ Broadcast(e) /\ job' = [job EXCEPT ![s] = j]
                       /\ j = Idle \/ j = Answering(r, [type |-> "envelope", envelope |-> e])
    BY <1>3, <1>4 DEF Publish
  <2>2. Found(j) = {}
    BY <2>1 DEF Found, Idle, Answering, Given
  <2>3. s = reader => FindsLatest
    BY <1>1, <2>1, <2>2 DEF FindsLatest
  <2> QED BY <1>1, <1>2, <2>1, <2>3, FindsElsewhere
<1>5. ASSUME NEW s \in 1..current, Answer(s) PROVE FindsLatest /\ SendsFound
  <2>1. job' = [job EXCEPT ![s] = Idle] /\ job[s].stage = "answering"
    BY <1>5 DEF Answer
  <2>2. FindsLatest
    BY <1>1, <2>1, FindsNoMore
  <2>3. PICK f : /\ f = [kind |-> "answer", id |-> job[s].request.id, result |-> job[s].result]
                 /\ down' = SentDown(down, s, f)
    BY <1>5 DEF Answer
  <2>4. Coming' = Coming \/ (s = reader /\ Coming' = Append(Coming, f))
    BY <1>1, <2>3 DEF SentDown, Coming
  <2>5. ASSUME s = reader, Coming' = Append(Coming, f) PROVE SendsFound
    <3>1. \A i \in DOMAIN Coming' : (i \in DOMAIN Coming /\ Coming'[i] = Coming[i]) \/ Coming'[i] = f
      BY <2>5, ComingLonger
    <3> QED BY <2>1, <2>3, <2>5, <3>1 DEF SendsFound
  <2>6. ASSUME Coming' = Coming PROVE SendsFound
    BY <2>6, SendsNoMore
  <2> QED BY <2>2, <2>4, <2>5, <2>6
<1>6. ASSUME NEW s \in 1..current, Detach(s) PROVE FindsLatest /\ SendsFound
  <2>1. Coming' = Coming /\ job' = Ended(job, {s})
    BY <1>6 DEF Detach, Coming
  <2>2. job'[reader] = job[reader] \/ job'[reader] = Idle
    BY <1>1, <2>1 DEF Ended
  <2> QED BY <2>1, <2>2, FindsNoMore, SendsNoMore
<1>7. ASSUME NEW u \in Uris, Foreign(u) PROVE FindsLatest /\ SendsFound
  <2>1. Broadcast(Envelope(u, 0, TRUE)) /\ job' = job
    BY <1>7 DEF Foreign
  <2> QED BY <1>2, <1>3, <2>1, FindsNoMore
<1>8. ASSUME NEW u \in Uris, Destroy(u) PROVE FindsLatest /\ SendsFound
  <2>1. Coming' = Coming /\ job' = job
    BY <1>8 DEF Destroy, Coming
  <2> QED BY <2>1, FindsNoMore, SendsNoMore
<1>9. ASSUME Restart(1..current) PROVE FindsLatest /\ SendsFound
  <2>1. Coming' = Coming /\ job'[reader] = Idle
    BY <1>1, <1>9 DEF Restart, Coming
  <2> QED BY <2>1, FindsNoMore, SendsNoMore
<1> QED BY <1>4, <1>5, <1>6, <1>7, <1>8, <1>9

\* What a turn of the client may do to a copy: take it forward, or make it anew; and while it
\* waits to be restated it stays where it is.
Forward(u) ==
  LET a == view'.mirrors[u].applied IN
  /\ u \in Known(view) => view.mirrors[u].applied <= a
  /\ ~view'.mirrors[u].primed => a = IF u \in Known(view) THEN view.mirrors[u].applied ELSE 0

Forwards == \A u \in Known(view') : Forward(u)

\* Turns that take copies away, or none.
LEMMA FewerForwards ==
  ASSUME Types, NEW us, Fewer(view, view', us)
  PROVE  Forwards /\ Known(view') \subseteq Known(view)
<1>1. \A u \in Known(view) : view.mirrors[u].applied \in Nat
  BY Parted, PlainParts DEF ClientParts
<1> QED BY <1>1 DEF Forwards, Forward, Fewer, SameCopy

\* Turns that change what is pending.
LEMMA SameForwards ==
  ASSUME Types, Same(view, view')
  PROVE  Forwards /\ Known(view') \subseteq Known(view)
BY SameIsFewer, FewerForwards

\* A handshake, or a subscription, begins.
LEMMA WaitForwards ==
  ASSUME Types, NEW us \in SUBSET Uris, NEW vs,
         view' = WithMirrors(Unprime(view, vs), us) \/ view' = WithMirrors(view, us)
  PROVE  Forwards
<1>1. view \in Plain(Told) /\ \A u \in Known(view) : view.mirrors[u].applied \in Nat
  BY Parted, PlainParts DEF ClientParts
<1>2. PICK w : w = Unprime(view, vs) \/ w = view
  OBVIOUS
<1>3. ASSUME NEW x, x = Unprime(view, vs) \/ x = view, view' = WithMirrors(x, us)
      PROVE  Forwards
  <2>1. x \in Plain(Told) /\ Known(x) = Known(view)
        /\ \A u \in Known(view) : x.mirrors[u].applied = view.mirrors[u].applied
    BY <1>1, <1>3, UnprimeWaits
  <2>2. /\ Known(view') = Known(x) \cup us
        /\ \A u \in Known(x) : view'.mirrors[u] = x.mirrors[u]
        /\ \A u \in us \ Known(x) : view'.mirrors[u].applied = 0
    BY <1>3, <2>1, MirrorsWait
  <2> QED BY <1>1, <2>1, <2>2 DEF Forwards, Forward
<1> QED BY <1>3

\* Reconnect, here or on another socket.
LEMMA ReconnectForwards ==
  ASSUME Types, NEW s \in Sockets, Reconnect(s)
  PROVE  Forwards
<1>1. /\ view \in Plain(Told) /\ waiting \in SUBSET Requests /\ IsFiniteSet(waiting)
      /\ \A u \in Known(view) : view.mirrors[u].applied \in Nat
  BY Parted, PlainParts DEF ClientParts
<1>2. PICK w : w = Unprime(view, Known(view))
  OBVIOUS
<1>3. w \in Plain(Told) /\ Known(w) = Known(view)
      /\ \A u \in Known(view) : w.mirrors[u].applied = view.mirrors[u].applied
  BY <1>1, <1>2, UnprimeWaits
<1>4. view' = w \/ view' = Failures(w, waiting, "transport")
  BY <1>2 DEF Reconnect
<1>5. PICK us : Fewer(w, view', us)
  <2>1. CASE view' = w
    BY <2>1, SameItself, SameIsFewer
  <2>2. CASE view' = Failures(w, waiting, "transport")
    BY <1>1, <1>3, <2>2, FailuresFewer
  <2> QED BY <1>4, <2>1, <2>2
<1> QED BY <1>1, <1>3, <1>5 DEF Forwards, Forward, Fewer, SameCopy

\* A broadcast is read.
LEMMA PushForwards ==
  ASSUME ClientTurn, ReceivePush
  PROVE  Forwards /\ Known(view') = Known(view)
<1>1. PICK e \in Told : PushComes(e)
  BY PushComing
<1>2. /\ view' \in Plain(Told) /\ view \in Plain(Told) /\ Known(view') = Known(view)
      /\ \A u \in Known(view) : Passes(u, e) \/ Takes(u, e) \/ Keeps(u, e)
  BY <1>1, PushDoes
<1>3. e.seq \in Nat
  BY <1>1, PushReads
<1>4. ASSUME NEW u \in Known(view) PROVE Forward(u)
  <2>1. view.mirrors[u].applied \in Nat /\ view.mirrors[u].primed \in BOOLEAN
    BY <1>2, PlainParts
  <2>2. CASE Passes(u, e)
    BY <2>1, <2>2 DEF Passes, SameCopy, Forward
  <2>3. CASE Takes(u, e)
    <3>1. u = e.uri /\ MovedBy(view, view', e) /\ view'.mirrors[u].primed = view.mirrors[u].primed
          /\ view.mirrors[u].primed
      BY <2>3 DEF Takes, MovedBy
    <3>2. e.seq <= view.mirrors[u].applied \/ view.mirrors[u].applied < e.seq
      BY <1>3, <2>1
    <3>3. view'.mirrors[u].applied = view.mirrors[u].applied \/ 
          (view'.mirrors[u].applied = e.seq /\ view.mirrors[u].applied < e.seq)
      BY <3>1, <3>2 DEF MovedBy, SameCopy
    <3> QED BY <1>3, <2>1, <3>1, <3>3 DEF Forward
  <2>4. CASE Keeps(u, e)
    BY <2>1, <2>4 DEF Keeps, Forward
  <2> QED BY <1>2, <2>2, <2>3, <2>4
<1> QED BY <1>2, <1>4 DEF Forwards

\* The envelope of a dispatch is read.
LEMMA EnvelopeForwards ==
  ASSUME NEW r, NEW result, AnswerComes(r, result), result.type = "envelope",
         Answered(r, result)
  PROVE  Forwards /\ Known(view') = Known(view)
<1>1. /\ Types /\ ClientParts /\ HubTypes /\ view \in Plain(Told) /\ r \in Requests
      /\ r.method = "dispatch" /\ result.envelope.n = r.n
  BY Parted, ResultParts DEF AnswerComes, Fits, ClientParts
<1>2. PICK e : e = result.envelope
  OBVIOUS
<1>3. e \in Told /\ e.n = r.n
  BY <1>1, <1>2, ResultParts DEF AnswerComes, Fits
<1>4. r.n \in Numbers /\ e.seq \in Nat /\ e \in Envelopes
  BY <1>1, <1>3, ToldTyped DEF Requests
<1>5. PICK v : v = Inbound(view, e)
  OBVIOUS
<1>6. /\ v \in Plain(Told) /\ Known(v) = Known(view)
      /\ \A t \in Known(view) : t # e.uri => SameCopy(view.mirrors[t], v.mirrors[t])
      /\ e.uri \in Known(view) /\ view.mirrors[e.uri].primed => MovedBy(view, v, e)
      /\ e.uri \in Known(view) /\ ~view.mirrors[e.uri].primed =>
           v.mirrors[e.uri].applied = view.mirrors[e.uri].applied
  BY <1>1, <1>3, <1>5, InboundDoes
<1>7. Same(v, view')
  <2>1. view' = IF v.outcome[r.n] = "open" THEN Discard(v, r.uri, r.n, OutcomeOf(e)) ELSE v
    BY <1>2, <1>5 DEF Answered
  <2>2. OutcomeOf(e) \in Outcome \ {"open"} /\ e.accepted = (OutcomeOf(e) = "confirmed")
    BY <1>4 DEF Outcome, OutcomeOf, Envelopes
  <2>3. Witnessed(Told, r.n, OutcomeOf(e))
    BY <1>3, <2>2 DEF Witnessed
  <2>4. Same(v, Discard(v, r.uri, r.n, OutcomeOf(e)))
    BY <1>4, <1>6, <2>2, <2>3, DiscardSame
  <2> QED BY <2>1, <2>4, SameItself
<1>8. ASSUME NEW u \in Known(view) PROVE Forward(u)
  <2>1. view.mirrors[u].applied \in Nat /\ view.mirrors[u].primed \in BOOLEAN
    BY <1>1, PlainParts
  <2>2. view'.mirrors[u].applied = v.mirrors[u].applied
        /\ view'.mirrors[u].primed = v.mirrors[u].primed
    BY <1>6, <1>7 DEF Same, SameCopy
  <2>3. CASE u # e.uri \/ ~view.mirrors[u].primed
    <3>1. v.mirrors[u].applied = view.mirrors[u].applied
      BY <1>6, <2>3 DEF SameCopy
    <3> QED BY <2>1, <2>2, <3>1 DEF Forward
  <2>4. CASE u = e.uri /\ view.mirrors[u].primed
    <3>1. e.seq <= view.mirrors[u].applied \/ view.mirrors[u].applied < e.seq
      BY <1>4, <2>1
    <3>2. /\ v.mirrors[u].primed = view.mirrors[u].primed
          /\ \/ v.mirrors[u].applied = view.mirrors[u].applied
             \/ v.mirrors[u].applied = e.seq /\ view.mirrors[u].applied < e.seq
      BY <1>6, <2>4, <3>1 DEF MovedBy, SameCopy
    <3> QED BY <1>4, <2>1, <2>2, <2>4, <3>2 DEF Forward
  <2> QED BY <2>3, <2>4
<1>9. Known(view') = Known(view)
  BY <1>6, <1>7 DEF Same
<1> QED BY <1>8, <1>9 DEF Forwards

\* Copies that are restated from snapshots that are not behind them.
LEMMA RisenForwards ==
  ASSUME Types, Types', NEW ss \in SUBSET Snapshots, NotBehind(ss), Risen(ss)
  PROVE  Forwards /\ Known(view') \subseteq Known(view)
<1>1. /\ \A u \in Known(view) : view.mirrors[u].applied \in Nat
      /\ \A u \in Known(view') : view'.mirrors[u].applied \in Nat
  BY Parted, PartedNext, PlainParts DEF ClientParts
<1>2. \A t \in ss : t.fromSeq \in Nat
  BY DEF Snapshots
<1>3. ASSUME NEW u \in Known(view') PROVE Forward(u)
  BY <1>1, <1>2 DEF NotBehind, Risen, Rises, Forward
<1> QED BY <1>3 DEF Forwards, Risen

\* A subscription's answer is read.
LEMMA JoinedForwards ==
  ASSUME NEW r, NEW result, AnswerComes(r, result), result.type = "subscribed", Joined(r, result),
         NotBehind(result.snapshots)
  PROVE  Forwards /\ Known(view') = Known(view)
<1>1. /\ Types /\ Types' /\ result.snapshots \in SUBSET Snapshots
  BY ResultParts DEF AnswerComes
<1>2. /\ \A u \in Known(view) : view.mirrors[u].applied \in Nat
      /\ \A u \in Known(view') : view'.mirrors[u].applied \in Nat
  BY <1>1, Parted, PartedNext, PlainParts DEF ClientParts
<1>3. \A t \in result.snapshots : t.fromSeq \in Nat
  BY <1>1 DEF Snapshots
<1>4. /\ r.uri \in Known(view) /\ Known(view') = Known(view)
      /\ \A t \in Known(view) : t # r.uri => SameCopy(view.mirrors[t], view'.mirrors[t])
      /\ view'.mirrors[r.uri].primed /\ Rises(r.uri, result.snapshots)
  BY JoinedDoes
<1>5. Forward(r.uri)
  BY <1>2, <1>3, <1>4 DEF NotBehind, Rises, Forward
<1>6. \A t \in Known(view) : t # r.uri => Forward(t)
  BY <1>2, <1>4 DEF SameCopy, Forward
<1> QED BY <1>4, <1>5, <1>6 DEF Forwards

\* An answer is read.
LEMMA AnswerForwards ==
  ASSUME ClientTurn, ReceiveAnswer, SnapshotsAhead
  PROVE  Forwards /\ Known(view') \subseteq Known(view)
<1>1. PICK r \in waiting, result \in Results :
        /\ AnswerComes(r, result)
        /\ \/ result.type = "hello" /\ Welcome(r, result)
           \/ result.type \in {"replay", "snapshot"} /\ Resumed(result)
           \/ result.type = "subscribed" /\ Joined(r, result)
           \/ result.type \in {"envelope", "duplicate"} /\ Answered(r, result)
           \/ /\ result.type = "error" /\ view' = Failure(view, r, "error")
              /\ UNCHANGED <<shakeState, subscribed, writable, initialized>>
  BY AnswerComing
<1>2. /\ Types /\ Types' /\ Connected /\ r \in Requests /\ view \in Plain(Told)
      /\ Fits(r, result) /\ 1 \in DOMAIN Coming /\ AnswerTo(Coming[1], r)
      /\ result = Coming[1].result
  BY <1>1, Parted DEF AnswerComes, ClientParts
<1>3. Restates(r) => NotBehind(Given(result))
  BY <1>2 DEF SnapshotsAhead
<1>4. CASE result.type = "hello" /\ Welcome(r, result)
  <2>1. Restates(r) /\ result.snapshots \in SUBSET Snapshots
    BY <1>1, <1>2, <1>4, ResultParts DEF Fits, Restates
  <2>2. Risen(result.snapshots)
    BY <1>1, <1>4, WelcomeKeeps
  <2> QED BY <1>2, <1>3, <1>4, <2>1, <2>2, RisenForwards DEF Given
<1>5. CASE result.type = "snapshot" /\ Resumed(result)
  <2>1. Restates(r) /\ result.snapshots \in SUBSET Snapshots
    BY <1>1, <1>2, <1>5, ResultParts DEF Fits, Restates
  <2>2. Risen(result.snapshots)
    BY <1>1, <1>5, SnapshotKeeps
  <2> QED BY <1>2, <1>3, <1>5, <2>1, <2>2, RisenForwards DEF Given
<1>6. CASE result.type = "replay" /\ Resumed(result)
  <2>1. Risen({}) /\ NotBehind({})
    BY <1>1, <1>6, ReplayKeeps DEF NotBehind
  <2> QED BY <1>2, <2>1, RisenForwards
<1>7. CASE result.type = "subscribed" /\ Joined(r, result)
  <2>1. Restates(r)
    BY <1>1, <1>2, <1>7 DEF Fits, Restates
  <2> QED BY <1>1, <1>3, <1>7, <2>1, JoinedForwards DEF Given
<1>8. CASE result.type = "envelope" /\ Answered(r, result)
  BY <1>1, <1>8, EnvelopeForwards
<1>9. CASE result.type = "duplicate" /\ Answered(r, result)
  <2>1. view' = Discard(view, r.uri, r.n, "duplicate") /\ r.n \in Numbers
    BY <1>2, <1>9 DEF Answered, Fits, Requests
  <2>2. Witnessed(Told, r.n, "duplicate") /\ "duplicate" \in Outcome \ {"open"}
    BY DEF Witnessed, Outcome
  <2> QED BY <1>2, <2>1, <2>2, DiscardSame, SameForwards
<1>10. CASE view' = Failure(view, r, "error")
  BY <1>2, <1>10, FailureFewer, FewerForwards
<1> QED BY <1>1, <1>4, <1>5, <1>6, <1>7, <1>8, <1>9, <1>10

\* The session is torn down.
LEMMA TearDownForwards ==
  ASSUME Types, TearDown
  PROVE  Forwards /\ Known(view') = {} /\ ~Connected' /\ done'
<1>1. view \in Plain(Told)
  BY Parted DEF ClientParts
<1>2. PICK w : w = SettleAll(view, DOMAIN view.outcome, "lost")
  OBVIOUS
<1>3. w \in Plain(Told)
  BY <1>1, <1>2, EndAllSame
<1>4. w = [mirrors |-> w.mirrors, seen |-> w.seen, outcome |-> w.outcome]
  BY <1>3, PlainParts
<1>5. view' = [w EXCEPT !.mirrors = << >>] /\ reader' = 0 /\ done'
  BY <1>2 DEF TearDown
<1>6. view'.mirrors = << >>
  BY <1>4, <1>5
<1>7. Known(view') = {}
  BY <1>6 DEF Known
<1> QED BY <1>5, <1>7 DEF Forwards, Connected

\* A save ends.
LEMMA SaveForwards ==
  ASSUME Types, NEW ok \in BOOLEAN, SaveEnds(ok)
  PROVE  TearDown \/ (Same(view, view') /\ reader' = reader /\ done' = done)
<1>1. CASE Flushed
  <2>1. \/ TearDown
        \/ /\ view' = ReleaseAll(view, flushing) /\ done' = done /\ reader' = reader
           /\ \A i \in DOMAIN flushing : flushing[i].n # 0
    BY <1>1, FlushedParts
  <2>2. view \in Plain(Told) /\ flushing \in Seq(Flushes)
    BY Parted DEF ClientParts, Types, ClientTypes
  <2> QED BY <2>1, <2>2, ReleaseAllSame
<1>2. CASE UNCHANGED <<reader, done, view>>
  BY <1>2, SameItself
<1> QED BY <1>1, <1>2 DEF SaveEnds

\* A client that was shut down shows nothing.
Closed == done => ~Connected /\ Known(view) = {}

\* It stays closed.
LEMMA ClosedOn ==
  ASSUME Closed, done' = done, reader' \in {0, reader}, Known(view') \subseteq Known(view)
  PROVE  Closed'
BY DEF Closed, Connected

\* Every turn of a client that is not killed takes its copies forward.
LEMMA ClientForwards ==
  ASSUME ClientTurn, SnapshotsAhead, Closed, Durable => "kill" \notin Troubles, ClientSteps
  PROVE  Forwards /\ Closed'
<1>0. Types /\ Types' /\ view \in Plain(Told)
  BY Parted DEF ClientTurn, ClientParts
<1>1. ASSUME NEW us \in SUBSET Uris, Hello(us) PROVE Forwards /\ Closed'
  <2>1. view' = WithMirrors(Unprime(view, us), us) /\ ~done'
    BY <1>1 DEF Hello, linkState
  <2> QED BY <1>0, <2>1, WaitForwards DEF Closed
<1>2. ASSUME NEW s \in Sockets, Reconnect(s) PROVE Forwards /\ Closed'
  <2>1. ~done'
    BY <1>2 DEF Reconnect
  <2> QED BY <1>0, <1>2, <2>1, ReconnectForwards DEF Closed
<1>3. ASSUME NEW u \in Uris, Subscribe(u) PROVE Forwards /\ Closed'
  <2>1. view' = WithMirrors(view, {u}) /\ ~done' /\ {u} \in SUBSET Uris
    BY <1>3 DEF Subscribe, linkState
  <2> QED BY <1>0, <2>1, WaitForwards DEF Closed
<1>4. ASSUME NEW u \in Uris, Unsubscribe(u) PROVE Forwards /\ Closed'
  <2>1. view' = Forget(view, u) /\ done' = done /\ reader' = reader
    BY <1>4 DEF Unsubscribe, linkState
  <2> QED BY <1>0, <2>1, ForgetFewer, FewerForwards, ClosedOn
<1>5. ASSUME NEW u \in Uris, Dispatch(u) PROVE Forwards /\ Closed'
  <2>1. Same(view, view') /\ done' = done /\ reader' = reader
    BY <1>0, <1>5, DispatchSame DEF Dispatch, linkState
  <2> QED BY <1>0, <2>1, SameForwards, ClosedOn
<1>6. CASE Shutdown
  <2>1. TearDown \/ UNCHANGED <<view, reader, done>>
    BY <1>6 DEF Shutdown
  <2>2. CASE TearDown
    BY <1>0, <2>2, TearDownForwards DEF Closed
  <2>3. CASE UNCHANGED <<view, reader, done>>
    BY <1>0, <2>3, SameItself, SameForwards, ClosedOn
  <2> QED BY <2>1, <2>2, <2>3
<1>7. CASE ReceivePush
  <2>1. done' = done /\ reader' = reader
    BY <1>7 DEF ReceivePush, linkState
  <2> QED BY <1>7, <2>1, PushForwards, ClosedOn
<1>8. CASE ReceiveAnswer
  <2>1. done' = done /\ reader' = reader
    BY <1>8 DEF ReceiveAnswer
  <2> QED BY <1>8, <2>1, AnswerForwards, ClosedOn
<1>9. CASE ReceiveLate
  <2>1. view' = view /\ done' = done /\ reader' = reader
    BY <1>9 DEF ReceiveLate, clientVars, linkState
  <2> QED BY <1>0, <2>1, SameItself, SameForwards, ClosedOn
<1>10. CASE EndOfStream
  <2>1. view' = Failures(view, waiting, "transport") /\ done' = done /\ reader' = 0
    BY <1>10 DEF EndOfStream, linkState
  <2>2. waiting \in SUBSET Requests /\ IsFiniteSet(waiting)
    BY <1>0, Parted DEF ClientParts
  <2> QED BY <1>0, <2>1, <2>2, FailuresFewer, FewerForwards, ClosedOn
<1>11. ASSUME NEW r \in waiting, Timeout(r) PROVE Forwards /\ Closed'
  <2>1. view' = Failure(view, r, "timeout") /\ done' = done /\ reader' = reader
    BY <1>11 DEF Timeout, linkState
  <2>2. r \in Requests
    BY <1>0, Parted DEF ClientParts
  <2> QED BY <1>0, <2>1, <2>2, FailureFewer, FewerForwards, ClosedOn
<1>12. ASSUME NEW ok \in BOOLEAN, SaveEnds(ok) PROVE Forwards /\ Closed'
  <2>1. CASE TearDown
    BY <1>0, <2>1, TearDownForwards DEF Closed
  <2>2. CASE Same(view, view') /\ reader' = reader /\ done' = done
    BY <1>0, <2>2, SameForwards, ClosedOn
  <2> QED BY <1>0, <1>12, <2>1, <2>2, SaveForwards
<1>13. CASE Restore
  <2>1. done /\ ~done'
    BY <1>13 DEF Restore
  <2>2. Known(view) = {}
    BY <2>1 DEF Closed
  <2>3. \A u \in Known(view') : view'.mirrors[u].primed
    <3>1. PICK ms : ms = [u \in DOMAIN stored.channels |->
                           Restated([NewMirror(TRUE) EXCEPT
                             !.confirmed = stored.channels[u].confirmed,
                             !.applied = stored.channels[u].applied,
                             !.pending = stored.channels[u].pending])]
      OBVIOUS
    <3>2. view'.mirrors = ms
      BY <1>13, <3>1 DEF Restore
    <3>3. \A u \in DOMAIN ms : ms[u].primed
      BY <3>1 DEF Restated, NewMirror
    <3> QED BY <3>2, <3>3 DEF Known
  <2> QED BY <2>1, <2>2, <2>3 DEF Forwards, Forward, Closed
<1> QED BY <1>1, <1>2, <1>3, <1>4, <1>5, <1>6, <1>7, <1>8, <1>9, <1>10, <1>11, <1>12, <1>13
        DEF ClientSteps

\* What the snapshots of an answer are about.
LEMMA GivenAbout ==
  ASSUME NEW r, NEW result, GoodResult(r, result)
  PROVE  \A t \in Given(result) : t.uri \in r.uris /\ t.fromSeq \in 0..Len(log)
BY DEF GoodResult, TrueSnapshots, Given

\* What the snapshots that a job has found are about.
LEMMA FoundAbout ==
  ASSUME NEW j, JobGood(j)
  PROVE  \A t \in Found(j) : t.uri \in j.request.uris /\ t.fromSeq \in 0..Len(log)
<1>1. CASE j.stage = "answering"
  BY <1>1, GivenAbout DEF JobGood, Found
<1>2. CASE j.stage \in {"subscribing", "greeting"}
  BY <1>2 DEF JobGood, TrueSnapshots, Found
<1> QED BY <1>1, <1>2 DEF Found

\* The snapshots that are on their way stay ahead as the client goes on.
LEMMA ClientStaysAhead ==
  ASSUME ClientTurn, ClientOrder', OnWire, SnapshotsAhead, Forwards
  PROVE  SnapshotsAhead'
<1> DEFINE After(ss) ==
      \A t \in ss : t.uri \in Known(view') => view'.mirrors[t.uri].applied <= t.fromSeq
<1>1. /\ Types /\ Types' /\ HubOrder /\ LinksOrdered /\ JobsGood /\ AnswersGood
      /\ UNCHANGED <<log, gone, job>> /\ UNCHANGED serverVars
      /\ \A r \in waiting' : r \in waiting \/ r.id >= nextId
  BY DEF ClientTurn, HubOrder, OnWire, serverVars, hubVars
<1>2. CASE Ending
  BY <1>2 DEF Ending, SnapshotsAhead, Connected
<1>3. CASE Opening
  <2>1. reader' \in Sockets /\ reader' > current /\ down'[reader'] = << >>
    BY <1>1, <1>3, ReaderIs DEF Opening
  <2>2. job[reader'] = Idle
    BY <1>1, <2>1 DEF LinksOrdered
  <2>3. job'[reader'] = Idle /\ Coming' = << >>
    BY <1>1, <2>1, <2>2 DEF Coming
  <2>4. DOMAIN Coming' = {} /\ \A r : ~(Handling(r)')
    BY <2>3 DEF Handling
  <2> QED BY <2>4 DEF SnapshotsAhead
<1>4. ASSUME Staying, Connected' PROVE SnapshotsAhead'
  <2>1. Connected /\ reader' = reader /\ reader \in Sockets
    BY <1>1, <1>4, ReaderIs DEF Staying, Connected
  <2>2. PICK k \in {0, 1} : Shifted(Coming, Coming', k)
    <3>1. PICK D \in Seq(DownFrames) : D = Coming
      BY <1>1, <2>1, Parted DEF ComingParts
    <3>2. CASE Coming' = Coming
      BY <3>1, <3>2, ShiftedNot
    <3>3. CASE Coming # << >> /\ Coming' = Tail(Coming)
      BY <3>1, <3>3, ShiftedTail
    <3> QED BY <1>4, <2>1, <3>2, <3>3 DEF Staying
  <2>3. Reads(k)
    BY <1>1, <2>1, <2>2 DEF Reads, OnWire
  <2>4. ASSUME NEW r \in waiting', r \in waiting, Restates(r), NEW ss, NotBehind(ss),
               \A t \in ss : t.uri \in r.uris /\ t.fromSeq \in 0..Len(log)
        PROVE  After(ss)
    <3>1. r \in Requests /\ Len(log) \in Nat
      BY <1>1, <2>4, Parted, LogTyped DEF ClientParts
    <3>2. \A u \in r.uris \cap Known(view') : ~view'.mirrors[u].primed
      <4>1. IsHandshake(r) \/ r.method = "subscribe"
        BY <2>4, <3>1, RequestMethods
      <4> QED BY <1>4, <2>4, <4>1 DEF ClientOrder
    <3>3. ASSUME NEW t \in ss, t.uri \in Known(view')
          PROVE  view'.mirrors[t.uri].applied <= t.fromSeq
      BY <2>4, <3>1, <3>2, <3>3 DEF Forwards, Forward, NotBehind
    <3> QED BY <3>3
  <2>5. ASSUME NEW r \in waiting', Restates(r), NEW i \in DOMAIN Coming', AnswerTo(Coming'[i], r)
        PROVE  After(Given(Coming'[i].result))
    <3>1. i + k \in DOMAIN Coming /\ Coming'[i] = Coming[i + k]
      BY <2>2 DEF Shifted
    <3>2. i \in 1..(Len(Coming') + 1)
      BY <1>1, <2>3, FramesKept
    <3>3. r \in waiting
      BY <1>1, <2>3, <2>5, <3>2, PromisesOld
    <3>4. GoodResult(r, Coming'[i].result)
      BY <1>1, <2>1, <2>5, <3>1, <3>3 DEF AnswersGood
    <3>6. PICK ss : ss = Given(Coming'[i].result)
      OBVIOUS
    <3>5. NotBehind(ss)
      <4>1. AnswerTo(Coming[i + k], r) /\ ss = Given(Coming[i + k].result)
        BY <2>5, <3>1, <3>6 DEF AnswerTo
      <4>2. NotBehind(Given(Coming[i + k].result))
        BY <2>1, <2>5, <3>1, <3>3, <4>1 DEF SnapshotsAhead
      <4> QED BY <4>1, <4>2
    <3>7. After(ss)
      BY <2>4, <2>5, <3>3, <3>4, <3>5, <3>6, GivenAbout
    <3> QED BY <3>6, <3>7
  <2>6. ASSUME NEW r \in waiting', Restates(r), Handling(r)'
        PROVE  After(Found(job'[reader']))
    <3>1. job'[reader'] = job[reader]
      BY <1>1, <2>1
    <3>2. 1 \in 1..(Len(Coming') + 1)
      BY <1>1, <2>3, FramesKept
    <3>3. r \in waiting
      BY <1>1, <2>3, <2>6, <3>2, PromisesOld
    <3>4. Handling(r) /\ JobGood(job[reader])
      BY <1>1, <2>1, <2>6, <3>1 DEF Handling, JobsGood
    <3>5. NotBehind(Found(job[reader]))
      BY <2>1, <2>6, <3>3, <3>4 DEF SnapshotsAhead
    <3>6. PICK ss : ss = Found(job[reader])
      OBVIOUS
    <3>7. \A t \in ss : t.uri \in r.uris /\ t.fromSeq \in 0..Len(log)
      BY <3>4, <3>6, FoundAbout DEF Handling
    <3>8. After(ss)
      BY <2>4, <2>6, <3>3, <3>5, <3>6, <3>7
    <3> QED BY <3>1, <3>6, <3>8
  <2> HIDE DEF After
  <2>7. \A r \in waiting' : Restates(r) =>
          /\ \A i \in DOMAIN Coming' :
               AnswerTo(Coming'[i], r) => NotBehind(Given(Coming[i].result))'
          /\ Handling(r)' => NotBehind(Found(job[reader]))'
    <3>1. \A i : NotBehind(Given(Coming[i].result))' <=> After(Given(Coming'[i].result))
      BY DEF NotBehind, Given, After
    <3>2. NotBehind(Found(job[reader]))' <=> After(Found(job'[reader']))
      BY DEF NotBehind, Found, Given, After
    <3> QED BY <2>5, <2>6, <3>1, <3>2
  <2> QED BY <2>7 DEF SnapshotsAhead, Restates, AnswerTo
<1>5. CASE ~Connected'
  BY <1>5 DEF SnapshotsAhead
<1> QED BY <1>2, <1>3, <1>4, <1>5 DEF OnWire

\* What the refinement needs besides the session's invariant: snapshots on their way are not
\* behind the copies, and a client that was shut down has none.
Leading == SnapshotsAhead /\ Closed

\* A turn of the hub keeps it.
LEMMA HubStepsLead ==
  ASSUME Mortal = {}, HubTurn, HubSteps, Leading
  PROVE  Leading'
<1>1. ASSUME Connected PROVE FindsLatest /\ SendsFound
  <2>1. ASSUME NEW s \in 1..current,
               TakeHandshake(s) \/ TakeSubscribe(s) \/ TakeUnsubscribe(s) \/ TakeDispatch(s)
        PROVE  FindsLatest /\ SendsFound
    BY <1>1, <2>1, TakesFind
  <2>2. ASSUME NEW s \in 1..current,
               \/ \E u \in Uris : SubscribeOne(s, u) \/ ResumeOne(s, u)
               \/ Greet(s) \/ Resume(s) \/ Commit(s)
        PROVE  FindsLatest /\ SendsFound
    BY <1>1, <2>2, WorkFinds
  <2>3. CASE \/ \E s \in 1..current : Publish(s) \/ Answer(s) \/ Detach(s)
             \/ \E u \in Uris : Foreign(u) \/ Destroy(u)
             \/ Restart(1..current)
    BY <1>1, <2>3, EndsFind
  <2> QED BY <2>1, <2>2, <2>3 DEF HubSteps
<1>2. gone = {}
  BY DEF HubTurn, Types, HubTypes
<1>3. SnapshotsAhead'
  BY <1>1, <1>2, HubStaysAhead DEF Leading
<1>4. view' = view /\ done' = done /\ reader' = reader
  BY DEF HubTurn, clientVars, linkState
<1>5. Closed'
  BY <1>4, ClosedOn DEF Leading
<1> QED BY <1>3, <1>5 DEF Leading

\* Every step keeps it, and a step of the client takes the copies forward, for an application
\* that makes one call at a time, when no channel is destroyed and no client that stores its
\* checkpoints is killed.
LEMMA StepLeads ==
  ASSUME Mortal = {}, Durable => "kill" \notin Troubles,
         Mirrored, Mirrored', Leading, [Next]_vars
  PROVE  /\ Leading'
         /\ \/ UNCHANGED clientVars /\ Longer
            \/ UNCHANGED serverVars /\ Forwards
<1>1. Types /\ Types' /\ MirrorsKept /\ MirrorsKept' /\ HubOrder /\ HubOrder'
      /\ ClientOrder /\ ClientOrder' /\ MirrorOrder
  BY DEF Mirrored
<1>2. CASE HubSteps /\ UNCHANGED clientVars
  <2>1. HubTurn
    BY <1>1, <1>2, HubStepsTurn
  <2> QED BY <1>2, <2>1, HubStepsLead DEF HubTurn
<1>3. CASE ClientSteps /\ UNCHANGED serverVars
  <2>1. ClientTurn /\ OnWire
    BY <1>1, <1>3, ClientOnWire DEF ClientTurn
  <2>2. Forwards /\ Closed'
    BY <1>3, <2>1, ClientForwards DEF Leading
  <2>3. SnapshotsAhead'
    BY <1>1, <2>1, <2>2, ClientStaysAhead DEF Leading
  <2> QED BY <1>3, <2>2, <2>3 DEF Leading
<1>4. CASE UNCHANGED vars
  <2>1. HubTurn
    BY <1>1, <1>4 DEF HubTurn, vars, Longer, serverVars, hubVars
  <2>2. gone = {} /\ job' = job /\ Coming' = Coming /\ view' = view /\ done' = done /\ reader' = reader
    BY <1>1, <1>4 DEF Types, HubTypes, vars, serverVars, hubVars, clientVars, linkState, Coming
  <2>3. Connected => FindsLatest /\ SendsFound
    BY <2>1, <2>2, FindsNoMore, SendsNoMore
  <2>4. SnapshotsAhead' /\ Closed'
    BY <2>1, <2>2, <2>3, HubStaysAhead, ClosedOn DEF Leading
  <2> QED BY <2>1, <2>4 DEF Leading, HubTurn
<1>5. Next \/ UNCHANGED vars
  OBVIOUS
<1> QED BY <1>2, <1>3, <1>4, <1>5, NextIs

\* It holds at the start.
LEMMA InitLeads ==
  ASSUME Init
  PROVE  Leading /\ Followed!Init
<1>1. waiting = {} /\ ~done /\ log = << >> /\ Known(view) = {}
  BY DEF Init, ServerInit, ClientInit, Known
<1>2. Followed!Init
  BY <1>1 DEF Followed!Init
<1> QED BY <1>1, <1>2 DEF Leading, SnapshotsAhead, Closed

\* A log that is longer is a step of the hub of the abstract specification.
LEMMA LongerFollows ==
  ASSUME Types, Longer, UNCHANGED clientVars
  PROVE  [Followed!Next]_(Followed!vars)
<1>1. view' = view /\ Len(log) \in Nat /\ log \in Seq(Envelopes)
  BY LogTyped DEF Types, clientVars, linkState
<1>2. CASE log' = log
  BY <1>1, <1>2 DEF Followed!vars, Known
<1>3. ASSUME NEW e, log' = Append(log, e) PROVE Followed!Commit
  <2>1. PICK s : s = log
    OBVIOUS
  <2>2. /\ Len(Append(s, e)) = Len(s) + 1
        /\ SubSeq(s, 1, Len(s)) = SubSeq(Append(s, e), 1, Len(s))
    BY <1>1, <2>1
  <2>3. Len(log') = Len(log) + 1 /\ IsPrefix(log, log')
    BY <1>1, <1>3, <2>1, <2>2 DEF IsPrefix
  <2> QED BY <1>1, <2>3 DEF Followed!Commit, Followed!IsPrefix, IsPrefix, Known
<1> QED BY <1>2, <1>3 DEF Longer, Followed!Next

\* Copies that go forward, and are true, are a step of the abstract specification's client.
LEMMA ForwardsFollow ==
  ASSUME Types', MirrorOrder', Mortal = {}, UNCHANGED serverVars, Forwards
  PROVE  Followed!Move
<1>1. gone' = {} /\ log' = log
  BY DEF Types, HubTypes, serverVars, hubVars
<1>2. \A u \in Known(view') :
        /\ view'.mirrors[u].confirmed = StateAt(log, u, view'.mirrors[u].applied)
        /\ view'.mirrors[u].applied <= Len(log)
  BY <1>1 DEF MirrorOrder, CopiesTrue, Copied
<1>3. \A u \in Known(view') :
        u \in Known(view) => view.mirrors[u].applied <= view'.mirrors[u].applied
  BY DEF Forwards, Forward
<1>4. \A s, u, n : Followed!StateAt(s, u, n) = StateAt(s, u, n)
  <2>1. \A s, I : Followed!Selected(s, I) = Selected(s, I)
    BY Zenon DEF Followed!Selected, Selected, Followed!Cardinality, Cardinality
  <2>2. \A e : Followed!Tag(e) = Tag(e)
    BY DEF Followed!Tag, Tag
  <2>3. \A s : Followed!Reduced(s) = Reduced(s)
    BY <2>1, <2>2 DEF Followed!Reduced, Reduced
  <2> QED BY <2>1, <2>3 DEF Followed!StateAt, StateAt
<1>5. /\ [u \in Known(view) |-> view.mirrors[u].applied]'
         = [u \in Known(view') |-> view'.mirrors[u].applied]
      /\ [u \in Known(view) |-> view.mirrors[u].confirmed]'
         = [u \in Known(view') |-> view'.mirrors[u].confirmed]
  BY DEF Known
<1> QED BY <1>1, <1>2, <1>3, <1>4, <1>5 DEF Followed!Move

\* The confirmed states of a client follow the hub's log and never go back, through replays,
\* snapshots, lost links and late answers (#reconcile, #applySnapshot, applyEvents), for an
\* application that makes one call at a time, when no channel is destroyed and no client
\* that stores its checkpoints is killed: one that is goes back to its last checkpoint.
THEOREM FollowerRefinement ==
  ASSUME Habits = {}, Mortal = {}, Durable => "kill" \notin Troubles
  PROVE  Spec => ImplementsFollower
<1>1. Init => Leading /\ Followed!Init
  BY InitLeads
<1>2. Mirrored /\ Mirrored' /\ Leading /\ [Next]_vars
      => Leading' /\ [Followed!Next]_(Followed!vars)
  <2>1. SUFFICES ASSUME Mirrored, Mirrored', Leading, [Next]_vars
                 PROVE  Leading' /\ [Followed!Next]_(Followed!vars)
    OBVIOUS
  <2>2. Types /\ Types' /\ MirrorOrder'
    BY <2>1 DEF Mirrored
  <2>3. ASSUME UNCHANGED clientVars, Longer PROVE [Followed!Next]_(Followed!vars)
    BY <2>2, <2>3, LongerFollows
  <2>4. ASSUME UNCHANGED serverVars, Forwards PROVE [Followed!Next]_(Followed!vars)
    BY <2>2, <2>4, ForwardsFollow DEF Followed!Next
  <2> QED BY <2>1, <2>3, <2>4, StepLeads
<1>3. Spec => []Mirrored
  BY MirrorInvariance
<1> QED BY <1>1, <1>2, <1>3, PTL DEF Spec, ImplementsFollower, Followed!Spec
=============================================================================
