---------------------------- MODULE MirrorProofs -----------------------------
(***************************************************************************)
(* What the steps of a client do to its mirrors, for every set of channels *)
(* and any number of sockets, dispatches and commits: its copies stay      *)
(* states of the log, and what it has seen it has applied, or will from    *)
(* what is on the wire.  Part by part of the invariant, handler by handler.*)
(***************************************************************************)
EXTENDS SessionLogProofs

-----------------------------------------------------------------------------
(* What single envelopes do to a view. *)

\* An envelope comes in: it is applied, or held back, or is for a channel without a mirror.
LEMMA InboundDoes ==
  ASSUME HubTypes, NEW v \in Plain(Told), NEW e \in Told
  PROVE  LET x == Inbound(v, e)
         IN  /\ x \in Plain(Told) /\ Known(x) = Known(v) /\ SeesOf(v, x, {e.seq})
             /\ \A t \in Known(v) : t # e.uri => SameCopy(v.mirrors[t], x.mirrors[t])
             /\ e.uri \in Known(v) /\ v.mirrors[e.uri].primed => MovedBy(v, x, e)
             /\ e.uri \in Known(v) /\ ~v.mirrors[e.uri].primed =>
                  /\ x.mirrors[e.uri].confirmed = v.mirrors[e.uri].confirmed
                  /\ x.mirrors[e.uri].applied = v.mirrors[e.uri].applied
                  /\ ~x.mirrors[e.uri].primed /\ x.seen = v.seen
                  /\ x.mirrors[e.uri].buffered = Append(v.mirrors[e.uri].buffered, e)
             /\ e.uri \notin Known(v) => x.seen = v.seen
<1> DEFINE u == e.uri
<1>1. v.seen \in Nat /\ e \in Envelopes /\ e.seq \in Nat /\ Told \in SUBSET Envelopes
  BY PlainParts, ToldTyped, LogTyped
<1>2. CASE u \notin Known(v)
  BY <1>1, <1>2 DEF Inbound, SeesOf, SameCopy
<1>3. CASE u \in Known(v) /\ v.mirrors[u].primed
  <2>1. PICK x : x = Reconcile(v, e)
    OBVIOUS
  <2>2. x \in Plain(Told) /\ MovedBy(v, x, e)
    BY <1>1, <1>3, <2>1, ReconcileMoves
  <2>3. Inbound(v, e) = x
    BY <1>3, <2>1 DEF Inbound
  <2>4. v.mirrors[u].applied \in Nat
    BY <1>3, PlainParts
  <2>5. SeesOf(v, x, {e.seq})
    BY <1>1, <2>2, <2>4 DEF MovedBy, SeesOf
  <2> QED BY <1>3, <2>2, <2>3, <2>5 DEF MovedBy
<1>4. CASE u \in Known(v) /\ ~v.mirrors[u].primed
  <2> DEFINE m == [v.mirrors[u] EXCEPT !.buffered = Append(@, e)]
             x == With(v, u, m)
  <2>1. v.mirrors[u] \in Mirrors(Told) /\ v.mirrors[u].buffered \in Seq(For(Told, u))
    BY <1>4, PlainParts
  <2>2. e \in For(Told, u)
    BY DEF For
  <2>3. Append(v.mirrors[u].buffered, e) \in Seq(For(Told, u))
    BY <2>1, <2>2, AppendTyped
  <2>4. Append(v.mirrors[u].buffered, e) \in Seq(Told)
    BY <2>3, SeqMonotone DEF For
  <2>5. m \in Mirrors(Told) /\ m.buffered \in Seq(For(Told, u))
    BY <2>1, <2>3, <2>4 DEF Mirrors
  <2>6. /\ m.confirmed = v.mirrors[u].confirmed /\ m.applied = v.mirrors[u].applied
        /\ m.primed = v.mirrors[u].primed /\ m.buffered = Append(v.mirrors[u].buffered, e)
    BY <2>1 DEF Mirrors
  <2>7. Inbound(v, e) = x
    <3>1. v = [mirrors |-> v.mirrors, seen |-> v.seen, outcome |-> v.outcome]
          /\ v.mirrors \in [Known(v) -> Mirrors(Told)]
      BY PlainParts
    <3> QED BY <1>4, <2>1, <3>1 DEF Inbound, With, Mirrors
  <2> HIDE DEF m
  <2>8. /\ x \in Plain(Told) /\ Known(x) = Known(v) /\ x.seen = v.seen /\ x.mirrors[u] = m
        /\ \A t \in Known(v) \ {u} : x.mirrors[t] = v.mirrors[t]
    BY <1>4, <2>5, WithChanged
  <2> HIDE DEF x
  <2>9. \A t \in Known(v) : t # u => SameCopy(v.mirrors[t], x.mirrors[t])
    BY <2>8 DEF SameCopy
  <2> QED BY <1>1, <1>4, <2>6, <2>7, <2>8, <2>9 DEF SeesOf
<1> QED BY <1>2, <1>3, <1>4

\* What a dispatch leaves of the copies when its flush returns, and several of them.
LEMMA ReleaseAllSame ==
  ASSUME NEW v \in Plain(Told), NEW s \in Seq(Flushes), \A i \in DOMAIN s : s[i].n # 0
  PROVE  ReleaseAll(v, s) \in Plain(Told) /\ Same(v, ReleaseAll(v, s))
<1> DEFINE A == {w \in Flushes : w.n # 0}
           G == {x \in Plain(Told) : Same(v, x)}
<1>1. ASSUME NEW w \in A, NEW x \in G PROVE Released(w, x) \in G
  <2>1. w.n \in Numbers /\ x \in Plain(Told) /\ Same(v, x)
    BY DEF Flushes, Numbers
  <2>2. Witnessed(Told, w.n, "lost")
    BY DEF Witnessed
  <2>3. Discard(x, w.uri, w.n, "lost") \in Plain(Told) /\ Same(x, Discard(x, w.uri, w.n, "lost"))
    BY <2>1, <2>2, DiscardSame DEF Outcome
  <2>4. Same(v, Discard(x, w.uri, w.n, "lost"))
    BY <2>1, <2>3, SameTransitive
  <2> QED BY <2>1, <2>3, <2>4 DEF Released
<1>2. v \in G
  BY DEF Same, SameCopy
<1>3. s \in Seq(A)
  <2>1. \A i \in DOMAIN s : s[i] \in A
    OBVIOUS
  <2> HIDE DEF A
  <2> QED BY <2>1
<1> HIDE DEF A, G
<1>4. PICK h \in [0..Len(s) -> G] : h[Len(s)] = ReleaseAll(v, s)
  BY <1>1, <1>2, <1>3, ReleaseSteps
<1>5. Len(s) \in 0..Len(s)
  BY <1>3
<1>6. ReleaseAll(v, s) \in G
  BY <1>4, <1>5
<1> QED BY <1>6 DEF G

-----------------------------------------------------------------------------
(* The order among the client's calls, step by step. *)

\* The client's part of the state, as far as its calls are about it.
LEMMA ClientNow ==
  ASSUME Types
  PROVE  /\ view \in Plain(Told) /\ Known(view) \subseteq Uris /\ IsFiniteSet(Known(view))
         /\ waiting \in SUBSET Requests /\ IsFiniteSet(waiting) /\ nextId \in Nat
         /\ \A r \in waiting : r.id < nextId /\ r.id \in Nat
         /\ subscribed \subseteq Uris /\ flushing \in Seq(Flushes) /\ early \in Seq(Told)
         /\ HubTypes /\ ready \in BOOLEAN
<1>1. view \in Plain(Told)
  BY ViewsArePlain DEF Types, ClientTypes
<1>2. Known(view) \subseteq Uris
  BY <1>1, PlainParts
<1>3. IsFiniteSet(Known(view))
  BY <1>2, FS_Subset, ClientAssumption
<1>4. waiting \subseteq Issued /\ IsFiniteSet(waiting) /\ nextId \in Nat
  BY DEF Types, ClientTypes
<1>5. \A r \in Requests : r.id \in Nat
  BY DEF Requests
<1> QED BY <1>1, <1>2, <1>3, <1>4, <1>5 DEF Types, ClientTypes, Issued

\* Whoever restates is a handshake or a subscription.
LEMMA RequestMethods ==
  ASSUME NEW r \in Requests
  PROVE  /\ r.method \in {"hello", "reconnect", "subscribe", "dispatch"}
         /\ r.created \subseteq r.uris /\ r.uris \subseteq Uris
         /\ r.method = "subscribe" => r.uris = {r.uri} /\ r.uri \in Uris
         /\ Restates(r) <=> IsHandshake(r) \/ r.method = "subscribe"
         /\ Taking(r) \subseteq r.uris
         /\ ~Restates(r) => Taking(r) = {}
         /\ Restates(r) => Taking(r) = r.created
BY DEF Requests, Restates, IsHandshake, Taking

\* Nobody restates a channel of us, nor the whole link.
LEMMA NobodyRestates ==
  ASSUME Types, NEW us, Restating(us) = {}
  PROVE  \A r \in waiting : Restates(r) => r.method = "subscribe" /\ r.uris \cap us = {}
<1>1. waiting \in SUBSET Requests
  BY ClientNow
<1>2. ASSUME NEW r \in waiting, Restates(r)
      PROVE  r.method = "subscribe" /\ r.uris \cap us = {}
  BY <1>2 DEF Restating, Restates
<1> QED BY <1>2

\* Turns that leave the handshake as it is.
LEMMA CallsStay ==
  ASSUME Types, ClientOrder, UNCHANGED <<reader, ready, initialized>>,
         subscribed' \subseteq subscribed,
         (Connected /\ ~ready) \/ early' = early,
         \A u \in Known(view') :
           /\ u \in Known(view) /\ view'.mirrors[u].primed = view.mirrors[u].primed
           /\ view.mirrors[u].primed => u \in subscribed' /\ view'.mirrors[u].buffered = << >>
           /\ u \in subscribed' \cup UNION {Taking(r) : r \in waiting'}
           /\ ready /\ ~view.mirrors[u].primed =>
                \E r \in waiting' : r.method = "subscribe" /\ u \in r.uris,
         \A r \in waiting' : Restates(r) => r \in waiting,
         Connected \/ waiting' = {},
         \/ \A r \in waiting' : r.method # "reconnect"
         \/ subscribed' = subscribed /\ view'.seen = view.seen
  PROVE  ClientOrder'
<1>1. ready' = ready /\ initialized' = initialized /\ (Connected' <=> Connected)
  BY DEF Connected
<1>2. \A r \in waiting' : IsHandshake(r) \/ r.method \in {"subscribe", "hello", "reconnect"} =>
        r \in waiting
  BY DEF Restates, IsHandshake
<1>3. \A u \in Known(view') : view'.mirrors[u].primed =>
        u \in subscribed' /\ view'.mirrors[u].buffered = << >>
  OBVIOUS
<1>4. Known(view') \subseteq subscribed' \cup UNION {Taking(r) : r \in waiting'}
  OBVIOUS
<1>5. \A r \in waiting' : IsHandshake(r) =>
        ~ready' /\ \A q \in waiting' : Restates(q) => q = r
  BY <1>1, <1>2 DEF ClientOrder
<1>6. \A r \in waiting' : r.method = "subscribe" => ready' /\ r.uris \cap subscribed' = {}
  BY <1>1, <1>2 DEF ClientOrder
<1>7. /\ ready' => initialized' /\ early' = << >> /\ Connected'
      /\ ~Connected' => waiting' = {} /\ early' = << >>
      /\ Connected' /\ ~ready' => \A u \in Known(view') : ~view'.mirrors[u].primed
      /\ ~initialized' => subscribed' = {}
  BY <1>1 DEF ClientOrder
<1>8. /\ \A r \in waiting' : r.method = "hello" => ~initialized'
      /\ \A r \in waiting' : r.method = "reconnect" => r.uris = subscribed' /\ r.seen = view'.seen
  BY <1>1, <1>2 DEF ClientOrder
<1>9. ready' => \A u \in Known(view') : ~view'.mirrors[u].primed =>
        \E r \in waiting' : r.method = "subscribe" /\ u \in r.uris
  BY <1>1
<1> QED BY <1>3, <1>4, <1>5, <1>6, <1>7, <1>8, <1>9 DEF ClientOrder

\* Turns that change no more of the mirrors than what is pending.
LEMMA SameCallsStay ==
  ASSUME Types, ClientOrder, UNCHANGED <<reader, ready, early, initialized, subscribed>>,
         Same(view, view'),
         \A r \in waiting' : Restates(r) => r \in waiting,
         \A r \in waiting : Restates(r) => r \in waiting',
         Connected \/ waiting' = {}
  PROVE  ClientOrder'
<1>1. \A r \in waiting : Taking(r) # {} \/ r.method = "subscribe" => Restates(r)
  BY RequestMethods, ClientNow DEF Restates
<1>2. ASSUME NEW u \in Known(view')
      PROVE  /\ u \in Known(view) /\ view'.mirrors[u].primed = view.mirrors[u].primed
             /\ view.mirrors[u].primed => u \in subscribed' /\ view'.mirrors[u].buffered = << >>
             /\ u \in subscribed' \cup UNION {Taking(r) : r \in waiting'}
             /\ ready /\ ~view.mirrors[u].primed =>
                  \E r \in waiting' : r.method = "subscribe" /\ u \in r.uris
  <2>1. u \in Known(view) /\ SameCopy(view.mirrors[u], view'.mirrors[u])
    BY DEF Same
  <2>2. u \in subscribed \cup UNION {Taking(r) : r \in waiting}
    BY <2>1 DEF ClientOrder
  <2>3. u \in subscribed' \cup UNION {Taking(r) : r \in waiting'}
    BY <1>1, <2>2
  <2>4. view.mirrors[u].primed => u \in subscribed' /\ view'.mirrors[u].buffered = << >>
    BY <2>1 DEF ClientOrder, SameCopy
  <2>5. ready /\ ~view.mirrors[u].primed =>
          \E r \in waiting' : r.method = "subscribe" /\ u \in r.uris
    BY <1>1, <2>1 DEF ClientOrder
  <2> QED BY <2>1, <2>3, <2>4, <2>5 DEF SameCopy
<1>3. subscribed' = subscribed /\ view'.seen = view.seen /\ early' = early
  BY DEF Same
<1> QED BY <1>2, <1>3, CallsStay

\* A request fails, and takes its mirrors with it.
LEMMA FailureStays ==
  ASSUME Types, MirrorsKept, ClientOrder,
         UNCHANGED <<reader, ready, early, initialized, subscribed>>,
         NEW r \in waiting, NEW why, view' = Failure(view, r, why), waiting' = waiting \ {r}
  PROVE  /\ ClientOrder' /\ Fewer(view, view', Taking(r))
         /\ \A u \in Known(view') : u \in subscribed \/ \E q \in waiting' : u \in Taking(q)
<1>1. view \in Plain(Told) /\ r \in Requests /\ waiting \in SUBSET Requests
  BY ClientNow
<1>2. Fewer(view, view', Taking(r))
  BY <1>1, FailureFewer
<1>3. ASSUME NEW u \in Known(view')
      PROVE  /\ u \in Known(view) /\ view'.mirrors[u].primed = view.mirrors[u].primed
             /\ view.mirrors[u].primed => u \in subscribed' /\ view'.mirrors[u].buffered = << >>
             /\ u \in subscribed' \cup UNION {Taking(q) : q \in waiting'}
             /\ ready /\ ~view.mirrors[u].primed =>
                  \E q \in waiting' : q.method = "subscribe" /\ u \in q.uris
  <2>1. u \in Known(view) /\ u \notin Taking(r) /\ SameCopy(view.mirrors[u], view'.mirrors[u])
    BY <1>2 DEF Fewer
  <2>2. u \in subscribed \cup UNION {Taking(q) : q \in waiting}
    BY <2>1 DEF ClientOrder
  <2>3. u \in subscribed' \cup UNION {Taking(q) : q \in waiting'}
    BY <2>1, <2>2
  <2>4. view.mirrors[u].primed => u \in subscribed' /\ view'.mirrors[u].buffered = << >>
    BY <2>1 DEF ClientOrder, SameCopy
  <2>5. ASSUME ready, ~view.mirrors[u].primed
        PROVE  \E q \in waiting' : q.method = "subscribe" /\ u \in q.uris
    <3>1. PICK q \in waiting : q.method = "subscribe" /\ u \in q.uris
      BY <2>1, <2>5 DEF ClientOrder
    <3>2. CASE q # r
      BY <3>1, <3>2
    <3>3. CASE q = r
      <4>1. u \notin subscribed
        BY <3>1 DEF ClientOrder
      <4>2. PICK p \in waiting : u \in Taking(p)
        BY <2>2, <4>1
      <4>3. Restates(p) /\ p # r /\ Restates(r) /\ u \in p.uris
        BY <1>1, <2>1, <3>1, <3>3, <4>2, RequestMethods DEF Restates
      <4> QED BY <3>1, <3>3, <4>3 DEF MirrorsKept
    <3> QED BY <3>2, <3>3
  <2> QED BY <2>1, <2>3, <2>4, <2>5 DEF SameCopy
<1>4. subscribed' = subscribed /\ view'.seen = view.seen /\ early' = early
  BY <1>2 DEF Fewer
<1>5. (Connected \/ waiting' = {}) /\ \A q \in waiting' : Restates(q) => q \in waiting
  BY DEF ClientOrder
<1>6. ClientOrder'
  BY <1>3, <1>4, <1>5, CallsStay
<1> QED BY <1>2, <1>3, <1>6

-----------------------------------------------------------------------------
(* What the types give, in every state. *)

ClientParts ==
  /\ view \in Plain(Told) /\ Known(view) \subseteq Uris /\ IsFiniteSet(Known(view))
  /\ waiting \in SUBSET Requests /\ IsFiniteSet(waiting) /\ nextId \in Nat
  /\ \A r \in waiting : r.id < nextId /\ r.id \in Nat
  /\ subscribed \subseteq Uris /\ early \in Seq(Told)
  /\ HubTypes /\ ready \in BOOLEAN

ComingParts ==
  /\ reader \in Sockets /\ Coming \in Seq(DownFrames) /\ Len(Coming) \in Nat
  /\ DOMAIN Coming = 1..Len(Coming)
  /\ \A i \in DOMAIN Coming :
       /\ Coming[i] \in DownFrames
       /\ IsPush(Coming[i]) <=> Coming[i] \in Told
       /\ ~IsPush(Coming[i]) => Coming[i] \in Answers
       /\ Bears(Coming[i]) \subseteq Nat

HadParts ==
  /\ Had \subseteq Nat
  /\ early \in Seq(Told) /\ Len(early) \in Nat /\ DOMAIN early = 1..Len(early)
  /\ \A u \in Known(view) : Waits(view, u) \subseteq Had
  /\ SeqsOf(early) \subseteq Had /\ view.seen \in Had
  /\ \A u \in Known(view) :
       LET held == view.mirrors[u].buffered
       IN  /\ held \in Seq(Told) /\ Len(held) \in Nat /\ DOMAIN held = 1..Len(held)
           /\ \A k \in DOMAIN held :
                /\ held[k] \in Told /\ held[k].uri = u /\ held[k].seq \in Nat
                /\ held[k].seq \in Waits(view, u) /\ held[k].seq \in Had

\* They hold whenever the types do.
LEMMA Parted ==
  /\ Types => ClientParts /\ HadParts
  /\ Types /\ Connected => ComingParts
<1>1. ASSUME Types PROVE ClientParts
  BY <1>1, ClientNow DEF ClientParts
<1>2. ASSUME Types PROVE HadParts
  BY <1>2, HadTyped, BufferedTyped DEF HadParts
<1>3. ASSUME Types, Connected PROVE ComingParts
  BY <1>3, ComingTyped DEF ComingParts
<1> QED BY <1>1, <1>2, <1>3

\* ... and in the next one.
LEMMA PartedNext ==
  /\ Types' => (ClientParts /\ HadParts)'
  /\ (Types /\ Connected)' => ComingParts'
BY Parted, PTL

-----------------------------------------------------------------------------
(* The client reads on. *)

\* At most one frame is gone from the stream, and what is asked is new.
Reads(k) ==
  /\ UNCHANGED <<serverVars, reader, detached>> /\ Connected
  /\ k \in {0, 1} /\ Shifted(Coming, Coming', k)
  /\ \A r \in waiting' : r \in waiting \/ r.id >= nextId

\* What is left of the stream.
LEMMA FramesKept ==
  ASSUME Types, Types', NEW k, Reads(k)
  PROVE  /\ Connected' /\ k \in Nat
         /\ Len(Coming) \in Nat /\ Len(Coming') \in Nat /\ Len(Coming) = Len(Coming') + k
         /\ DOMAIN Coming = 1..Len(Coming) /\ DOMAIN Coming' = 1..Len(Coming')
         /\ \A i \in DOMAIN Coming' : i + k \in DOMAIN Coming /\ Coming'[i] = Coming[i + k]
         /\ \A j \in DOMAIN Coming :
              j > k => j - k \in DOMAIN Coming' /\ Coming'[j - k] = Coming[j]
<1>1. Connected' /\ k \in {0, 1}
  BY DEF Reads, Connected
<1>2. /\ Len(Coming) \in Nat /\ DOMAIN Coming = 1..Len(Coming)
  BY ComingTyped DEF Reads
<1>3. /\ Len(Coming') \in Nat /\ DOMAIN Coming' = 1..Len(Coming')
  BY <1>1, PartedNext DEF ComingParts
<1>4. /\ Len(Coming) = Len(Coming') + k
      /\ \A i \in DOMAIN Coming' : i + k \in DOMAIN Coming /\ Coming'[i] = Coming[i + k]
  BY DEF Reads, Shifted
<1>5. ASSUME NEW j \in DOMAIN Coming, j > k
      PROVE  j - k \in DOMAIN Coming' /\ Coming'[j - k] = Coming[j]
  <2>2. j - k \in DOMAIN Coming'
    BY <1>1, <1>2, <1>3, <1>4, <1>5
  <2>3. (j - k) + k = j
    BY <1>1, <1>2
  <2>4. Coming'[j - k] = Coming[(j - k) + k]
    BY <1>4, <2>2
  <2> QED BY <2>2, <2>3, <2>4
<1> QED BY <1>1, <1>2, <1>3, <1>4, <1>5

\* Broadcasts are left, unless one of them is read.
LEMMA PushesKept ==
  ASSUME Types, Types', NEW k, Reads(k), k = 1 => ~IsPush(Coming[1])
  PROVE  \A j \in DOMAIN Coming : IsPush(Coming[j]) =>
           j > k /\ j - k \in DOMAIN Coming' /\ Coming'[j - k] = Coming[j]
<1> SUFFICES ASSUME NEW j \in DOMAIN Coming, IsPush(Coming[j]) PROVE j > k
  BY FramesKept
<1>1. k \in {0, 1} /\ DOMAIN Coming = 1..Len(Coming) /\ Len(Coming) \in Nat
  BY FramesKept DEF Reads
<1> QED BY <1>1

\* A request that is promised an answer has been waiting for it.
LEMMA PromisesOld ==
  ASSUME Types, Types', NEW k, Reads(k), NEW r \in waiting', NEW i \in 1..(Len(Coming') + 1),
         (i \in DOMAIN Coming' /\ AnswerTo(Coming'[i], r)) \/ Handling(r)'
  PROVE  r \in waiting
<1>1. r.id < nextId
  <2>1. CASE i \in DOMAIN Coming' /\ AnswerTo(Coming'[i], r)
    <3>1. i + k \in DOMAIN Coming /\ Coming'[i] = Coming[i + k]
      BY <2>1, FramesKept
    <3>2. ~IsPush(Coming[i + k])
      BY <2>1, <3>1 DEF IsPush, AnswerTo
    <3>3. Coming[i + k] \in Answers
      BY <3>1, <3>2, ComingTyped DEF Reads
    <3> QED BY <2>1, <3>1, <3>3, AnswerParts DEF AnswerTo
  <2>2. CASE Handling(r)'
    <3>1. job[reader] # Idle /\ job[reader].request = r /\ reader \in Sockets
      BY <2>2, ComingTyped DEF Handling, Reads, serverVars
    <3>2. job[reader].request \in Issued
      BY <3>1 DEF Types, HubTypes, Jobs
    <3> QED BY <3>1, <3>2 DEF Issued
  <2> QED BY <2>1, <2>2
<1>2. r.id \in Nat /\ nextId \in Nat
  <2>1. waiting' \in SUBSET Requests
    BY PartedNext DEF ClientParts
  <2> QED BY <2>1, ClientNow DEF Requests
<1> QED BY <1>1, <1>2 DEF Reads

\* What is still promised was promised already.
LEMMA PromisesKept ==
  ASSUME Types, Types', NEW k, Reads(k), NEW u, NEW b, NEW i \in 1..(Len(Coming') + 1),
         Promised(u, b, i)',
         view'.mirrors[u].primed = view.mirrors[u].primed,
         view'.mirrors[u].applied = view.mirrors[u].applied
  PROVE  Promised(u, b, i + k) /\ i + k \in 1..(Len(Coming) + 1)
<1>1. PICK r \in waiting' :
        /\ Restates(r) /\ u \in r.uris
        /\ \/ i \in DOMAIN Coming' /\ InFrame(i, r, u, b)'
           \/ i = Len(Coming') + 1 /\ InJob(r, u, b)'
  BY DEF Promised, Restates
<1>2. r \in waiting
  BY <1>1, PromisesOld DEF InFrame, InJob
<1>3. i + k \in 1..(Len(Coming) + 1)
  BY FramesKept
<1>4. ASSUME NEW result, Brings(result, r, u, b)' PROVE Brings(result, r, u, b)
  <2>1. Between(u, r.seen, b)' = Between(u, r.seen, b)
    BY DEF Between, Told, Reads, serverVars, hubVars
  <2> QED BY <1>4, <2>1 DEF Brings
<1>5. CASE i \in DOMAIN Coming' /\ InFrame(i, r, u, b)'
  <2>1. i + k \in DOMAIN Coming /\ Coming'[i] = Coming[i + k]
    BY <1>5, FramesKept
  <2>2. PICK result : result = Coming[i + k].result
    OBVIOUS
  <2>3. AnswerTo(Coming[i + k], r) /\ Brings(result, r, u, b)'
    BY <1>5, <2>1, <2>2 DEF InFrame, AnswerTo, Brings, Between, Told
  <2>4. InFrame(i + k, r, u, b)
    BY <1>4, <2>2, <2>3 DEF InFrame
  <2> QED BY <1>1, <1>2, <1>3, <2>1, <2>4 DEF Promised
<1>6. CASE i = Len(Coming') + 1 /\ InJob(r, u, b)'
  <2>1. i + k = Len(Coming) + 1
    <3>1. i = Len(Coming') + 1
      BY <1>6
    <3>2. Len(Coming) = Len(Coming') + k /\ k \in Nat /\ Len(Coming') \in Nat
      BY FramesKept
    <3> QED BY <3>1, <3>2
  <2>2. job'[reader'] = job[reader] /\ Handling(r)
    BY <1>6 DEF InJob, Handling, Reads, serverVars
  <2>3. PICK j : j = job[reader]
    OBVIOUS
  <2>4. \/ /\ j.stage \in {"subscribing", "greeting"}
           /\ \/ \E t \in j.snapshots : t.uri = u /\ t.fromSeq = b
              \/ u \in Stateless /\ u \notin j.todo /\ b = view'.mirrors[u].applied
        \/ j.stage = "answering" /\ Brings(j.result, r, u, b)'
    BY <1>6, <2>2, <2>3 DEF InJob, Brings, Between, Told
  <2>5. InJob(r, u, b)
    BY <1>4, <2>2, <2>3, <2>4 DEF InJob
  <2> QED BY <1>1, <1>2, <1>3, <2>1, <2>5 DEF Promised
<1> QED BY <1>1, <1>5, <1>6

-----------------------------------------------------------------------------
(* What the client's turns do to the copies, and what it keeps the stream by. *)

\* A mirror that is the same copy as before.
Stays(u) ==
  /\ u \in Known(view) /\ SameCopy(view.mirrors[u], view'.mirrors[u])
  /\ early' = early /\ (ready => ready')

\* A mirror that waits for an answer which nobody has promised yet.
Anew(u) ==
  /\ ~view'.mirrors[u].primed /\ Copied(view'.mirrors[u], u)
  /\ \A r \in waiting \cap waiting' : Restates(r) => u \notin r.uris

\* A mirror that holds back the envelope of an answer.
Holds(u, k) ==
  /\ u \in Known(view) /\ ~view.mirrors[u].primed
  /\ view'.mirrors[u].confirmed = view.mirrors[u].confirmed
  /\ view'.mirrors[u].applied = view.mirrors[u].applied
  /\ ~view'.mirrors[u].primed /\ early' = early /\ (ready => ready')
  /\ k = 1 /\ Coming[1].result.type = "envelope" /\ Coming[1].result.envelope.uri = u
  /\ view'.mirrors[u].buffered = Append(view.mirrors[u].buffered, Coming[1].result.envelope)

\* A mirror that was restated, and has taken all that was held back.
Lands(u) ==
  LET a == view'.mirrors[u].applied IN
  /\ u \in Known(view) /\ view'.mirrors[u].primed /\ Copied(view'.mirrors[u], u)
  /\ \A k \in DOMAIN view.mirrors[u].buffered : view.mirrors[u].buffered[k].seq <= a
  /\ \A k \in DOMAIN early : early[k].uri = u => early[k].seq <= a
  /\ \E b \in 0..Len(log) : Based(u, b) /\ Between(u, a, b) = {}

\* A mirror that is not behind what it was, or not behind a snapshot of these.
Rises(u, ss) ==
  \/ view.mirrors[u].applied <= view'.mirrors[u].applied
  \/ \E t \in ss : t.uri = u /\ t.fromSeq <= view'.mirrors[u].applied

Risen(ss) ==
  \A u \in Known(view') : u \in Known(view) /\ view'.mirrors[u].primed /\ Rises(u, ss)

Settling(k) ==
  /\ Reads(k) /\ (k = 1 => ~IsPush(Coming[1])) /\ (early' = early \/ early' = << >>)
  /\ \A h \in Had' : h \in Had \/ (k = 1 /\ h \in Bears(Coming[1]))
  /\ \A u \in Known(view') \ gone : Stays(u) \/ Anew(u) \/ Holds(u, k) \/ Lands(u)

\* Such turns keep the copies true, ...
LEMMA SettledCopies ==
  ASSUME Types, Types', NEW k, Settling(k), CopiesTrue
  PROVE  CopiesTrue'
<1>1. log' = log /\ gone' = gone
  BY DEF Settling, Reads, serverVars, hubVars
<1>2. ASSUME NEW u \in Known(view') \ gone PROVE Copied(view'.mirrors[u], u)
  <2>1. CASE Stays(u)
    <3>1. Copied(view.mirrors[u], u)
      BY <2>1 DEF Stays, CopiesTrue
    <3> QED BY <2>1, <3>1 DEF Stays, SameCopy, Copied
  <2>2. CASE Holds(u, k)
    <3>1. Copied(view.mirrors[u], u)
      BY <2>2 DEF Holds, CopiesTrue
    <3> QED BY <2>2, <3>1 DEF Holds, Copied
  <2> QED BY <2>1, <2>2 DEF Settling, Anew, Lands
<1> QED BY <1>1, <1>2 DEF CopiesTrue, Copied

\* ... the stream in order, ...
LEMMA SettledStream ==
  ASSUME Types, Types', NEW k, Settling(k), Stream
  PROVE  Stream'
<1>1. Reads(k) /\ k \in {0, 1} /\ Shifted(Coming, Coming', k) /\ Connected
  BY DEF Settling, Reads
<1>2. PICK D \in Seq(DownFrames) : D = Coming
  BY <1>1, ComingTyped
<1>3. PICK F \in Seq(DownFrames') : F = Coming'
  BY <1>1, PartedNext, FramesKept DEF ComingParts
<1>4. DOMAIN early' = {} \/ early' = early
  BY DEF Settling
<1>5. InOrder(Had, early, D)
  BY <1>1, <1>2 DEF Stream
<1>6. PICK E : E = early'
  OBVIOUS
<1>7. PICK G : G = Had'
  OBVIOUS
<1>8. PICK H : H = Had
  OBVIOUS
<1>9. \A i, j \in DOMAIN E : i < j => E[i].seq < E[j].seq
  BY <1>4, <1>5, <1>6 DEF InOrder
<1>10. \A h \in G : h \in H \/ (k = 1 /\ h \in Bears(D[1]))
  BY <1>2, <1>7, <1>8 DEF Settling
<1>11. D \in Seq(DownFrames \cup DownFrames') /\ F \in Seq(DownFrames \cup DownFrames')
  BY <1>2, <1>3, SeqMonotone
<1>12. InOrder(G, E, F)
  BY <1>1, <1>2, <1>3, <1>5, <1>8, <1>9, <1>10, <1>11, StreamPasses
<1> QED BY <1>3, <1>6, <1>7, <1>12 DEF Stream, InOrder

\* What a mirror is based on comes from where it was based before.
LEMMA BasedBefore ==
  ASSUME Types, Types', NEW k, Settling(k), NEW u \in Known(view') \ gone, NEW b, Based(u, b)'
  PROVE  \/ Lands(u) /\ b = view'.mirrors[u].applied
         \/ (Stays(u) \/ Holds(u, k)) /\ Based(u, b)
<1>1. Reads(k)
  BY DEF Settling
<1>2. CASE view'.mirrors[u].primed
  <2>1. b = view'.mirrors[u].applied
    BY <1>2 DEF Based, Promised
  <2>2. ~Anew(u) /\ ~Holds(u, k)
    BY <1>2 DEF Anew, Holds
  <2>3. Stays(u) => Based(u, b)
    BY <1>2, <2>1 DEF Stays, SameCopy, Based
  <2> QED BY <2>1, <2>2, <2>3 DEF Settling
<1>3. CASE ~view'.mirrors[u].primed
  <2>1. PICK i \in 1..(Len(Coming') + 1) : Promised(u, b, i)'
    BY <1>3 DEF Based
  <2>2. ~Lands(u)
    BY <1>3 DEF Lands
  <2>3. ~Anew(u)
    <3>1. PICK r \in waiting' : 
        /\ Restates(r) /\ u \in r.uris
        /\ \/ i \in DOMAIN Coming' /\ InFrame(i, r, u, b)'
           \/ i = Len(Coming') + 1 /\ InJob(r, u, b)'
      BY <2>1 DEF Promised, Restates
    <3>2. r \in waiting
      BY <1>1, <3>1, PromisesOld DEF InFrame, InJob
    <3> QED BY <3>1, <3>2 DEF Anew
  <2>4. Stays(u) \/ Holds(u, k)
    BY <2>2, <2>3 DEF Settling
  <2>5. /\ view'.mirrors[u].primed = view.mirrors[u].primed
        /\ view'.mirrors[u].applied = view.mirrors[u].applied
    <3>1. \/ view.mirrors[u].primed \in BOOLEAN /\ view'.mirrors[u].primed \in BOOLEAN
          \/ Stays(u)
      <4>1. u \in Known(view')
        OBVIOUS
      <4>2. view' \in Plain(Told') /\ view \in Plain(Told)
        BY Parted, PartedNext DEF ClientParts
      <4>3. view'.mirrors[u].primed \in BOOLEAN
        BY <4>1, <4>2, PlainParts
      <4>4. Holds(u, k) => view.mirrors[u].primed \in BOOLEAN
        BY <4>2, PlainParts DEF Holds
      <4> QED BY <2>4, <4>3, <4>4
    <3> QED BY <2>4, <3>1 DEF Stays, Holds, SameCopy
  <2>6. Promised(u, b, i + k) /\ i + k \in 1..(Len(Coming) + 1)
    BY <1>1, <2>1, <2>5, PromisesKept
  <2> QED BY <2>4, <2>6 DEF Based
<1> QED BY <1>2, <1>3

\* ... what the mirrors are restated from on the way, ...
LEMMA SettledBases ==
  ASSUME Types, Types', NEW k, Settling(k), Bases
  PROVE  Bases'
<1>1. Reads(k) /\ Connected /\ UNCHANGED <<log, gone, link, subs, reader, detached>>
  BY DEF Settling, Reads, serverVars, hubVars, linkVars
<1>2. ASSUME NEW u \in Known(view') \ gone, NEW b \in 0..Len(log), Based(u, b)'
      PROVE  Linked(u)'
  <2>1. CASE Lands(u)
    <3>1. PICK a \in 0..Len(log) : Based(u, a)
      BY <2>1 DEF Lands
    <3>2. u \in Known(view) \ gone
      BY <2>1 DEF Lands
    <3>3. Linked(u)
      BY <1>1, <3>1, <3>2 DEF Bases
    <3> QED BY <1>1, <3>3 DEF Linked
  <2>2. CASE (Stays(u) \/ Holds(u, k)) /\ Based(u, b)
    <3>1. u \in Known(view) \ gone
      BY <2>2 DEF Stays, Holds
    <3>2. Linked(u)
      BY <1>1, <2>2, <3>1 DEF Bases
    <3> QED BY <1>1, <3>2 DEF Linked
  <2> QED BY <1>2, <2>1, <2>2, BasedBefore
<1>3. ASSUME NEW u \in Known(view') \ gone, NEW b \in 0..Len(log),
             NEW i \in 1..(Len(Coming') + 1), Promised(u, b, i)'
      PROVE  Joins(u, b, i)'
  <2> DEFINE held == view.mirrors[u].buffered
             holds == view'.mirrors[u].buffered
  <2>1. ~view'.mirrors[u].primed /\ Based(u, b)'
    BY <1>3 DEF Promised, Based
  <2>2. Stays(u) \/ Holds(u, k)
    BY <2>1, BasedBefore DEF Lands
  <2>3. u \in Known(view) \ gone
    BY <2>2 DEF Stays, Holds
  <2>4. /\ view'.mirrors[u].primed = view.mirrors[u].primed
        /\ view'.mirrors[u].applied = view.mirrors[u].applied
    <3>1. view' \in Plain(Told') /\ view \in Plain(Told)
      BY Parted, PartedNext DEF ClientParts
    <3>2. view'.mirrors[u].primed \in BOOLEAN /\ view.mirrors[u].primed \in BOOLEAN
      BY <2>3, <3>1, PlainParts
    <3> QED BY <2>2, <3>2 DEF Stays, Holds, SameCopy
  <2>5. Promised(u, b, i + k) /\ i + k \in 1..(Len(Coming) + 1)
    BY <1>1, <1>3, <2>4, PromisesKept
  <2>6. Joins(u, b, i + k)
    BY <1>1, <2>3, <2>5 DEF Bases
  <2>7. ASSUME NEW j \in DOMAIN Coming', j < i, ~IsPush(Coming'[j]),
               Coming'[j].result.type = "envelope", Coming'[j].result.envelope.uri = u
        PROVE  Coming'[j].result.envelope.seq <= b
    <3>1. j + k \in DOMAIN Coming /\ Coming'[j] = Coming[j + k]
      BY <1>1, FramesKept
    <3>2. j + k < i + k
      BY <1>1, <2>7, FramesKept
    <3> QED BY <2>6, <2>7, <3>1, <3>2 DEF Joins
  <2>8. CASE Stays(u)
    <3>1. holds = held /\ (ready => ready')
      BY <2>8 DEF Stays, SameCopy
    <3>2. /\ b <= Len(log)
          /\ \A j, l \in DOMAIN held : j < l /\ held[l].seq > b => held[j].seq < held[l].seq
          /\ ~ready => \A l \in DOMAIN held : held[l].seq <= b
      BY <2>6 DEF Joins
    <3> QED BY <1>1, <2>7, <3>1, <3>2 DEF Joins
  <2>9. CASE Holds(u, k)
    <3>1. PICK e : e = Coming[1].result.envelope
      OBVIOUS
    <3>2. /\ k = 1 /\ Coming[1].result.type = "envelope" /\ e.uri = u
          /\ holds = Append(held, e) /\ (ready => ready')
      BY <2>9, <3>1 DEF Holds
    <3>3. held \in Seq(Told) /\ Len(held) \in Nat /\ DOMAIN held = 1..Len(held)
      BY <2>3, Parted DEF HadParts
    <3>4. 1 \in DOMAIN Coming /\ 1 < i + k /\ ~IsPush(Coming[1])
      BY <1>1, <2>5, <3>2, FramesKept DEF Settling
    <3>5. e.seq <= b
      BY <2>6, <3>1, <3>2, <3>4 DEF Joins
    <3>6. holds = [l \in 1..(Len(held) + 1) |-> IF l = Len(held) + 1 THEN e ELSE held[l]]
      <4>1. PICK q : q = held
        OBVIOUS
      <4>2. q \in Seq(Told)
        BY <3>3, <4>1
      <4>3. Append(q, e) = [l \in 1..(Len(q) + 1) |-> IF l = Len(q) + 1 THEN e ELSE q[l]]
        BY <4>2, AppendIs
      <4> QED BY <3>2, <4>1, <4>3
    <3>7. /\ b <= Len(log)
          /\ \A j, l \in DOMAIN held : j < l /\ held[l].seq > b => held[j].seq < held[l].seq
          /\ ~ready => \A l \in DOMAIN held : held[l].seq <= b
      BY <2>6 DEF Joins
    <3>8. PICK n : n = Len(held)
      OBVIOUS
    <3>9. DOMAIN holds = 1..(n + 1) /\ n \in Nat
          /\ \A l \in 1..(n + 1) : holds[l] = IF l = n + 1 THEN e ELSE held[l]
      BY <3>3, <3>6, <3>8
    <3>10. e.seq \in Nat /\ b \in Nat
      <4>1. ~IsPush(Coming[1]) /\ Coming[1] \in Answers
        BY <1>1, <3>4, ComingTyped
      <4>2. Coming[1].result \in Results
        BY <4>1, AnswerParts
      <4>3. e \in Told
        BY <3>1, <3>2, <4>2, ResultParts
      <4> QED BY <4>3, ToldTyped, LogTyped DEF Types
    <3>11. \A j, l \in DOMAIN holds : j < l /\ holds[l].seq > b => holds[j].seq < holds[l].seq
      <4> SUFFICES ASSUME NEW j \in 1..(n + 1), NEW l \in 1..(n + 1), j < l, holds[l].seq > b
                   PROVE  holds[j].seq < holds[l].seq
        BY <3>9
      <4>1. l # n + 1
        BY <3>5, <3>9, <3>10
      <4>2. j \in 1..n /\ l \in 1..n
        BY <3>9, <4>1
      <4>3. j \in DOMAIN held /\ l \in DOMAIN held /\ holds[j] = held[j] /\ holds[l] = held[l]
        BY <3>3, <3>8, <3>9, <4>1, <4>2
      <4> QED BY <3>7, <4>3
    <3>12. ~ready => \A l \in DOMAIN holds : holds[l].seq <= b
      <4> SUFFICES ASSUME ~ready, NEW l \in 1..(n + 1) PROVE holds[l].seq <= b
        BY <3>9
      <4>1. CASE l = n + 1
        BY <3>5, <3>9, <4>1
      <4>2. CASE l # n + 1
        <5>1. l \in DOMAIN held /\ holds[l] = held[l]
          BY <3>3, <3>8, <3>9, <4>2
        <5> QED BY <3>7, <5>1
      <4> QED BY <4>1, <4>2
    <3> HIDE DEF holds, held
    <3>13. /\ b <= Len(log) /\ log' = log
           /\ ~ready' => \A l \in DOMAIN holds : holds[l].seq <= b
      BY <1>1, <3>2, <3>7, <3>12
    <3> QED BY <2>7, <3>11, <3>13 DEF Joins, holds
  <2> QED BY <2>2, <2>8, <2>9
<1> QED BY <1>1, <1>2, <1>3 DEF Bases

\* ... and what the client misses.
LEMMA SettledCut ==
  ASSUME Types, Types', NEW k, Settling(k), Bases, Cut
  PROVE  Cut'
<1>1. Reads(k) /\ Connected /\ UNCHANGED <<log, gone, link, subs, job, reader, detached>>
  BY DEF Settling, Reads, serverVars, hubVars, linkVars
<1>2. PICK c \in 0..Len(log) : Reached(c)
  BY <1>1 DEF Cut
<1>3. reader' \notin detached' => c = Len(log')
  BY <1>1, <1>2 DEF Reached
<1>4. \A h \in Had' : h <= c
  <2>1. k = 1 => 1 \in DOMAIN Coming
    BY <1>1, FramesKept
  <2> QED BY <1>2, <2>1 DEF Settling, Reached
<1>5. \A i \in DOMAIN Coming' : \A h \in Bears(Coming'[i]) : h <= c
  BY <1>1, <1>2, FramesKept DEF Reached
<1>6. job'[reader'].stage = "answering" => \A h \in Marks(job'[reader'].result) : h <= c
  BY <1>1, <1>2 DEF Reached
<1>7. ASSUME NEW u \in Known(view') \ gone, NEW b \in 0..Len(log), Based(u, b)',
             NEW e \in Between(u, b, c)
      PROVE  e \in Held(u)'
  <2>0. e \in Told /\ e.seq \in Nat /\ e.uri = u /\ b < e.seq /\ e.seq <= c
    BY ToldTyped DEF Between, Types
  <2>1. u \in Known(view)
    BY <1>7, BasedBefore DEF Lands, Stays, Holds
  <2>2. ASSUME e \in Range(Coming) PROVE e \in Range(Coming')
    <3>1. PICK j \in DOMAIN Coming : Coming[j] = e
      BY <2>2 DEF Range
    <3>2. IsPush(e)
      BY <2>0, ToldTyped DEF IsPush, Types
    <3>3. j - k \in DOMAIN Coming' /\ Coming'[j - k] = e
      BY <1>1, <3>1, <3>2, PushesKept DEF Settling
    <3> QED BY <3>3 DEF Range
  <2>3. CASE Lands(u) /\ b = view'.mirrors[u].applied
    <3>1. PICK a \in 0..Len(log) : Based(u, a) /\ Between(u, b, a) = {}
      BY <2>3 DEF Lands
    <3>2. a < e.seq
      BY <2>0, <3>1 DEF Between
    <3>3. e \in Between(u, a, c)
      BY <2>0, <3>2 DEF Between
    <3>4. e \in Held(u)
      BY <1>2, <2>1, <3>1, <3>3 DEF Reached
    <3>5. e \notin Range(view.mirrors[u].buffered) /\ e \notin Range(early)
      BY <2>0, <2>3 DEF Lands, Range
    <3> QED BY <2>2, <3>4, <3>5 DEF Held
  <2>4. CASE Based(u, b) /\ (Stays(u) \/ Holds(u, k))
    <3>1. e \in Held(u)
      BY <1>2, <2>1, <2>4 DEF Reached
    <3>2. early' = early
      BY <2>4 DEF Stays, Holds
    <3>3. ASSUME e \in Range(view.mirrors[u].buffered)
          PROVE  e \in Range(view'.mirrors[u].buffered)
      <4>1. CASE Stays(u)
        BY <3>3, <4>1 DEF Stays, SameCopy
      <4>2. CASE Holds(u, k)
        <5>1. PICK f : view'.mirrors[u].buffered = Append(view.mirrors[u].buffered, f)
          BY <4>2 DEF Holds
        <5>2. PICK held \in Seq(Told) : held = view.mirrors[u].buffered
          BY <2>1, Parted DEF HadParts
        <5>3. Append(held, f) = [l \in 1..(Len(held) + 1) |-> IF l = Len(held) + 1 THEN f ELSE held[l]]
          BY AppendIs
        <5>4. PICK l \in DOMAIN held : held[l] = e
          BY <3>3, <5>2 DEF Range
        <5>5. l \in 1..(Len(held) + 1) /\ l # Len(held) + 1
          OBVIOUS
        <5>6. Append(held, f)[l] = e /\ l \in DOMAIN Append(held, f)
          BY <5>3, <5>4, <5>5
        <5> QED BY <5>1, <5>2, <5>6 DEF Range
      <4> QED BY <2>4, <4>1, <4>2
    <3> QED BY <2>2, <3>1, <3>2, <3>3 DEF Held
  <2> QED BY <1>7, <2>3, <2>4, BasedBefore
<1>8. Reached(c)'
  <2>1. \A u, b : Between(u, b, c)' = Between(u, b, c)
    BY <1>1 DEF Between, Told
  <2>2. \A u \in Known(view') \ gone' : \A b \in 0..Len(log') :
          Based(u, b)' => Between(u, b, c)' \subseteq Held(u)'
    BY <1>1, <1>7, <2>1
  <2> QED BY <1>3, <1>4, <1>5, <1>6, <2>2 DEF Reached
<1> QED BY <1>1, <1>8 DEF Cut

-----------------------------------------------------------------------------
(* What has been seen has been applied. *)

\* While the link is up: nothing is left of a gap but what is still on its way.
LEMMA ReadyGapless ==
  ASSUME Types, MirrorsKept, ClientOrder, CopiesTrue, Stream, Cut, ready
  PROVE  Gapless
<1>1. Connected /\ early = << >>
  BY DEF ClientOrder
<1>2. PICK c \in 0..Len(log) : Reached(c)
  BY <1>1 DEF Cut
<1>3. view.seen \in Had /\ view.seen <= c /\ view.seen \in Nat /\ Len(log) \in Nat
  BY <1>2, HadTyped, LogTyped DEF Reached, Types
<1>4. ASSUME NEW u \in subscribed \ gone, NEW e \in Between(u, view.mirrors[u].applied, view.seen)
      PROVE  FALSE
  <2>1. u \in Known(view) \ gone
    BY DEF MirrorsKept
  <2>2. view.mirrors[u].primed
    BY <2>1 DEF ClientOrder
  <2>3. PICK a : a = view.mirrors[u].applied
    OBVIOUS
  <2>4. Copied(view.mirrors[u], u)
    BY <2>1 DEF CopiesTrue
  <2>5. a \in 0..Len(log)
    <3>1. view \in Plain(Told)
      BY ClientNow
    <3>2. a \in Nat
      BY <2>1, <2>3, <3>1, PlainParts
    <3> QED BY <1>3, <2>3, <2>4, <3>2 DEF Copied
  <2>6. Based(u, a)
    BY <2>2, <2>3 DEF Based
  <2>7. e \in Told /\ e.seq \in Nat /\ e.seq <= view.seen /\ a < e.seq /\ e.uri = u
    BY <2>3, ToldTyped DEF Between, Types
  <2>8. e \in Between(u, a, c)
    BY <1>3, <2>7 DEF Between
  <2>9. e \in Held(u)
    BY <1>2, <2>1, <2>5, <2>6, <2>8 DEF Reached
  <2>10. view.mirrors[u].buffered = << >>
    BY <2>1, <2>2 DEF ClientOrder
  <2>11. e \in Range(Coming)
    BY <1>1, <2>9, <2>10 DEF Held, Range
  <2>12. PICK j \in DOMAIN Coming : Coming[j] = e
    BY <2>11 DEF Range
  <2>13. IsPush(e)
    BY <2>7, ToldTyped DEF IsPush, Types
  <2>14. view.seen < e.seq
    BY <1>1, <1>3, <2>12, <2>13 DEF Stream, InOrder
  <2> QED BY <1>3, <2>7, <2>14
<1> QED BY <1>3, <1>4 DEF Gapless

\* The same as an implication ...
LEMMA ReadyGaplessThen ==
  Types /\ MirrorsKept /\ ClientOrder /\ CopiesTrue /\ Stream /\ Cut /\ ready => Gapless
BY ReadyGapless

\* ... of the state after a step.
LEMMA ReadyGaplessNext ==
  (Types /\ MirrorsKept /\ ClientOrder /\ CopiesTrue /\ Stream /\ Cut /\ ready)' => Gapless'
BY ReadyGaplessThen, PTL

\* While it is not: nothing is seen, and nothing taken back.
LEMMA GaplessStays ==
  ASSUME Gapless, UNCHANGED <<log, gone>>, view'.seen = view.seen,
         subscribed' \subseteq subscribed,
         \A u \in subscribed' \ gone : view'.mirrors[u].applied = view.mirrors[u].applied
  PROVE  Gapless'
<1>1. \A u, a, b : Between(u, a, b)' = Between(u, a, b)
  BY DEF Between, Told
<1>2. ASSUME NEW u \in subscribed' \ gone'
      PROVE  Between(u, view.mirrors[u].applied, view.seen)' = {}
  <2>1. Between(u, view.mirrors[u].applied, view.seen) = {}
    BY DEF Gapless
  <2>2. view'.mirrors[u].applied = view.mirrors[u].applied
    OBVIOUS
  <2> QED BY <2>1, <2>2 DEF Between, Told
<1> QED BY <1>2 DEF Gapless

\* What is saved is a copy that is true, and behind in nothing that was seen.
LEMMA CheckpointKept ==
  ASSUME Types, CopiesTrue, Gapless, NEW seq
  PROVE  Kept(Checkpoint(view, subscribed, seq))
<1> DEFINE c == Checkpoint(view, subscribed, seq)
<1>1. /\ c.seen = view.seen /\ DOMAIN c.channels = subscribed \cap Known(view)
      /\ \A u \in subscribed \cap Known(view) :
           /\ c.channels[u].confirmed = view.mirrors[u].confirmed
           /\ c.channels[u].applied = view.mirrors[u].applied
  BY DEF Checkpoint
<1> HIDE DEF c
<1>2. \A u \in Known(view) \ gone : Copied(view.mirrors[u], u)
  BY DEF CopiesTrue
<1>3. ASSUME NEW u \in DOMAIN c.channels \ gone
      PROVE  /\ c.channels[u].confirmed = StateAt(log, u, c.channels[u].applied)
             /\ c.channels[u].applied <= Len(log)
             /\ Between(u, c.channels[u].applied, c.seen) = {}
  <2>1. u \in Known(view) \ gone /\ u \in subscribed \ gone
    BY <1>1
  <2>2. Between(u, view.mirrors[u].applied, view.seen) = {}
    BY <2>1 DEF Gapless
  <2> QED BY <1>1, <1>2, <2>1, <2>2 DEF Copied
<1>4. c.seen <= Len(log)
  BY <1>1 DEF Gapless
<1> QED BY <1>3, <1>4 DEF Kept, c

\* The same as an implication ...
LEMMA CheckpointKeptThen ==
  Types /\ CopiesTrue /\ Gapless => Kept(Checkpoint(view, subscribed, nextSeq))
BY CheckpointKept

\* ... of the state after a step.
LEMMA CheckpointKeptNext ==
  (Types /\ CopiesTrue /\ Gapless)' => Kept(Checkpoint(view, subscribed, nextSeq))'
BY CheckpointKeptThen, PTL

\* Checkpoints that are kept stay so as the client goes on.
LEMMA KeptOn ==
  ASSUME UNCHANGED <<log, gone>>, NEW c, Kept(c)
  PROVE  Kept(c)'
<1>1. \A u, a, b : Between(u, a, b)' = Between(u, a, b)
  BY DEF Between, Told
<1> QED BY <1>1 DEF Kept

\* Saves that are queued or end keep the checkpoints what they should be.
LEMMA SavesKept ==
  ASSUME Types, Types', AllKept, UNCHANGED <<log, gone>>,
         stored' = stored \/ (saves # << >> /\ stored' = Head(saves)),
         CopiesTrue', Gapless',
         \/ saves' = << >> \/ saves' = saves
         \/ saves # << >> /\ saves' = Tail(saves)
         \/ \E q : (q = saves \/ q = << >>)
              /\ saves' = Append(q, Checkpoint(view, subscribed, nextSeq)')
  PROVE  AllKept'
<1>1. saves \in Seq(Checkpoints)
  BY DEF Types, ClientTypes
<1>2. \A k \in DOMAIN saves : Kept(saves[k])
  BY DEF AllKept
<1>3. PICK c : c = Checkpoint(view, subscribed, nextSeq)'
  OBVIOUS
<1>4. Kept(c)'
  BY <1>3, CheckpointKeptNext DEF Kept
<1>5. ASSUME stored' # None PROVE Kept(stored)'
  <2>1. CASE stored' = stored
    <3>1. PICK d : d = stored
      OBVIOUS
    <3>2. Kept(d)'
      BY <1>5, <2>1, <3>1, KeptOn DEF AllKept
    <3> QED BY <2>1, <3>1, <3>2 DEF Kept
  <2>2. CASE saves # << >> /\ stored' = Head(saves)
    <3>1. 1 \in DOMAIN saves /\ Head(saves) = saves[1]
      BY <1>1, <2>2
    <3>2. PICK d : d = saves[1]
      OBVIOUS
    <3>3. Kept(d)'
      BY <1>2, <3>1, <3>2, KeptOn
    <3> QED BY <2>2, <3>1, <3>2, <3>3 DEF Kept
  <2> QED BY <2>1, <2>2
<1>6. ASSUME NEW k \in DOMAIN saves' PROVE Kept(saves[k])'
  <2>1. PICK d : d = saves'[k]
    OBVIOUS
  <2>2. d = c \/ \E l \in DOMAIN saves : d = saves[l]
    <3>1. CASE saves' = << >> \/ saves' = saves
      BY <1>6, <2>1, <3>1
    <3>2. CASE saves # << >> /\ saves' = Tail(saves)
      <4>1. Shifted(saves, Tail(saves), 1)
        BY <1>1, <3>2, ShiftedTail
      <4> QED BY <1>6, <2>1, <3>2, <4>1 DEF Shifted
    <3>3. ASSUME NEW q \in Seq(Checkpoints), q = saves \/ q = << >>, saves' = Append(q, c)
          PROVE  d = c \/ \E l \in DOMAIN saves : d = saves[l]
      <4>1. Append(q, c) = [l \in 1..(Len(q) + 1) |-> IF l = Len(q) + 1 THEN c ELSE q[l]]
        BY AppendIs
      <4>2. Len(q) \in Nat /\ DOMAIN q = 1..Len(q)
        OBVIOUS
      <4>3. k = Len(q) + 1 \/ k \in DOMAIN q
        BY <1>6, <3>3, <4>1, <4>2
      <4> QED BY <1>6, <2>1, <3>3, <4>1, <4>2, <4>3
    <3>4. << >> \in Seq(Checkpoints)
      OBVIOUS
    <3> QED BY <1>1, <1>3, <3>1, <3>2, <3>3, <3>4
  <2>3. Kept(d)'
    <3>1. CASE d = c
      BY <1>4, <3>1 DEF Kept
    <3>2. CASE \E l \in DOMAIN saves : d = saves[l]
      BY <1>2, <3>2, KeptOn
    <3> QED BY <2>2, <3>1, <3>2
  <2> QED BY <2>1, <2>3 DEF Kept
<1> QED BY <1>5, <1>6 DEF AllKept

-----------------------------------------------------------------------------
(* What the client's turns tell the hub. *)

\* A request that the hub has yet to read, or is busy with, was issued before.
LEMMA IssuedBefore ==
  ASSUME Types, Types', HubOrder, Connected, NEW r \in waiting', r \in waiting \/ r.id >= nextId,
         Restates(r)
  PROVE  /\ Handling(r) => r \in waiting
         /\ \A k \in DOMAIN up[reader] : up[reader][k] = r => r \in waiting
<1>1. r \in Requests /\ r.id \in Nat /\ nextId \in Nat
  BY Parted, PartedNext DEF ClientParts, Requests
<1>2. reader \in Sockets /\ up[reader] \in Seq(UpFrames)
  BY ReaderIs
<1>3. ASSUME Handling(r) PROVE r \in waiting
  <2>1. job[reader].request \in Issued
    BY <1>2, <1>3 DEF Types, HubTypes, Jobs, Handling
  <2> QED BY <1>1, <1>3, <2>1 DEF Handling, Issued
<1>4. ASSUME NEW k \in DOMAIN up[reader], up[reader][k] = r PROVE r \in waiting
  <2>1. r \in UpFrames
    BY <1>2, <1>4
  <2>2. r.method # "unsubscribe"
    BY <1>1, RequestMethods
  <2> QED BY <1>1, <2>1, <2>2 DEF UpFrames, Issued
<1> QED BY <1>3, <1>4

\* What the client says after a claim on a channel upsets no other claim.
LEMMA UprightSpeaks ==
  ASSUME Types, Types', HubOrder, Upright, NEW k, Reads(k), NEW A, Speaks(A),
         \A u \in Known(view') : view'.mirrors[u].primed => Claimed(u),
         \A f \in A, u \in Uris : Upsets(f, u) =>
           ~Claimed(u)' /\ \A r \in waiting \cap waiting' : Restates(r) => u \notin r.uris,
         \A r \in waiting' : Restates(r) =>
           \/ r \in waiting \/ up'[reader] = up[reader]
           \/ up'[reader] = Append(up[reader], r)
  PROVE  Upright'
<1>1. /\ Connected /\ UNCHANGED <<job, reader>> /\ Connected'
      /\ \A r \in waiting' : r \in waiting \/ r.id >= nextId
  BY FramesKept DEF Reads, serverVars
<1>2. PICK q \in Seq(UpFrames) : q = up[reader]
  BY <1>1, ReaderIs
<1>3. PICK p : p = up'[reader']
  OBVIOUS
<1>4. /\ Len(q) \in Nat /\ Len(p) \in Nat /\ DOMAIN q = 1..Len(q) /\ DOMAIN p = 1..Len(p)
      /\ Len(q) <= Len(p) /\ \A j \in 1..Len(q) : p[j] = q[j]
      /\ \A j \in 1..Len(p) : j > Len(q) => p[j] \in A
  BY <1>1, <1>2, <1>3 DEF Speaks, More
<1>5. ASSUME NEW u \in Uris, Claimed(u)' PROVE Claimed(u)
  <2>1. CASE u \in Known(view') /\ view'.mirrors[u].primed
    BY <2>1
  <2>2. ASSUME NEW r \in waiting', Restates(r), u \in r.uris, NEW i \in DOMAIN Coming',
               AnswerTo(Coming'[i], r)
        PROVE  Claimed(u)
    <3>1. i \in 1..(Len(Coming') + 1) /\ i + k \in DOMAIN Coming /\ Coming[i + k] = Coming'[i]
      BY FramesKept
    <3>2. r \in waiting
      BY <2>2, <3>1, PromisesOld
    <3> QED BY <2>2, <3>1, <3>2 DEF Claimed
  <2>3. \/ u \in Known(view') /\ view'.mirrors[u].primed
        \/ \E r \in waiting' : /\ Restates(r) /\ u \in r.uris
                               /\ \E i \in DOMAIN Coming' : AnswerTo(Coming'[i], r)
    BY <1>5 DEF Claimed, Restates, AnswerTo
  <2> QED BY <2>1, <2>2, <2>3
<1>6. ASSUME NEW u \in Uris, Claimed(u)' PROVE Undisturbed(u)' /\ ~Shaking'
  <2>1. Undisturbed(u) /\ ~Shaking
    BY <1>1, <1>5, <1>6 DEF Upright
  <2>2. \A j \in DOMAIN p : ~Upsets(p[j], u)
    BY <1>2, <1>4, <1>6, <2>1 DEF Undisturbed
  <2> QED BY <1>1, <1>3, <2>1, <2>2 DEF Undisturbed, Shaking, Upsets
<1>7. ASSUME NEW u \in Uris, NEW r \in waiting', Restates(r), u \in r.uris
      PROVE  /\ Handling(r)' => Undisturbed(u)'
             /\ \A l, j \in DOMAIN p : l < j /\ p[l] = r => ~Upsets(p[j], u)
  <2>1. CASE r \in waiting
    <3>1. \A f \in A : ~Upsets(f, u)
      BY <1>7, <2>1
    <3>2. Handling(r) => Undisturbed(u)
      BY <1>1, <1>7, <2>1 DEF Upright
    <3>3. \A l, j \in DOMAIN q : l < j /\ q[l] = r => ~Upsets(q[j], u)
      BY <1>1, <1>2, <1>7, <2>1 DEF Upright
    <3>4. ASSUME Handling(r)' PROVE Undisturbed(u)'
      <4>1. \A j \in DOMAIN q : ~Upsets(q[j], u)
        BY <1>1, <1>2, <3>2, <3>4 DEF Handling, Undisturbed
      <4>2. \A j \in DOMAIN p : ~Upsets(p[j], u)
        BY <1>4, <3>1, <4>1
      <4> QED BY <1>3, <4>2 DEF Undisturbed, Upsets
    <3>5. ASSUME NEW l \in DOMAIN p, NEW j \in DOMAIN p, l < j, p[l] = r PROVE ~Upsets(p[j], u)
      <4>1. CASE j > Len(q)
        BY <1>4, <3>1, <4>1
      <4>2. CASE j <= Len(q)
        <5>1. j \in DOMAIN q /\ l \in DOMAIN q /\ p[j] = q[j] /\ p[l] = q[l]
          BY <1>4, <3>5, <4>2
        <5> QED BY <3>3, <3>5, <5>1
      <4> QED BY <1>4, <4>1, <4>2
    <3> QED BY <3>4, <3>5
  <2>2. CASE r \notin waiting
    <3>1. ~Handling(r) /\ \A l \in DOMAIN q : q[l] # r
      BY <1>1, <1>2, <1>7, <2>2, IssuedBefore
    <3>2. ~Handling(r)'
      BY <1>1, <3>1 DEF Handling
    <3>3. p = q \/ p = Append(q, r)
      BY <1>1, <1>2, <1>3, <1>7, <2>2
    <3>4. Append(q, r) = [l \in 1..(Len(q) + 1) |-> IF l = Len(q) + 1 THEN r ELSE q[l]]
      BY AppendIs
    <3>5. ASSUME NEW l \in DOMAIN p, NEW j \in DOMAIN p, l < j, p[l] = r PROVE FALSE
      <4>1. p = Append(q, r)
        BY <3>1, <3>3, <3>5
      <4>2. l \in 1..(Len(q) + 1) /\ j \in 1..(Len(q) + 1)
        BY <3>4, <3>5, <4>1
      <4>3. l # Len(q) + 1
        BY <1>4, <3>5, <4>2
      <4>4. l \in DOMAIN q /\ p[l] = q[l]
        BY <1>4, <3>4, <4>1, <4>2, <4>3
      <4> QED BY <3>1, <3>5, <4>4
    <3> QED BY <3>2, <3>5
  <2> QED BY <2>1, <2>2
<1>8. \A u \in Uris : \A r \in waiting' : Restates(r) /\ u \in r.uris =>
        /\ Handling(r)' => Undisturbed(u)'
        /\ \A l, j \in DOMAIN up'[reader'] :
             l < j /\ up'[reader'][l] = r => ~Upsets(up'[reader'][j], u)
  BY <1>3, <1>7
<1> QED BY <1>6, <1>8 DEF Upright, Restates, Upsets

-----------------------------------------------------------------------------
(* All that the mirrors are kept by. *)

MirrorOrder ==
  /\ Upright /\ CopiesTrue /\ Gapless /\ AllKept
  /\ Stream /\ Bases /\ Cut

\* What a turn of the client saves.
Saving ==
  /\ stored' = stored \/ (saves # << >> /\ stored' = Head(saves))
  /\ \/ saves' = << >> \/ saves' = saves
     \/ saves # << >> /\ saves' = Tail(saves)
     \/ \E q : /\ q = saves \/ q = << >>
               /\ saves' = Append(q, Checkpoint(view, subscribed, nextSeq)')

\* #persist queues a checkpoint of what is, or nothing.
LEMMA PersistSaves ==
  ASSUME NEW must, Persist(must), stored' = stored
  PROVE  Saving
BY DEF Persist, Saving, Checkpoint

\* A turn with no gap in it.
SeesNoMore ==
  /\ view'.seen = view.seen /\ subscribed' \subseteq subscribed
  /\ \A u \in subscribed' \ gone : view'.mirrors[u].applied = view.mirrors[u].applied

\* A turn that settles the copies keeps all that they are kept by.
LEMMA Settled ==
  ASSUME Types, Types', MirrorsKept', ClientOrder', MirrorOrder, NEW k, Settling(k), Saving,
         Upright', ready' \/ SeesNoMore
  PROVE  MirrorOrder'
<1>1. UNCHANGED <<log, gone>>
  BY DEF Settling, Reads, serverVars, hubVars
<1>2. CopiesTrue' /\ Stream' /\ Bases' /\ Cut'
  BY SettledCopies, SettledStream, SettledBases, SettledCut DEF MirrorOrder
<1>3. Gapless'
  <2>1. CASE ready'
    BY <1>2, <2>1, ReadyGaplessNext
  <2>2. CASE SeesNoMore
    BY <1>1, <2>2, GaplessStays DEF MirrorOrder, SeesNoMore
  <2> QED BY <2>1, <2>2
<1>4. AllKept'
  BY <1>1, <1>2, <1>3, SavesKept DEF MirrorOrder, Saving
<1> QED BY <1>2, <1>3, <1>4 DEF MirrorOrder

\* A turn that leaves the client without a link.
LEMMA LeftAlone ==
  ASSUME Types, Types', AllKept, ~Connected', UNCHANGED <<log, gone>>, Saving,
         CopiesTrue', Gapless'
  PROVE  MirrorOrder'
<1>1. AllKept'
  BY SavesKept DEF Saving
<1>2. Upright' /\ Stream' /\ Bases' /\ Cut'
  BY DEF Upright, Stream, Bases, Cut
<1> QED BY <1>1, <1>2 DEF MirrorOrder

-----------------------------------------------------------------------------
(* Turns that leave the copies alone. *)

\* The stream is read by one frame that is no broadcast, or not at all.
Skips == \E k \in {0, 1} : Shifted(Coming, Coming', k) /\ (k = 1 => ~IsPush(Coming[1]))

\* Nothing waits that did not wait before.
LEMMA HadNoMore ==
  ASSUME Known(view') \subseteq Known(view), view'.seen = view.seen,
         \A u \in Known(view') : view'.mirrors[u].buffered = view.mirrors[u].buffered,
         early' = early \/ early' = << >>
  PROVE  Had' \subseteq Had
<1>1. {early'[k].seq : k \in DOMAIN early'} \subseteq {early[k].seq : k \in DOMAIN early}
  OBVIOUS
<1>2. \A u \in Known(view') : Waits(view', u) = Waits(view, u)
  BY DEF Waits
<1> QED BY <1>1, <1>2 DEF Had

\* Turns on a link that goes on ...
LEMMA TurnReads ==
  ASSUME Connected, Skips, UNCHANGED <<serverVars, detached, reader>>,
         \A r \in waiting' : r \in waiting \/ r.id >= nextId
  PROVE  \E k \in {0, 1} : Reads(k) /\ (k = 1 => ~IsPush(Coming[1]))
BY DEF Skips, Reads

\* ... and mirrors that stay, but for some that are taken away.
LEMMA FewerTurn ==
  ASSUME Types, Types', MirrorsKept', ClientOrder', MirrorOrder,
         UNCHANGED <<serverVars, detached, reader, ready, early>>, subscribed' \subseteq subscribed,
         NEW us, Fewer(view, view', us), Saving,
         Connected => Skips /\ Upright',
         \A r \in waiting' : r \in waiting \/ r.id >= nextId
  PROVE  MirrorOrder'
<1>1. /\ Known(view') \subseteq Known(view) /\ view'.seen = view.seen
      /\ \A u \in Known(view') : SameCopy(view.mirrors[u], view'.mirrors[u])
  BY DEF Fewer
<1>2. SeesNoMore
  <2>1. subscribed' \subseteq Known(view')
    BY DEF MirrorsKept
  <2> QED BY <1>1, <2>1 DEF SeesNoMore, SameCopy
<1>3. CASE Connected
  <2>1. PICK k \in {0, 1} : Reads(k) /\ (k = 1 => ~IsPush(Coming[1]))
    BY <1>3, TurnReads
  <2>2. \A u \in Known(view') \ gone : Stays(u)
    BY <1>1 DEF Stays
  <2>3. Had' \subseteq Had
    BY <1>1, HadNoMore DEF SameCopy
  <2>4. Settling(k)
    BY <2>1, <2>2, <2>3 DEF Settling
  <2> QED BY <1>2, <1>3, <2>4, Settled
<1>4. CASE ~Connected
  <2>1. ~Connected' /\ UNCHANGED <<log, gone>>
    BY <1>4 DEF Connected, serverVars, hubVars
  <2>2. Gapless'
    BY <1>2, <2>1, GaplessStays DEF MirrorOrder, SeesNoMore
  <2>3. CopiesTrue'
    <3>1. \A u \in Known(view') \ gone : Copied(view.mirrors[u], u)
      BY <1>1 DEF MirrorOrder, CopiesTrue
    <3>2. \A u \in Known(view') \ gone : Copied(view'.mirrors[u], u)
      BY <1>1, <3>1 DEF SameCopy, Copied
    <3> QED BY <2>1, <3>2 DEF CopiesTrue, Copied
  <2> QED BY <2>1, <2>2, <2>3, LeftAlone DEF MirrorOrder
<1> QED BY <1>3, <1>4

\* Turns that ask for no channel anew, and give up only what they say.
LEMMA UprightFewer ==
  ASSUME Types, Types', HubOrder, Upright, Connected, Skips,
         UNCHANGED <<serverVars, detached, reader>>,
         NEW us, Fewer(view, view', us),
         \A r \in waiting' : r \in waiting \/ r.id >= nextId,
         \A r \in waiting' : Restates(r) => r \in waiting,
         NEW A, Speaks(A),
         \A f \in A, u \in Uris : Upsets(f, u) =>
           u \notin Known(view') /\ \A r \in waiting' : Restates(r) => u \notin r.uris
  PROVE  Upright'
<1>1. PICK k \in {0, 1} : Reads(k) /\ (k = 1 => ~IsPush(Coming[1]))
  BY TurnReads
<1>2. \A u \in Known(view') : view'.mirrors[u].primed => Claimed(u)
  BY DEF Fewer, SameCopy, Claimed
<1>3. \A f \in A, u \in Uris : Upsets(f, u) =>
        ~Claimed(u)' /\ \A r \in waiting \cap waiting' : Restates(r) => u \notin r.uris
  BY DEF Claimed, Restates
<1> QED BY <1>1, <1>2, <1>3, UprightSpeaks

\* Turns that change no more than what is pending, and send no more than dispatches.
LEMMA SameTurn ==
  ASSUME Types, Types', MirrorsKept', HubOrder, ClientOrder, MirrorOrder,
         UNCHANGED <<serverVars, detached, reader, ready, early, initialized, subscribed>>,
         Same(view, view'), Saving, Connected => Skips, Connected \/ waiting' = {},
         \A r \in waiting' : r \in waiting \/ (r.id >= nextId /\ ~Restates(r)),
         \A r \in waiting : Restates(r) => r \in waiting',
         NEW A, Connected => Speaks(A), \A f \in A, u \in Uris : ~Upsets(f, u)
  PROVE  ClientOrder' /\ MirrorOrder'
<1>1. \A r \in waiting' : Restates(r) => r \in waiting
  OBVIOUS
<1>2. ClientOrder'
  BY <1>1, SameCallsStay
<1>3. Fewer(view, view', {})
  BY SameIsFewer
<1>4. Connected => Upright'
  BY <1>1, <1>3, UprightFewer DEF MirrorOrder
<1> QED BY <1>2, <1>3, <1>4, FewerTurn

\* A turn of the client, while all that is to be kept has been.
ClientTurn ==
  /\ Types /\ Types' /\ MirrorsKept /\ MirrorsKept' /\ HubOrder /\ ClientOrder /\ MirrorOrder
  /\ UNCHANGED serverVars

\* Nothing was read.
LEMMA SkipsNone ==
  ASSUME Types, Connected, UNCHANGED <<down, reader>>
  PROVE  Skips
<1>1. PICK D \in Seq(DownFrames) : D = Coming
  BY ComingTyped
<1>2. Shifted(D, D, 0)
  BY <1>1, ShiftedNot
<1>3. Coming' = Coming
  BY DEF Coming
<1>4. Shifted(Coming, Coming', 0)
  BY <1>1, <1>2, <1>3
<1> QED BY <1>4 DEF Skips

\* An answer was read.
LEMMA SkipsAnswer ==
  ASSUME Types, HubOrder, Incoming("answer"), UNCHANGED <<reader, current>>
  PROVE  Skips /\ Connected /\ ~IsPush(Coming[1]) /\ 1 \in DOMAIN Coming
         /\ Shifted(Coming, Coming', 1) /\ Head(down[reader]) = Coming[1]
BY IncomingStays DEF Skips, IsPush

\* A view is the same copies as itself.
LEMMA SameItself ==
  ASSUME NEW v
  PROVE  Same(v, v)
BY DEF Same, SameCopy

\* A dispatch adds to what is pending alone.
LEMMA DispatchSame ==
  ASSUME Types, NEW u, Dispatch(u)
  PROVE  Same(view, view')
<1> DEFINE v == [view EXCEPT !.outcome[nextSeq] = "open"]
<1>1. view \in Plain(Told) /\ nextSeq \in Numbers
  BY Parted DEF ClientParts, Dispatch, Types, ClientTypes, Numbers
<1>2. /\ view = [mirrors |-> view.mirrors, seen |-> view.seen, outcome |-> view.outcome]
      /\ view.outcome \in [Numbers -> Outcome]
  BY <1>1, PlainParts
<1>3. /\ v.mirrors = view.mirrors /\ v.seen = view.seen /\ Known(v) = Known(view)
      /\ v = [mirrors |-> v.mirrors, seen |-> v.seen, outcome |-> v.outcome]
  <2>1. v = [mirrors |-> view.mirrors, seen |-> view.seen,
             outcome |-> [view.outcome EXCEPT ![nextSeq] = "open"]]
    BY <1>2
  <2> QED BY <2>1 DEF Known
<1>4. Same(view, v)
  BY <1>3 DEF Same, SameCopy
<1>5. view' = IF u \in Known(v)
              THEN Restate([v EXCEPT !.mirrors[u].pending = Append(@, nextSeq)], u) ELSE v
  BY DEF Dispatch
<1> HIDE DEF v
<1>6. CASE u \notin Known(v)
  BY <1>4, <1>5, <1>6
<1>7. CASE u \in Known(v)
  <2> DEFINE m == [v.mirrors[u] EXCEPT !.pending = Append(@, nextSeq)]
             w == With(v, u, m)
  <2>1. v.mirrors \in [Known(v) -> Mirrors(Told)] /\ v.mirrors[u] \in Mirrors(Told)
    BY <1>1, <1>3, <1>7, PlainParts
  <2>2. SameCopy(v.mirrors[u], m) /\ m \in Mirrors(Told)
    <3>1. Append(v.mirrors[u].pending, nextSeq) \in Seq(Numbers)
      BY <1>1, <2>1, AppendTyped DEF Mirrors
    <3> QED BY <2>1, <3>1 DEF Mirrors, SameCopy
  <2>3. [v EXCEPT !.mirrors[u].pending = Append(@, nextSeq)] = w
    BY DEF With
  <2>4. Restate(w, u) = With(w, u, Restated(w.mirrors[u]))
    BY DEF Restate, With
  <2>5. /\ Known(w) = Known(v) /\ w.seen = v.seen /\ w.mirrors[u] = m
        /\ \A t \in Known(v) \ {u} : w.mirrors[t] = v.mirrors[t]
        /\ w.mirrors \in [Known(v) -> Mirrors(Told)]
        /\ w = [mirrors |-> w.mirrors, seen |-> w.seen, outcome |-> w.outcome]
    <3>1. PICK y : y = m
      OBVIOUS
    <3>2. w = [v EXCEPT !.mirrors[u] = y] /\ y \in Mirrors(Told)
      BY <2>2, <3>1 DEF With
    <3> HIDE DEF w, m
    <3>3. v.mirrors \in [Known(v) -> Mirrors(Told)] /\ DOMAIN v.mirrors = Known(v)
      BY <2>1 DEF Known
    <3>4. w = [mirrors |-> [v.mirrors EXCEPT ![u] = y], seen |-> v.seen, outcome |-> v.outcome]
      BY <1>3, <3>2
    <3>5. PICK f : f = [v.mirrors EXCEPT ![u] = y]
      OBVIOUS
    <3>6. f \in [Known(v) -> Mirrors(Told)] /\ f[u] = y /\ \A t \in Known(v) \ {u} : f[t] = v.mirrors[t]
      BY <1>7, <3>2, <3>3, <3>5
    <3>7. w.mirrors = f /\ w.seen = v.seen
          /\ w = [mirrors |-> w.mirrors, seen |-> w.seen, outcome |-> w.outcome]
      BY <3>4, <3>5
    <3> QED BY <3>1, <3>6, <3>7 DEF Known
  <2> HIDE DEF w
  <2>6. PICK x : x = Restate(w, u)
    OBVIOUS
  <2>7. SameCopy(m, Restated(m))
    BY <2>2 DEF Restated, SameCopy, Mirrors
  <2>8. /\ Known(x) = Known(w) /\ x.seen = w.seen /\ x.mirrors[u] = Restated(m)
        /\ \A t \in Known(w) \ {u} : x.mirrors[t] = w.mirrors[t]
    <3>1. PICK y : y = Restated(m)
      OBVIOUS
    <3>2. x = With(w, u, y) /\ u \in Known(w)
      BY <1>7, <2>4, <2>5, <2>6, <3>1
    <3>3. x.mirrors = [w.mirrors EXCEPT ![u] = y] /\ x.seen = w.seen
      BY <2>5, <3>2 DEF With
    <3>4. DOMAIN w.mirrors = Known(w)
      BY DEF Known
    <3>5. /\ DOMAIN x.mirrors = Known(w) /\ x.mirrors[u] = y
          /\ \A t \in Known(w) \ {u} : x.mirrors[t] = w.mirrors[t]
      BY <3>2, <3>3, <3>4
    <3> QED BY <3>1, <3>3, <3>5 DEF Known
  <2>9. Same(v, x)
    BY <2>2, <2>5, <2>7, <2>8 DEF Same, SameCopy
  <2>10. view' = x
    BY <1>5, <1>7, <2>3, <2>6
  <2> QED BY <1>4, <2>9, <2>10, SameTransitive
<1> QED BY <1>6, <1>7

\* A dispatch keeps what is to be kept, ...
LEMMA DispatchKeeps ==
  ASSUME ClientTurn, NEW u, Dispatch(u)
  PROVE  ClientOrder' /\ MirrorOrder'
<1>1. PICK r : r = DispatchRequest(nextId, u, nextSeq)
  OBVIOUS
<1>2. r.id = nextId /\ r.method = "dispatch" /\ ~Restates(r) /\ \A t \in Uris : ~Upsets(r, t)
  BY <1>1 DEF DispatchRequest, Restates, Upsets
<1>3. Types /\ Types' /\ MirrorsKept' /\ HubOrder /\ ClientOrder /\ MirrorOrder
  BY DEF ClientTurn
<1>4. /\ UNCHANGED <<serverVars, detached, reader, ready, early, initialized, subscribed, down,
                     stored>>
      /\ ready /\ Persist(TRUE)
  BY DEF ClientTurn, Dispatch, linkState, shakeState
<1>5. Connected
  BY <1>3, <1>4 DEF ClientOrder
<1>6. /\ waiting' = waiting \/ waiting' = waiting \cup {r}
      /\ up' = up \/ up' = SentUp(up, reader, r)
  BY <1>1 DEF Dispatch, Ask, callState
<1>7. Speaks({r})
  BY <1>3, <1>5, <1>6, SpeaksNot, SpeaksOnce
<1>8. Same(view, view')
  BY <1>3, DispatchSame
<1>9. nextId \in Nat
  BY <1>3, Parted DEF ClientParts
<1>10. Saving /\ Skips
  BY <1>3, <1>4, <1>5, PersistSaves, SkipsNone
<1>11. /\ \A q \in waiting' : q \in waiting \/ (q.id >= nextId /\ ~Restates(q))
       /\ \A q \in waiting : Restates(q) => q \in waiting'
       /\ \A f \in {r}, t \in Uris : ~Upsets(f, t)
  BY <1>2, <1>6, <1>9
<1> QED BY <1>3, <1>4, <1>5, <1>7, <1>8, <1>10, <1>11, SameTurn

\* ... as does an answer nobody waits for, ...
LEMMA LateKeeps ==
  ASSUME ClientTurn, ReceiveLate
  PROVE  ClientOrder' /\ MirrorOrder'
<1>1. Types /\ Types' /\ MirrorsKept' /\ HubOrder /\ ClientOrder /\ MirrorOrder
  BY DEF ClientTurn
<1>2. /\ UNCHANGED <<serverVars, detached, reader, ready, early, initialized, subscribed, up,
                     stored, view, waiting, current, saves>>
      /\ Incoming("answer")
  BY DEF ClientTurn, ReceiveLate, clientVars, linkState, shakeState, callState, saveState
<1>3. Skips /\ Connected
  BY <1>1, <1>2, SkipsAnswer
<1>4. Speaks({}) /\ Same(view, view') /\ Saving
  BY <1>1, <1>2, SpeaksNot, SameItself DEF Saving
<1>5. /\ \A q \in waiting' : q \in waiting \/ (q.id >= nextId /\ ~Restates(q))
      /\ \A q \in waiting : Restates(q) => q \in waiting'
      /\ \A f \in {}, t \in Uris : ~Upsets(f, t)
  BY <1>2
<1> QED BY <1>1, <1>2, <1>3, <1>4, <1>5, SameTurn

\* ... and a timer that takes back what its request had made.
LEMMA TimeoutKeeps ==
  ASSUME ClientTurn, NEW r \in waiting, Timeout(r)
  PROVE  ClientOrder' /\ MirrorOrder'
<1>1. Types /\ Types' /\ MirrorsKept /\ MirrorsKept' /\ HubOrder /\ ClientOrder /\ MirrorOrder
  BY DEF ClientTurn
<1>2. /\ UNCHANGED <<serverVars, detached, reader, ready, early, initialized, subscribed, up,
                     down, stored>>
      /\ waiting' = waiting \ {r} /\ view' = Failure(view, r, "timeout") /\ Persist(FALSE)
  BY DEF ClientTurn, Timeout, linkState, shakeState
<1>3. ClientOrder' /\ Fewer(view, view', Taking(r))
  BY <1>1, <1>2, FailureStays
<1>4. Connected
  BY <1>1 DEF ClientOrder
<1>5. Skips /\ Saving /\ Speaks({})
  BY <1>1, <1>2, <1>4, SkipsNone, PersistSaves, SpeaksNot
<1>6. /\ \A q \in waiting' : q \in waiting \/ q.id >= nextId
      /\ \A q \in waiting' : Restates(q) => q \in waiting
  BY <1>2
<1>7. Upright'
  BY <1>1, <1>2, <1>3, <1>4, <1>5, <1>6, UprightFewer DEF MirrorOrder
<1> QED BY <1>1, <1>2, <1>3, <1>5, <1>6, <1>7, FewerTurn

\* The application gives up a channel.
LEMMA UnsubscribeKeeps ==
  ASSUME ClientTurn, "overlap" \notin Habits, NEW u, Unsubscribe(u)
  PROVE  ClientOrder' /\ MirrorOrder'
<1> DEFINE f == [method |-> "unsubscribe", uri |-> u]
<1>1. Types /\ Types' /\ MirrorsKept' /\ HubOrder /\ ClientOrder /\ MirrorOrder
  BY DEF ClientTurn
<1>2. /\ UNCHANGED <<serverVars, detached, reader, ready, early, initialized, down, stored,
                     waiting, current>>
      /\ subscribed' = subscribed \ {u} /\ view' = Forget(view, u)
      /\ up' = IF Connected THEN SentUp(up, reader, f) ELSE up
      /\ Restating({u}) = {} /\ Persist(FALSE)
  BY DEF ClientTurn, Unsubscribe, linkState, shakeState, callState
<1>3. Fewer(view, view', {u})
  BY <1>1, <1>2, Parted, ForgetFewer DEF ClientParts
<1>4. \A r \in waiting : Restates(r) => r.method = "subscribe" /\ u \notin r.uris
  BY <1>1, <1>2, NobodyRestates
<1>5. \A r \in waiting : r \in Requests /\ (r.method = "reconnect" => Restates(r))
  BY <1>1, Parted DEF ClientParts, Restates
<1>6. ClientOrder'
  <2>1. ASSUME NEW t \in Known(view')
        PROVE  /\ t \in Known(view) /\ view'.mirrors[t].primed = view.mirrors[t].primed
               /\ view.mirrors[t].primed => t \in subscribed' /\ view'.mirrors[t].buffered = << >>
               /\ t \in subscribed' \cup UNION {Taking(r) : r \in waiting'}
               /\ ready /\ ~view.mirrors[t].primed =>
                    \E r \in waiting' : r.method = "subscribe" /\ t \in r.uris
    <3>1. t \in Known(view) /\ t # u /\ SameCopy(view.mirrors[t], view'.mirrors[t])
      BY <1>3, <2>1 DEF Fewer
    <3> QED BY <1>1, <1>2, <3>1 DEF ClientOrder, SameCopy
  <2>2. \A r \in waiting' : r.method # "reconnect"
    BY <1>2, <1>4, <1>5
  <2>3. UNCHANGED <<reader, ready, initialized>> /\ subscribed' \subseteq subscribed /\ early' = early
        /\ (\A r \in waiting' : Restates(r) => r \in waiting) /\ (Connected \/ waiting' = {})
    BY <1>1, <1>2 DEF ClientOrder
  <2> QED BY <1>1, <2>1, <2>2, <2>3, CallsStay
<1>7. ASSUME Connected PROVE Skips /\ Upright'
  <2>1. Skips
    BY <1>1, <1>2, <1>7, SkipsNone
  <2>2. Speaks({f})
    BY <1>1, <1>2, <1>7, SpeaksOnce
  <2>3. \A g \in {f}, t \in Uris : Upsets(g, t) =>
           t \notin Known(view') /\ \A r \in waiting' : Restates(r) => t \notin r.uris
    BY <1>2, <1>3, <1>4 DEF Upsets, Fewer
  <2>4. /\ \A r \in waiting' : r \in waiting \/ r.id >= nextId
        /\ \A r \in waiting' : Restates(r) => r \in waiting
        /\ Upright /\ UNCHANGED <<serverVars, detached, reader>>
    BY <1>1, <1>2 DEF MirrorOrder
  <2>5. Upright'
    BY <1>1, <1>3, <1>7, <2>1, <2>2, <2>3, <2>4, UprightFewer
  <2> QED BY <2>1, <2>5
<1>8. Saving /\ subscribed' \subseteq subscribed /\ \A r \in waiting' : r \in waiting \/ r.id >= nextId
  BY <1>2, PersistSaves
<1>9. MirrorOrder'
  BY <1>1, <1>2, <1>3, <1>6, <1>7, <1>8, FewerTurn
<1> QED BY <1>6, <1>9

\* A session that is torn down has nothing left to be kept.
LEMMA TearDownKeeps ==
  ASSUME ClientTurn, TearDown, Saving
  PROVE  ClientOrder' /\ MirrorOrder'
<1>1. /\ reader' = 0 /\ ready' = FALSE /\ early' = << >> /\ waiting' = {} /\ subscribed' = {}
      /\ view' = [SettleAll(view, DOMAIN view.outcome, "lost") EXCEPT !.mirrors = << >>]
      /\ UNCHANGED <<log, gone>>
  BY DEF TearDown, ClientTurn, serverVars, hubVars
<1>2. Types /\ Types' /\ AllKept /\ Gapless
  BY DEF ClientTurn, MirrorOrder
<1>3. Known(view') = {} /\ view'.seen = view.seen
  <2>1. view \in Plain(Told)
    BY <1>2, Parted DEF ClientParts
  <2>2. PICK w : w = SettleAll(view, DOMAIN view.outcome, "lost")
    OBVIOUS
  <2>3. w \in Plain(Told) /\ w.seen = view.seen
    BY <2>1, <2>2, EndAllSame DEF Same
  <2>4. w = [mirrors |-> w.mirrors, seen |-> w.seen, outcome |-> w.outcome]
    BY <2>3, PlainParts
  <2>5. view' = [mirrors |-> << >>, seen |-> w.seen, outcome |-> w.outcome]
    BY <1>1, <2>2, <2>4
  <2>6. view'.mirrors = << >> /\ view'.seen = w.seen
    BY <2>5
  <2>7. DOMAIN << >> = {}
    OBVIOUS
  <2> QED BY <2>3, <2>6, <2>7 DEF Known
<1>4. ~Connected'
  BY <1>1 DEF Connected
<1>5. CopiesTrue'
  BY <1>3 DEF CopiesTrue
<1>6. Gapless'
  BY <1>1, <1>2, <1>3 DEF Gapless
<1>7. MirrorOrder'
  BY <1>1, <1>2, <1>4, <1>5, <1>6, LeftAlone
<1>8. ClientOrder'
  BY <1>1, <1>3, <1>4 DEF ClientOrder
<1> QED BY <1>7, <1>8

\* So does a shutdown, which leaves no mirror.
LEMMA ShutdownKeeps ==
  ASSUME ClientTurn, Shutdown
  PROVE  ClientOrder' /\ MirrorOrder'
<1>1. Persist(TRUE) /\ stored' = stored /\ current' = current /\ up' = up
  BY DEF Shutdown
<1>2. Saving
  BY <1>1, PersistSaves
<1>3. CASE TearDown
  BY <1>2, <1>3, TearDownKeeps
<1>4. CASE UNCHANGED <<reader, down, shakeState, done, waiting, subscribed, view>>
  <2>1. Types /\ Types' /\ MirrorsKept' /\ HubOrder /\ ClientOrder /\ MirrorOrder
    BY DEF ClientTurn
  <2>2. UNCHANGED <<serverVars, detached, reader, ready, early, initialized, subscribed, down,
                    waiting, view>>
    BY <1>4 DEF Shutdown, ClientTurn, shakeState
  <2>3. Same(view, view') /\ Speaks({}) /\ (Connected => Skips) /\ (Connected \/ waiting' = {})
    BY <1>1, <2>1, <2>2, SameItself, SpeaksNot, SkipsNone DEF ClientOrder
  <2>4. /\ \A r \in waiting' : r \in waiting \/ (r.id >= nextId /\ ~Restates(r))
        /\ \A r \in waiting : Restates(r) => r \in waiting'
        /\ \A f \in {}, t \in Uris : ~Upsets(f, t)
    BY <2>2
  <2> QED BY <1>2, <2>1, <2>2, <2>3, <2>4, SameTurn
<1>5. TearDown \/ UNCHANGED <<reader, down, shakeState, done, waiting, subscribed, view>>
  BY DEF Shutdown
<1> QED BY <1>3, <1>4, <1>5

\* The link ends.
LEMMA EndOfStreamKeeps ==
  ASSUME ClientTurn, EndOfStream
  PROVE  ClientOrder' /\ MirrorOrder'
<1> DEFINE us == UNION {Taking(r) : r \in waiting}
<1>1. Types /\ Types' /\ MirrorsKept' /\ ClientOrder /\ CopiesTrue /\ Gapless /\ AllKept
  BY DEF ClientTurn, MirrorOrder
<1>2. /\ UNCHANGED <<log, gone, subscribed, initialized, stored>>
      /\ reader' = 0 /\ ready' = FALSE /\ early' = << >> /\ waiting' = {}
      /\ view' = Failures(view, waiting, "transport") /\ Persist(FALSE)
  BY DEF EndOfStream, ClientTurn, serverVars, hubVars, linkState
<1>3. Fewer(view, view', us)
  BY <1>1, <1>2, Parted, FailuresFewer DEF ClientParts
<1>4. ~Connected' /\ Saving
  BY <1>2, PersistSaves DEF Connected
<1>5. \A u \in Known(view') : u \in Known(view) /\ SameCopy(view.mirrors[u], view'.mirrors[u])
  BY <1>3 DEF Fewer
<1>6. ClientOrder'
  <2>1. \A u \in Known(view') : u \in subscribed
    BY <1>1, <1>3 DEF ClientOrder, Fewer
  <2>2. \A u \in Known(view') : view'.mirrors[u].primed => view'.mirrors[u].buffered = << >>
    BY <1>1, <1>5 DEF ClientOrder, SameCopy
  <2> QED BY <1>1, <1>2, <1>4, <2>1, <2>2 DEF ClientOrder
<1>7. CopiesTrue'
  BY <1>1, <1>2, <1>5 DEF CopiesTrue, Copied, SameCopy
<1>8. Gapless'
  <2>1. \A u \in subscribed' \ gone : view'.mirrors[u].applied = view.mirrors[u].applied
    BY <1>1, <1>5 DEF MirrorsKept, SameCopy
  <2>2. view'.seen = view.seen
    BY <1>3 DEF Fewer
  <2> QED BY <1>1, <1>2, <2>1, <2>2, GaplessStays
<1> QED BY <1>1, <1>2, <1>4, <1>6, <1>7, <1>8, LeftAlone

\* A save has ended, well or not.
LEMMA SaveEndsKeeps ==
  ASSUME ClientTurn, NEW ok \in BOOLEAN, SaveEnds(ok)
  PROVE  ClientOrder' /\ MirrorOrder'
<1>1. Types /\ Types' /\ MirrorsKept' /\ HubOrder /\ ClientOrder /\ MirrorOrder
  BY DEF ClientTurn
<1>2. /\ saves # << >> /\ UNCHANGED <<serverVars, detached, initialized, nextSeq, current>>
      /\ stored' = stored \/ (saves # << >> /\ stored' = Head(saves))
  BY DEF ClientTurn, SaveEnds
<1>3. ASSUME UNCHANGED <<reader, down, ready, early, subscribed>>, Same(view, view'),
             NEW A, Speaks(A), \A f \in A : f.method = "dispatch" /\ f.id >= nextId,
             waiting' = waiting \cup A, Connected \/ waiting' = {}, Saving
      PROVE  ClientOrder' /\ MirrorOrder'
  <2>1. Connected => Skips
    BY <1>1, <1>3, SkipsNone
  <2>2. /\ \A q \in waiting' : q \in waiting \/ (q.id >= nextId /\ ~Restates(q))
        /\ \A q \in waiting : Restates(q) => q \in waiting'
        /\ \A f \in A, t \in Uris : ~Upsets(f, t)
    BY <1>3 DEF Restates, Upsets
  <2> QED BY <1>1, <1>2, <1>3, <2>1, <2>2, SameTurn
<1>4. CASE Len(saves) > 1 /\ saves' = Tail(saves)
             /\ UNCHANGED <<reader, down, up, shakeState, waiting, subscribed, view>>
  <2>1. Saving
    BY <1>2, <1>4 DEF Saving
  <2>2. Same(view, view') /\ Speaks({}) /\ waiting' = waiting \cup {} /\ (Connected \/ waiting' = {})
    BY <1>1, <1>4, SameItself, SpeaksNot DEF ClientOrder
  <2>3. UNCHANGED <<reader, down, ready, early, subscribed>>
    BY <1>4 DEF shakeState
  <2> QED BY <1>3, <2>1, <2>2, <2>3
<1>5. CASE Flushed
  <2>1. PICK callers \in Seq(Flushes) :
          /\ SendAll(Sent(callers))
          /\ \/ TearDown /\ saves' = << >>
             \/ /\ callers = flushing /\ view' = ReleaseAll(view, flushing)
                /\ \A i \in DOMAIN flushing : flushing[i].n # 0
                /\ waiting' = waiting \cup Range(Sent(callers))
                /\ saves' = IF view' # view /\ writable
                            THEN <<Checkpoint(view', subscribed, nextSeq)>> ELSE << >>
                /\ UNCHANGED <<reader, down, ready, early, done, subscribed>>
    BY <1>1, <1>5, FlushedParts
  <2>2. CASE TearDown /\ saves' = << >>
    <3>1. Saving
      BY <1>2, <2>2 DEF Saving
    <3> QED BY <2>2, <3>1, TearDownKeeps
  <2>3. CASE /\ callers = flushing /\ view' = ReleaseAll(view, flushing)
             /\ \A i \in DOMAIN flushing : flushing[i].n # 0
             /\ waiting' = waiting \cup Range(Sent(callers))
             /\ saves' = IF view' # view /\ writable
                         THEN <<Checkpoint(view', subscribed, nextSeq)>> ELSE << >>
             /\ UNCHANGED <<reader, down, ready, early, done, subscribed>>
    <3>1. Same(view, view')
      BY <1>1, <2>3, Parted, ReleaseAllSame DEF ClientParts
    <3>2. /\ Sent(callers) \in Seq(Requests)
          /\ \A r \in Range(Sent(callers)) : r.id >= nextId /\ r.method = "dispatch"
      BY <1>1, SentDispatches
    <3>3. Speaks(Range(Sent(callers)))
      BY <1>1, <2>1, <3>2, SpeaksAll
    <3>4. Connected \/ waiting' = {}
      <4>1. SUFFICES ASSUME ~Connected PROVE waiting' = {}
        OBVIOUS
      <4>2. waiting = {}
        BY <1>1, <4>1 DEF ClientOrder
      <4>3. Sent(callers) = [i \in DOMAIN << >> |->
              DispatchRequest(nextId + i - 1, << >>[i].uri, << >>[i].n)]
        BY <4>1 DEF Sent
      <4>4. DOMAIN Sent(callers) = {}
        BY <4>3
      <4> QED BY <2>3, <4>2, <4>4 DEF Range
    <3>5. Saving
      <4>1. saves' = << >> \/ saves' = Append(<< >>, Checkpoint(view', subscribed, nextSeq))
        BY <2>3
      <4>2. Checkpoint(view', subscribed, nextSeq) = Checkpoint(view, subscribed, nextSeq)'
        BY <1>2, <2>3 DEF Checkpoint, Known
      <4> QED BY <1>2, <4>1, <4>2 DEF Saving
    <3> QED BY <1>3, <2>3, <3>1, <3>2, <3>3, <3>4, <3>5
  <2> QED BY <2>1, <2>2, <2>3
<1>6. \/ Flushed
      \/ Len(saves) > 1 /\ saves' = Tail(saves)
           /\ UNCHANGED <<reader, down, up, shakeState, waiting, subscribed, view>>
  BY DEF SaveEnds
<1> QED BY <1>4, <1>5, <1>6

\* A new process restores the last checkpoint.
LEMMA RestoreKeeps ==
  ASSUME ClientTurn, Restore
  PROVE  ClientOrder' /\ MirrorOrder'
<1> DEFINE us == DOMAIN stored.channels
<1>1. Types /\ Types' /\ AllKept
  BY DEF ClientTurn, MirrorOrder
<1>2. /\ UNCHANGED <<log, gone, stored>> /\ stored # None
      /\ reader' = 0 /\ ready' = FALSE /\ early' = << >> /\ waiting' = {} /\ initialized' = TRUE
      /\ subscribed' = us /\ saves' = << >> /\ view'.seen = stored.seen
  BY DEF Restore, ClientTurn, serverVars, hubVars
<1>3. Kept(stored)
  BY <1>1, <1>2 DEF AllKept
<1>4. /\ Known(view') = us
      /\ \A u \in us : /\ view'.mirrors[u].confirmed = stored.channels[u].confirmed
                       /\ view'.mirrors[u].applied = stored.channels[u].applied
                       /\ view'.mirrors[u].buffered = << >>
  <2>1. PICK mirrors : mirrors = [u \in us |-> Restated([NewMirror(TRUE) EXCEPT
            !.confirmed = stored.channels[u].confirmed, !.applied = stored.channels[u].applied,
            !.pending = stored.channels[u].pending])]
    OBVIOUS
  <2>2. view'.mirrors = mirrors
    BY <2>1 DEF Restore
  <2>3. ASSUME NEW u \in us
        PROVE  /\ mirrors[u].confirmed = stored.channels[u].confirmed
               /\ mirrors[u].applied = stored.channels[u].applied
               /\ mirrors[u].buffered = << >>
    <3>1. mirrors[u] = Restated([NewMirror(TRUE) EXCEPT
            !.confirmed = stored.channels[u].confirmed, !.applied = stored.channels[u].applied,
            !.pending = stored.channels[u].pending])
      BY <2>1
    <3> QED BY <3>1 DEF Restated, NewMirror
  <2>4. DOMAIN mirrors = us
    BY <2>1
  <2> QED BY <2>2, <2>3, <2>4 DEF Known
<1>5. ~Connected' /\ Saving
  BY <1>2 DEF Connected, Saving
<1>6. ClientOrder'
  BY <1>2, <1>4, <1>5 DEF ClientOrder
<1>7. CopiesTrue'
  BY <1>2, <1>3, <1>4 DEF CopiesTrue, Copied, Kept
<1>8. Gapless'
  <2>1. \A u \in us \ gone : Between(u, view'.mirrors[u].applied, view'.seen) = {}
    BY <1>2, <1>3, <1>4 DEF Kept
  <2> QED BY <1>2, <1>3, <2>1 DEF Gapless, Kept, Between, Told
<1> QED BY <1>1, <1>2, <1>5, <1>6, <1>7, <1>8, LeftAlone

\* With nobody else about a channel nobody restates it.
LEMMA NobodyAtAll ==
  ASSUME Types, Restating(Uris) = {}
  PROVE  \A r \in waiting : ~Restates(r) /\ ~IsHandshake(r) /\ r.method # "subscribe"
                            /\ Taking(r) = {}
<1> SUFFICES ASSUME NEW r \in waiting
             PROVE  ~Restates(r) /\ ~IsHandshake(r) /\ r.method # "subscribe" /\ Taking(r) = {}
  OBVIOUS
<1>1. r \in Requests
  BY Parted DEF ClientParts
<1>2. Restates(r) => r.method = "subscribe" /\ r.uris \cap Uris = {}
  BY NobodyRestates
<1>3. r.method = "subscribe" => r.uris = {r.uri} /\ r.uri \in Uris
  BY <1>1, RequestMethods
<1>4. ~Restates(r)
  BY <1>2, <1>3
<1> QED BY <1>1, <1>4, RequestMethods

\* A new request has no answer on its way.
LEMMA NotAnswered ==
  ASSUME Types, Connected, NEW r, r.id = nextId
  PROVE  \A i \in DOMAIN Coming : ~AnswerTo(Coming[i], r)
<1> SUFFICES ASSUME NEW i \in DOMAIN Coming, AnswerTo(Coming[i], r) PROVE FALSE
  OBVIOUS
<1>1. ~IsPush(Coming[i])
  BY DEF AnswerTo, IsPush
<1>2. Coming[i] \in Answers
  BY <1>1, Parted DEF ComingParts
<1>3. Coming[i].id \in Nat /\ Coming[i].id < nextId
  BY <1>2, AnswerParts
<1> QED BY <1>3 DEF AnswerTo

\* A handshake on a link that stays: every channel waits for its state anew.
LEMMA HandshakeBegins ==
  ASSUME ClientTurn, Connected, UNCHANGED <<down, reader, detached, stored, saves, subscribed>>,
         \A q \in waiting : ~Restates(q),
         NEW r, IsHandshake(r), r.id = nextId, waiting' = waiting \cup {r},
         up' = SentUp(up, reader, r), early' = << >>, view'.seen = view.seen,
         \A u \in Known(view') : ~view'.mirrors[u].primed /\ view'.mirrors[u].buffered = << >>,
         \A u \in Known(view') \ gone : Copied(view'.mirrors[u], u),
         \A u \in subscribed \ gone : view'.mirrors[u].applied = view.mirrors[u].applied,
         ClientOrder'
  PROVE  MirrorOrder'
<1>1. Types /\ Types' /\ MirrorsKept' /\ HubOrder /\ ClientOrder /\ MirrorOrder /\ Upright
      /\ UNCHANGED serverVars
  BY DEF ClientTurn, MirrorOrder
<1>2. ~IsPush(Coming[1]) \/ 0 # 1
  OBVIOUS
<1>3. Reads(0)
  <2>1. PICK D \in Seq(DownFrames) : D = Coming
    BY <1>1, Parted DEF ComingParts
  <2>2. Coming' = Coming
    BY DEF Coming
  <2>3. Shifted(Coming, Coming', 0)
    BY <2>1, <2>2, ShiftedNot
  <2>4. \A q \in waiting' : q \in waiting \/ q.id >= nextId
    <3>1. nextId \in Nat
      BY <1>1, Parted DEF ClientParts
    <3> QED BY <3>1
  <2> QED BY <1>1, <2>3, <2>4 DEF Reads
<1>4. Settling(0)
  <2>1. ASSUME NEW h \in Had' PROVE h \in Had
    <3>1. \A u \in Known(view') : Waits(view', u) = {}
      BY DEF Waits
    <3>2. Had' = {view'.seen} \cup {early'[k].seq : k \in DOMAIN early'}
                    \cup UNION {Waits(view', u) : u \in Known(view')}
      BY DEF Had, Known, Waits
    <3>3. h = view.seen
      BY <2>1, <3>1, <3>2
    <3> QED BY <3>3 DEF Had
  <2>2. \A u \in Known(view') \ gone : Anew(u)
    BY DEF Anew
  <2> QED BY <1>3, <2>1, <2>2 DEF Settling
<1>5. Upright'
  <2>1. Speaks({r})
    BY <1>1, SpeaksOnce
  <2>2. ASSUME NEW u \in Uris PROVE ~Claimed(u)'
    <3>1. Coming' = Coming
      BY DEF Coming
    <3>2. \A i \in DOMAIN Coming : ~AnswerTo(Coming[i], r)
      BY <1>1, NotAnswered
    <3>3. \A q \in waiting' : Restates(q) => q = r
      OBVIOUS
    <3> QED BY <3>1, <3>2, <3>3 DEF Claimed
  <2>3. up'[reader] = up[reader] \/ up'[reader] = Append(up[reader], r)
    BY <1>1, Parted DEF SentUp, ComingParts, Types, WireTypes
  <2>4. \A q \in waiting' : Restates(q) =>
           \/ q \in waiting \/ up'[reader] = up[reader]
           \/ up'[reader] = Append(up[reader], q)
    BY <2>3
  <2>5. \A u \in Known(view') : view'.mirrors[u].primed => Claimed(u)
    OBVIOUS
  <2>6. \A f \in {r}, u \in Uris : Upsets(f, u) =>
           ~Claimed(u)' /\ \A q \in waiting \cap waiting' : Restates(q) => u \notin q.uris
    BY <2>2
  <2> QED BY <1>1, <1>3, <2>1, <2>4, <2>5, <2>6, UprightSpeaks
<1>6. Saving /\ SeesNoMore
  BY <1>1 DEF Saving, SeesNoMore
<1> QED BY <1>1, <1>4, <1>5, <1>6, Settled

\* The application calls hello, for the first time: there is nothing to lose.
LEMMA HelloKeeps ==
  ASSUME ClientTurn, "overlap" \notin Habits, "rehello" \notin Habits,
         NEW us \in SUBSET Uris, Hello(us)
  PROVE  ClientOrder' /\ MirrorOrder'
<1> DEFINE r == Request("hello", us, us \ Known(view))
<1>1. Types /\ Types' /\ MirrorsKept' /\ HubOrder /\ ClientOrder /\ MirrorOrder
  BY DEF ClientTurn
<1>2. /\ Connected /\ Restating(Uris) = {} /\ ~initialized
      /\ ready' = FALSE /\ early' = << >> /\ view' = WithMirrors(Unprime(view, us), us)
      /\ up' = SentUp(up, reader, r) /\ waiting' = waiting \cup {r}
      /\ UNCHANGED <<down, reader, detached, subscribed, initialized, saves, stored>>
  BY DEF Hello, Ask, BeginHandshake, linkState, saveState
<1>3. r.id = nextId /\ r.method = "hello" /\ r.created = us \ Known(view) /\ r.uris = us
  BY DEF Request
<1> HIDE DEF r
<1>4. \A q \in waiting : ~Restates(q) /\ ~IsHandshake(q) /\ q.method # "subscribe" /\ Taking(q) = {}
  BY <1>1, <1>2, NobodyAtAll
<1>5. subscribed = {} /\ Known(view) = {}
  BY <1>1, <1>2, <1>4 DEF ClientOrder
<1>6. /\ Known(view') = us /\ view'.seen = view.seen
      /\ \A u \in us : /\ view'.mirrors[u].confirmed = << >> /\ view'.mirrors[u].applied = 0
                       /\ ~view'.mirrors[u].primed /\ view'.mirrors[u].buffered = << >>
  <2>1. PICK w : w = Unprime(view, us)
    OBVIOUS
  <2>2. w \in Plain(Told) /\ Known(w) = {} /\ w.seen = view.seen
    BY <1>1, <1>5, <2>1, UnprimeWaits, Parted DEF ClientParts
  <2>3. view' = WithMirrors(w, us)
    BY <1>2, <2>1
  <2>4. PICK x : x = WithMirrors(w, us)
    OBVIOUS
  <2>5. /\ Known(x) = Known(w) \cup us /\ x.seen = w.seen
        /\ \A u \in us \ Known(w) :
             /\ x.mirrors[u].confirmed = << >> /\ x.mirrors[u].applied = 0
             /\ ~x.mirrors[u].primed /\ x.mirrors[u].buffered = << >>
    <3>1. w \in Plain(Told)
      BY <2>2
    <3> QED BY <2>4, <3>1, MirrorsWait
  <2>6. view' = x
    BY <2>3, <2>4
  <2> QED BY <2>2, <2>5, <2>6
<1>7. \A u \in Known(view') \ gone : Copied(view'.mirrors[u], u)
  BY <1>1, <1>6, StateAtStart, LogTyped DEF Copied, Types
<1>8. Taking(r) = us
  BY <1>3, <1>5 DEF Taking
<1>9. ClientOrder'
  <2>1. ~ready /\ Connected' /\ ~ready' /\ r \in waiting'
    BY <1>1, <1>2 DEF ClientOrder, Connected
  <2>2. \A q \in waiting' : q = r \/ (q \in waiting /\ ~Restates(q) /\ ~IsHandshake(q)
                                       /\ q.method \notin {"subscribe", "hello", "reconnect"})
    BY <1>2, <1>4 DEF IsHandshake
  <2>3. \A q \in waiting' : IsHandshake(q) =>
          ~ready' /\ \A p \in waiting' : Restates(p) => p = q
    BY <2>1, <2>2
  <2>4. \A q \in waiting' : q.method \notin {"subscribe", "reconnect"}
    BY <1>3, <2>2
  <2>5. Known(view') \subseteq UNION {Taking(q) : q \in waiting'}
    BY <1>6, <1>8, <2>1
  <2> QED BY <1>2, <1>5, <1>6, <2>1, <2>3, <2>4, <2>5 DEF ClientOrder
<1>10. \A u \in subscribed \ gone : view'.mirrors[u].applied = view.mirrors[u].applied
  BY <1>5
<1>11. MirrorOrder'
  BY <1>1, <1>2, <1>3, <1>4, <1>6, <1>7, <1>9, <1>10, HandshakeBegins DEF IsHandshake
<1> QED BY <1>9, <1>11

\* The application calls reconnect on the link in use.
LEMMA ReconnectHereKeeps ==
  ASSUME ClientTurn, "overlap" \notin Habits, NEW s \in Sockets, Reconnect(s), s = reader
  PROVE  ClientOrder' /\ MirrorOrder'
<1> DEFINE r == [Request("reconnect", subscribed, {}) EXCEPT !.seen = view.seen]
<1>1. Types /\ Types' /\ MirrorsKept /\ MirrorsKept' /\ HubOrder /\ ClientOrder /\ MirrorOrder
      /\ CopiesTrue
  BY DEF ClientTurn, MirrorOrder
<1>2. Connected /\ reader = current /\ s # current + 1
  <2>1. reader # 0
    BY DEF Sockets
  <2> QED BY <1>1, <2>1, ReaderIs DEF Connected
<1>3. /\ Restating(Uris) = {}
      /\ ready' = FALSE /\ early' = << >> /\ view' = Unprime(view, Known(view))
      /\ up' = SentUp(up, reader, r) /\ waiting' = waiting \cup {r}
      /\ UNCHANGED <<down, reader, detached, subscribed, initialized, saves, stored>>
  BY <1>2 DEF Reconnect, BeginHandshake, saveState
<1>4. r.id = nextId /\ r.method = "reconnect" /\ r.uris = subscribed /\ r.seen = view.seen
  BY DEF Request
<1> HIDE DEF r
<1>5. \A q \in waiting : ~Restates(q) /\ ~IsHandshake(q) /\ q.method # "subscribe" /\ Taking(q) = {}
  BY <1>1, <1>3, NobodyAtAll
<1>6. /\ Known(view') = Known(view) /\ view'.seen = view.seen
      /\ \A u \in Known(view) :
           /\ view'.mirrors[u].confirmed = view.mirrors[u].confirmed
           /\ view'.mirrors[u].applied = view.mirrors[u].applied
           /\ ~view'.mirrors[u].primed /\ view'.mirrors[u].buffered = << >>
  BY <1>1, <1>3, UnprimeWaits, Parted DEF ClientParts
<1>7. \A u \in Known(view') \ gone : Copied(view'.mirrors[u], u)
  BY <1>1, <1>6 DEF Copied, CopiesTrue
<1>8. ClientOrder'
  <2>1. Connected' /\ ~ready'
    BY <1>2, <1>3 DEF Connected
  <2>2. \A q \in waiting' : q = r \/ (q \in waiting /\ ~Restates(q)
                                       /\ q.method \notin {"subscribe", "hello", "reconnect"})
    BY <1>3, <1>5 DEF IsHandshake
  <2>3. \A q \in waiting' : IsHandshake(q) =>
          ~ready' /\ \A p \in waiting' : Restates(p) => p = q
    BY <2>1, <2>2 DEF IsHandshake
  <2>4. \A q \in waiting' : /\ q.method \notin {"subscribe", "hello"}
                            /\ q.method = "reconnect" => q.uris = subscribed' /\ q.seen = view'.seen
    BY <1>3, <1>4, <1>6, <2>2
  <2>5. Known(view') \subseteq subscribed'
    BY <1>1, <1>3, <1>5, <1>6 DEF ClientOrder
  <2> QED BY <1>1, <1>3, <1>6, <2>1, <2>3, <2>4, <2>5 DEF ClientOrder
<1>9. \A u \in subscribed \ gone : view'.mirrors[u].applied = view.mirrors[u].applied
  BY <1>1, <1>6 DEF MirrorsKept
<1>10. MirrorOrder'
  BY <1>2, <1>3, <1>4, <1>5, <1>6, <1>7, <1>8, <1>9, HandshakeBegins DEF IsHandshake
<1> QED BY <1>8, <1>10

\* The application calls reconnect on another socket: nothing is on its way there.
LEMMA ReconnectAfreshKeeps ==
  ASSUME ClientTurn, NEW s \in Sockets, Reconnect(s), s # reader
  PROVE  ClientOrder' /\ MirrorOrder'
<1> DEFINE r == [Request("reconnect", subscribed, {}) EXCEPT !.seen = view.seen]
           us == UNION {Taking(q) : q \in waiting}
<1>1. Types /\ Types' /\ MirrorsKept /\ MirrorsKept' /\ HubOrder /\ ClientOrder
      /\ CopiesTrue /\ Gapless /\ AllKept /\ LinksOrdered
  BY DEF ClientTurn, MirrorOrder, HubOrder
<1>2. /\ s = current + 1 /\ reader' = s /\ current' = s /\ waiting' = {r}
      /\ ready' = FALSE /\ early' = << >>
      /\ view' = Failures(Unprime(view, Known(view)), waiting, "transport")
      /\ up' = SentUp(up, s, r) /\ down' = [down EXCEPT ![current] = << >>]
      /\ UNCHANGED <<serverVars, log, gone, job, detached, subscribed, initialized, saves, stored>>
  <2>1. s = current + 1 /\ s # current
    <3>1. current \in Nat
      BY <1>1, ReaderIs
    <3> QED BY <3>1 DEF Reconnect
  <2> QED BY <2>1 DEF Reconnect, BeginHandshake, saveState, ClientTurn, serverVars, hubVars
<1>3. r.id = nextId /\ r.method = "reconnect" /\ r.uris = subscribed /\ r.seen = view.seen
  BY DEF Request
<1> HIDE DEF r
<1>4. /\ Known(view') = Known(view) \ us /\ view'.seen = view.seen
      /\ \A u \in Known(view') :
           /\ u \in Known(view)
           /\ view'.mirrors[u].confirmed = view.mirrors[u].confirmed
           /\ view'.mirrors[u].applied = view.mirrors[u].applied
           /\ ~view'.mirrors[u].primed /\ view'.mirrors[u].buffered = << >>
  <2>1. PICK w : w = Unprime(view, Known(view))
    OBVIOUS
  <2>2. view \in Plain(Told)
    BY <1>1, Parted DEF ClientParts
  <2>3. w \in Plain(Told)
    BY <2>1, <2>2, UnprimeWaits
  <2>4. /\ Known(w) = Known(view) /\ w.seen = view.seen
        /\ \A u \in Known(view) :
             /\ w.mirrors[u].confirmed = view.mirrors[u].confirmed
             /\ w.mirrors[u].applied = view.mirrors[u].applied
             /\ ~w.mirrors[u].primed /\ w.mirrors[u].buffered = << >>
    BY <2>1, <2>2, UnprimeWaits
  <2>5. waiting \in SUBSET Requests /\ IsFiniteSet(waiting)
    BY <1>1, Parted DEF ClientParts
  <2>6. view' = Failures(w, waiting, "transport")
    BY <1>2, <2>1
  <2>7. Fewer(w, view', us)
    BY <2>3, <2>5, <2>6, FailuresFewer
  <2> QED BY <2>4, <2>7 DEF Fewer, SameCopy
<1>5. Coming' = << >> /\ Connected' /\ job[s] = Idle /\ up[s] = << >> /\ s \notin detached
  <2>1. reader \in {0, current} /\ current \in Sockets /\ current \in Nat /\ current + 1 > current
    BY <1>1, ReaderIs DEF LinksOrdered
  <2>2. down[s] = << >> /\ job[s] = Idle /\ up[s] = << >> /\ s \notin detached
    BY <1>1, <1>2, <2>1 DEF LinksOrdered
  <2>3. down \in [Sockets -> Seq(DownFrames)]
    BY <1>1, ReaderIs
  <2>4. down'[s] = << >>
    BY <1>2, <2>1, <2>2, <2>3
  <2>5. s # 0
    BY DEF Sockets
  <2> QED BY <1>2, <2>2, <2>4, <2>5 DEF Coming, Connected
<1>6. ClientOrder'
  <2>1. Known(view') \subseteq subscribed'
    BY <1>1, <1>2, <1>4 DEF ClientOrder
  <2>2. \A q \in waiting' : q = r
    BY <1>2
  <2> QED BY <1>1, <1>2, <1>3, <1>4, <1>5, <2>1, <2>2 DEF ClientOrder, IsHandshake
<1>7. CopiesTrue'
  BY <1>1, <1>2, <1>4 DEF CopiesTrue, Copied
<1>8. Gapless'
  <2>1. \A u \in subscribed' \ gone : view'.mirrors[u].applied = view.mirrors[u].applied
    BY <1>1, <1>2, <1>4 DEF MirrorsKept
  <2> QED BY <1>1, <1>2, <1>4, <2>1, GaplessStays
<1>9. AllKept'
  <2>1. Saving
    BY <1>2 DEF Saving
  <2> QED BY <1>1, <1>2, <1>7, <1>8, <2>1, SavesKept DEF Saving
<1>10. (\A q : ~(Handling(q)')) /\ ~(Shaking')
  <2>1. job'[reader'] = Idle
    BY <1>2, <1>5
  <2> QED BY <2>1 DEF Handling, Shaking, Idle
<1>11. \A u \in Uris : ~(Claimed(u)')
  <2>1. DOMAIN Coming' = {}
    BY <1>5
  <2> QED BY <1>4, <2>1 DEF Claimed
<1>12. Upright'
  <2>1. up'[reader'] = << >> \/ up'[reader'] = <<r>>
    <3>1. up \in [Sockets -> Seq(UpFrames)]
      BY <1>1, ReaderIs
    <3>2. up'[s] = Append(up[s], r)
      BY <1>2, <1>5, <3>1 DEF SentUp
    <3> QED BY <1>2, <1>5, <3>2
  <2>2. \A k, j \in DOMAIN up'[reader'] : ~(k < j)
    BY <2>1
  <2>3. ASSUME NEW u \in Uris, NEW q \in waiting'
        PROVE  /\ Handling(q)' => Undisturbed(u)'
               /\ \A k, j \in DOMAIN up'[reader'] :
                    k < j /\ up'[reader'][k] = q => ~Upsets(up'[reader'][j], u)
    BY <1>10, <2>2
  <2> QED BY <1>11, <2>3 DEF Upright
<1>13. ASSUME NEW u, NEW b, u \in Known(view') PROVE ~(Based(u, b)')
  <2>1. DOMAIN Coming' = {} /\ Len(Coming') = 0
    BY <1>5
  <2>2. ASSUME NEW i PROVE ~(Promised(u, b, i)')
    BY <1>2, <1>10, <2>1 DEF Promised, InJob
  <2> QED BY <1>4, <1>13, <2>2 DEF Based
<1>14. Bases'
  <2>1. ASSUME NEW u \in Known(view') \ gone', NEW b, NEW i \in 1..(Len(Coming') + 1)
        PROVE  ~(Promised(u, b, i)')
    BY <1>13 DEF Based
  <2> QED BY <1>13, <2>1 DEF Bases
<1>15. Had' = {view.seen} /\ view.seen \in Nat /\ view.seen <= Len(log) /\ Len(log) \in Nat
  <2>1. \A u \in Known(view') : Waits(view', u) = {}
    BY <1>4 DEF Waits
  <2>2. Had' = {view'.seen} \cup {early'[k].seq : k \in DOMAIN early'}
                  \cup UNION {Waits(view', u) : u \in Known(view')}
    BY DEF Had, Known, Waits
  <2>3. view.seen \in Nat /\ Len(log) \in Nat
    BY <1>1, Parted, LogTyped, PlainParts DEF ClientParts
  <2> QED BY <1>1, <1>2, <1>4, <2>1, <2>2, <2>3 DEF Gapless
<1>16. Stream'
  <2>1. InOrder(Had', early', Coming')
    BY <1>2, <1>5 DEF InOrder
  <2> QED BY <2>1 DEF Stream
<1>17. Cut'
  <2>1. Reached(Len(log))'
    <3>1. DOMAIN Coming' = {}
      BY <1>5
    <3>2. job'[reader'].stage # "answering"
      BY <1>2, <1>5 DEF Idle
    <3> QED BY <1>2, <1>13, <1>15, <3>1, <3>2 DEF Reached
  <2> QED BY <1>2, <1>15, <2>1 DEF Cut
<1> QED BY <1>6, <1>7, <1>8, <1>9, <1>12, <1>14, <1>16, <1>17 DEF MirrorOrder

\* The application calls subscribe.
LEMMA SubscribeKeeps ==
  ASSUME ClientTurn, "overlap" \notin Habits, "resubscribe" \notin Habits, NEW u \in Uris,
         Subscribe(u)
  PROVE  ClientOrder' /\ MirrorOrder'
<1> DEFINE r == [Request("subscribe", {u}, {u} \ Known(view)) EXCEPT !.uri = u]
<1>1. Types /\ Types' /\ MirrorsKept /\ MirrorsKept' /\ HubOrder /\ ClientOrder /\ MirrorOrder
      /\ CopiesTrue
  BY DEF ClientTurn, MirrorOrder
<1>2. /\ Connected /\ ready /\ Restating({u}) = {} /\ u \notin subscribed
      /\ view' = WithMirrors(view, {u})
      /\ up' = SentUp(up, reader, r) /\ waiting' = waiting \cup {r}
      /\ UNCHANGED <<serverVars, down, reader, detached, subscribed, initialized, ready, early,
                     saves, stored>>
  BY DEF Subscribe, Ask, linkState, shakeState, saveState, ClientTurn
<1>3. r.id = nextId /\ r.method = "subscribe" /\ r.created = {u} \ Known(view) /\ r.uris = {u}
  BY DEF Request
<1> HIDE DEF r
<1>4. \A q \in waiting : Restates(q) => q.method = "subscribe" /\ u \notin q.uris
  BY <1>1, <1>2, NobodyRestates
<1>5. u \notin Known(view)
  <2>1. ASSUME NEW q \in waiting PROVE u \notin Taking(q)
    <3>1. q \in Requests
      BY <1>1, Parted DEF ClientParts
    <3> QED BY <1>4, <3>1, RequestMethods
  <2> QED BY <1>1, <1>2, <2>1 DEF ClientOrder
<1>6. /\ Known(view') = Known(view) \cup {u} /\ view'.seen = view.seen
      /\ \A t \in Known(view) : view'.mirrors[t] = view.mirrors[t]
      /\ view'.mirrors[u].confirmed = << >> /\ view'.mirrors[u].applied = 0
      /\ ~view'.mirrors[u].primed /\ view'.mirrors[u].buffered = << >>
  <2>1. view \in Plain(Told)
    BY <1>1, Parted DEF ClientParts
  <2>2. {u} \in SUBSET Uris
    OBVIOUS
  <2> QED BY <1>2, <1>5, <2>1, <2>2, MirrorsWait
<1>7. ClientOrder'
  <2>1. \A q \in waiting' : q = r \/ (q \in waiting /\ ~IsHandshake(q))
    BY <1>1, <1>2 DEF ClientOrder
  <2>2. \A q \in waiting' : ~IsHandshake(q) /\ q.method \notin {"hello", "reconnect"}
    BY <1>3, <2>1 DEF IsHandshake
  <2>3. Known(view') \subseteq subscribed' \cup UNION {Taking(q) : q \in waiting'}
    <3>1. u \in Taking(r) /\ r \in waiting'
      BY <1>2, <1>3, <1>5 DEF Taking
    <3>2. ASSUME NEW t \in Known(view')
          PROVE  t \in subscribed' \/ \E q \in waiting' : t \in Taking(q)
      <4>1. t \in Known(view) => t \in subscribed \/ \E q \in waiting : t \in Taking(q)
        BY <1>1 DEF ClientOrder
      <4>2. t = u \/ t \in Known(view)
        BY <1>6
      <4> QED BY <1>2, <3>1, <4>1, <4>2
    <3> QED BY <3>2
  <2>4. \A q \in waiting' : q.method = "subscribe" => ready' /\ q.uris \cap subscribed' = {}
    BY <1>1, <1>2, <1>3, <2>1 DEF ClientOrder
  <2>5. \A t \in Known(view') : ~view'.mirrors[t].primed =>
          \E q \in waiting' : q.method = "subscribe" /\ t \in q.uris
    BY <1>1, <1>2, <1>3, <1>6 DEF ClientOrder
  <2>6. Connected'
    BY <1>2 DEF Connected
  <2>7. \A t \in Known(view') : view'.mirrors[t].primed =>
          t \in subscribed' /\ view'.mirrors[t].buffered = << >>
    BY <1>1, <1>2, <1>6 DEF ClientOrder
  <2> QED BY <1>1, <1>2, <2>2, <2>3, <2>4, <2>5, <2>6, <2>7 DEF ClientOrder
<1>8. Reads(0)
  <2>1. PICK D \in Seq(DownFrames) : D = Coming
    BY <1>1, <1>2, Parted DEF ComingParts
  <2>2. Coming' = Coming
    BY <1>2 DEF Coming
  <2>3. Shifted(Coming, Coming', 0)
    BY <2>1, <2>2, ShiftedNot
  <2>4. \A q \in waiting' : q \in waiting \/ q.id >= nextId
    <3>1. nextId \in Nat
      BY <1>1, Parted DEF ClientParts
    <3> QED BY <1>2, <1>3, <3>1
  <2> QED BY <1>2, <2>3, <2>4 DEF Reads
<1>9. Settling(0)
  <2>1. ASSUME NEW h \in Had' PROVE h \in Had
    <3>1. Waits(view', u) = {} /\ \A t \in Known(view) : Waits(view', t) = Waits(view, t)
      BY <1>6 DEF Waits
    <3>2. Had' = {view'.seen} \cup {early'[k].seq : k \in DOMAIN early'}
                    \cup UNION {Waits(view', t) : t \in Known(view')}
      BY DEF Had, Known, Waits
    <3>3. h \in {view'.seen} \cup {early'[k].seq : k \in DOMAIN early'}
                 \/ \E t \in Known(view') : h \in Waits(view', t)
      BY <2>1, <3>2
    <3>4. h \in {view'.seen} \cup {early'[k].seq : k \in DOMAIN early'} => h \in Had
      BY <1>2, <1>6 DEF Had
    <3>5. ASSUME NEW t \in Known(view'), h \in Waits(view', t) PROVE h \in Had
      <4>1. t \in Known(view) /\ h \in Waits(view, t)
        BY <1>6, <3>1, <3>5
      <4> QED BY <4>1 DEF Had
    <3> QED BY <3>3, <3>4, <3>5
  <2>2. Anew(u)
    <3>1. Copied(view'.mirrors[u], u)
      BY <1>1, <1>6, StateAtStart, LogTyped DEF Copied, Types
    <3> QED BY <1>4, <1>6, <3>1 DEF Anew
  <2>3. \A t \in Known(view) : Stays(t)
    BY <1>2, <1>6 DEF Stays, SameCopy
  <2>4. early' = early \/ early' = << >>
    BY <1>2
  <2>5. \A h \in Had' : h \in Had \/ (0 = 1 /\ h \in Bears(Coming[1]))
    BY <2>1
  <2>6. \A t \in Known(view') \ gone : Stays(t) \/ Anew(t) \/ Holds(t, 0) \/ Lands(t)
    BY <1>6, <2>2, <2>3
  <2> QED BY <1>8, <2>4, <2>5, <2>6 DEF Settling
<1>10. Upright'
  <2>1. Speaks({r})
    BY <1>1, <1>2, SpeaksOnce
  <2>2. \A f \in {r}, t \in Uris : ~Upsets(f, t)
    BY <1>3 DEF Upsets
  <2>3. up'[reader] = up[reader] \/ up'[reader] = Append(up[reader], r)
    BY <1>1, <1>2, Parted DEF SentUp, ComingParts, Types, WireTypes
  <2>4. \A q \in waiting' : Restates(q) =>
           \/ q \in waiting \/ up'[reader] = up[reader]
           \/ up'[reader] = Append(up[reader], q)
    BY <1>2, <2>3
  <2>5. \A t \in Known(view') : view'.mirrors[t].primed => Claimed(t)
    BY <1>6 DEF Claimed
  <2>6. Upright
    BY <1>1 DEF MirrorOrder
  <2> QED BY <1>1, <1>8, <2>1, <2>2, <2>4, <2>5, <2>6, UprightSpeaks
<1>11. Saving /\ ready'
  BY <1>2 DEF Saving
<1>12. MirrorOrder'
  BY <1>1, <1>7, <1>9, <1>10, <1>11, Settled
<1> QED BY <1>7, <1>12

-----------------------------------------------------------------------------
(* Answers. *)

\* The frame that is read answers request r with this result.
AnswerComes(r, result) ==
  /\ Types /\ Types' /\ MirrorsKept /\ MirrorsKept' /\ HubOrder /\ ClientOrder /\ MirrorOrder
  /\ UNCHANGED <<serverVars, up, reader, detached>>
  /\ Connected /\ 1 \in DOMAIN Coming /\ Shifted(Coming, Coming', 1) /\ ~IsPush(Coming[1])
  /\ r \in waiting /\ r \in Requests /\ result \in Results /\ Fits(r, result)
  /\ AnswerTo(Coming[1], r) /\ result = Coming[1].result
  /\ waiting' = waiting \ {r}
  /\ Saving

\* What is received is an answer that somebody waits for, and fits.
LEMMA AnswerComing ==
  ASSUME ClientTurn, ReceiveAnswer
  PROVE  \E r \in waiting, result \in Results :
           /\ AnswerComes(r, result)
           /\ \/ result.type = "hello" /\ Welcome(r, result)
              \/ result.type \in {"replay", "snapshot"} /\ Resumed(result)
              \/ result.type = "subscribed" /\ Joined(r, result)
              \/ result.type \in {"envelope", "duplicate"} /\ Answered(r, result)
              \/ /\ result.type = "error" /\ view' = Failure(view, r, "error")
                 /\ UNCHANGED <<shakeState, subscribed, writable, initialized>>
<1>1. Types /\ Types' /\ MirrorsKept /\ MirrorsKept' /\ HubOrder /\ ClientOrder /\ MirrorOrder
      /\ UNCHANGED serverVars
  BY DEF ClientTurn
<1>2. Incoming("answer") /\ UNCHANGED <<current, stored, up, reader, detached>>
  BY DEF ReceiveAnswer
<1>3. /\ Connected /\ Coming # << >> /\ Coming[1].kind = "answer" /\ Shifted(Coming, Coming', 1)
      /\ Head(down[reader]) = Coming[1] /\ 1 \in DOMAIN Coming
  BY <1>1, <1>2, IncomingStays
<1>4. ~IsPush(Coming[1])
  BY <1>3 DEF IsPush
<1>5. PICK f : f = Coming[1]
  OBVIOUS
<1>6. f \in Answers
  BY <1>1, <1>3, <1>4, <1>5, Parted DEF ComingParts
<1>7. PICK r \in waiting : r.id = f.id /\
           /\ waiting' = waiting \ {r}
           /\ \/ f.result.type = "hello" /\ Welcome(r, f.result)
              \/ f.result.type \in {"replay", "snapshot"} /\ Resumed(f.result)
              \/ f.result.type = "subscribed" /\ Joined(r, f.result)
              \/ f.result.type \in {"envelope", "duplicate"} /\ Answered(r, f.result)
              \/ /\ f.result.type = "error" /\ view' = Failure(view, r, "error")
                 /\ UNCHANGED <<shakeState, subscribed, writable, initialized>>
           /\ Persist(r.method \in {"hello", "reconnect"} /\ ready')
  BY <1>3, <1>5 DEF ReceiveAnswer
<1>8. f.result \in Results /\ Fits(r, f.result) /\ f.kind = "answer"
  BY <1>6, <1>7, AnswerParts
<1>9. r \in Requests
  BY <1>1, Parted DEF ClientParts
<1>10. \A must : Persist(must) => Saving
  BY <1>2, PersistSaves
<1>11. AnswerTo(f, r)
  BY <1>7, <1>8 DEF AnswerTo
<1>12. AnswerComes(r, f.result)
  BY <1>1, <1>2, <1>3, <1>4, <1>5, <1>7, <1>8, <1>9, <1>10, <1>11 DEF AnswerComes
<1> QED BY <1>7, <1>8, <1>12

\* One answer is read off the stream.
LEMMA AnswerReads ==
  ASSUME NEW r, NEW result, AnswerComes(r, result)
  PROVE  Reads(1) /\ Skips /\ Speaks({}) /\ up' = up
         /\ (\A q \in waiting' : q \in waiting) /\ Bears(Coming[1]) = Marks(result)
         /\ ~IsPush(Coming[1])
<1>1. Reads(1) /\ Skips
  BY DEF AnswerComes, Reads, Skips
<1>2. Speaks({})
  BY SpeaksNot DEF AnswerComes
<1> QED BY <1>1, <1>2 DEF AnswerComes, Bears

\* A request is refused.
LEMMA ErrorKeeps ==
  ASSUME NEW r, NEW result, AnswerComes(r, result), view' = Failure(view, r, "error"),
         UNCHANGED <<shakeState, subscribed, writable, initialized>>
  PROVE  ClientOrder' /\ MirrorOrder'
<1>1. /\ Types /\ Types' /\ MirrorsKept /\ MirrorsKept' /\ HubOrder /\ ClientOrder /\ MirrorOrder
      /\ r \in waiting /\ waiting' = waiting \ {r} /\ Connected /\ Saving /\ Upright
      /\ UNCHANGED <<serverVars, detached, reader, ready, early, initialized, subscribed>>
  BY DEF AnswerComes, shakeState, MirrorOrder
<1>2. ClientOrder' /\ Fewer(view, view', Taking(r))
  BY <1>1, FailureStays
<1>3. Skips /\ Speaks({})
  BY AnswerReads
<1>4. /\ \A q \in waiting' : q \in waiting \/ q.id >= nextId
      /\ \A q \in waiting' : Restates(q) => q \in waiting
  BY <1>1
<1>5. Upright'
  BY <1>1, <1>2, <1>3, <1>4, UprightFewer
<1> QED BY <1>1, <1>2, <1>3, <1>4, <1>5, FewerTurn

\* A dispatch was committed before.
LEMMA DuplicateKeeps ==
  ASSUME NEW r, NEW result, AnswerComes(r, result), result.type = "duplicate",
         Answered(r, result)
  PROVE  ClientOrder' /\ MirrorOrder'
<1>1. /\ Types /\ Types' /\ MirrorsKept' /\ HubOrder /\ ClientOrder /\ MirrorOrder
      /\ r \in waiting /\ waiting' = waiting \ {r} /\ Connected /\ Saving /\ r \in Requests
      /\ UNCHANGED <<serverVars, detached, reader, ready, early, initialized, subscribed>>
  BY DEF AnswerComes, Answered, shakeState
<1>2. r.method = "dispatch" /\ view' = Discard(view, r.uri, r.n, "duplicate")
  BY DEF AnswerComes, Fits, Answered
<1>3. r.n \in Numbers /\ ~Restates(r)
  BY <1>1, <1>2 DEF Requests, Restates
<1>4. view \in Plain(Told)
  BY <1>1, Parted DEF ClientParts
<1>5. Same(view, view')
  <2>1. Witnessed(Told, r.n, "duplicate") /\ "duplicate" \in Outcome \ {"open"}
    BY DEF Witnessed, Outcome
  <2> QED BY <1>2, <1>3, <1>4, <2>1, DiscardSame
<1>6. Skips /\ Speaks({})
  BY AnswerReads
<1>7. /\ \A q \in waiting' : q \in waiting \/ (q.id >= nextId /\ ~Restates(q))
      /\ \A q \in waiting : Restates(q) => q \in waiting'
      /\ \A f \in {}, t \in Uris : ~Upsets(f, t)
  BY <1>1, <1>3
<1> QED BY <1>1, <1>5, <1>6, <1>7, SameTurn

\* An answer follows the broadcast of its envelope.
LEMMA AnswerFollows ==
  ASSUME NEW r, NEW result, AnswerComes(r, result), result.type = "envelope",
         NEW u \in Known(view) \ gone, view.mirrors[u].primed, result.envelope.uri = u
  PROVE  result.envelope.seq <= view.mirrors[u].applied
<1> DEFINE e == result.envelope
           a == view.mirrors[u].applied
<1>1. Types /\ Connected /\ CopiesTrue /\ Stream /\ Cut /\ ClientOrder /\ ClientParts /\ ComingParts
  BY Parted DEF AnswerComes, MirrorOrder
<1>2. e \in Told /\ e.seq \in Nat
  <2>1. e \in Told
    BY ResultParts DEF AnswerComes
  <2> QED BY <1>1, <2>1, ToldTyped DEF Types
<1>3. a \in 0..Len(log) /\ a \in Nat
  <2>1. view \in Plain(Told)
    BY <1>1 DEF ClientParts
  <2>2. a \in Nat
    BY <2>1, PlainParts
  <2>3. Len(log) \in Nat
    BY <1>1, LogTyped DEF ClientParts
  <2> QED BY <1>1, <2>2, <2>3 DEF CopiesTrue, Copied
<1>4. Based(u, a)
  BY DEF Based
<1>5. PICK c \in 0..Len(log) : Reached(c)
  BY <1>1 DEF Cut
<1>6. Between(u, a, c) \subseteq Held(u)
  BY <1>3, <1>4, <1>5 DEF Reached
<1>7. Bears(Coming[1]) = {e.seq} /\ 1 \in DOMAIN Coming
  BY AnswerReads DEF AnswerComes, Marks
<1>8. e.seq <= c
  BY <1>5, <1>7 DEF Reached
<1>9. view.mirrors[u].buffered = << >> /\ early = << >>
  BY <1>1 DEF ClientOrder
<1> HIDE DEF a
<1>10. ASSUME a < e.seq PROVE FALSE
  <2>1. e \in Between(u, a, c)
    BY <1>2, <1>8, <1>10 DEF Between
  <2>2. e \in Range(Coming)
    BY <1>6, <1>9, <2>1 DEF Held, Range
  <2>3. PICK j \in DOMAIN Coming : Coming[j] = e
    BY <2>2 DEF Range
  <2>4. IsPush(Coming[j]) /\ ~IsPush(Coming[1])
    BY <1>1, <1>2, <2>3 DEF ComingParts, AnswerComes
  <2>5. 1 < j
    BY <1>1, <2>3, <2>4 DEF ComingParts
  <2>6. e.seq < Coming[j].seq
    BY <1>1, <1>7, <2>4, <2>5 DEF Stream, InOrder
  <2> QED BY <1>2, <2>3, <2>6
<1> QED BY <1>2, <1>3, <1>10 DEF a

\* The answer to a dispatch brings its envelope.
LEMMA EnvelopeKeeps ==
  ASSUME NEW r, NEW result, AnswerComes(r, result), result.type = "envelope",
         Answered(r, result)
  PROVE  ClientOrder' /\ MirrorOrder'
<1> DEFINE e == result.envelope
           v == Inbound(view, e)
<1>1. /\ Types /\ Types' /\ MirrorsKept' /\ HubOrder /\ ClientOrder /\ MirrorOrder
      /\ r \in waiting /\ waiting' = waiting \ {r} /\ Connected /\ Saving /\ r \in Requests
      /\ UNCHANGED <<serverVars, detached, reader, ready, early, initialized, subscribed>>
      /\ ClientParts /\ HubTypes /\ result = Coming[1].result
  BY Parted DEF AnswerComes, Answered, shakeState, Types
<1>2. r.method = "dispatch" /\ e \in Told /\ e.n = r.n
  BY ResultParts DEF AnswerComes, Fits
<1>3. r.n \in Numbers /\ ~Restates(r) /\ Taking(r) = {} /\ e.seq \in Nat
  BY <1>1, <1>2, ToldTyped DEF Requests, Restates, Taking
<1>4. view \in Plain(Told)
  BY <1>1 DEF ClientParts
<1>5. v \in Plain(Told)
  BY <1>1, <1>2, <1>4, InboundDoes
<1>6. /\ Known(v) = Known(view) /\ SeesOf(view, v, {e.seq})
      /\ \A t \in Known(view) : t # e.uri => SameCopy(view.mirrors[t], v.mirrors[t])
      /\ e.uri \in Known(view) /\ view.mirrors[e.uri].primed => MovedBy(view, v, e)
      /\ e.uri \in Known(view) /\ ~view.mirrors[e.uri].primed =>
           /\ v.mirrors[e.uri].confirmed = view.mirrors[e.uri].confirmed
           /\ v.mirrors[e.uri].applied = view.mirrors[e.uri].applied
           /\ ~v.mirrors[e.uri].primed /\ v.seen = view.seen
           /\ v.mirrors[e.uri].buffered = Append(view.mirrors[e.uri].buffered, e)
      /\ e.uri \notin Known(view) => v.seen = view.seen
  BY <1>1, <1>2, <1>4, InboundDoes
<1>7. Same(v, view')
  <2>1. view' = IF v.outcome[r.n] = "open" THEN Discard(v, r.uri, r.n, OutcomeOf(e)) ELSE v
    BY DEF Answered
  <2>2. Witnessed(Told, r.n, OutcomeOf(e)) /\ OutcomeOf(e) \in Outcome \ {"open"}
    <3>1. e \in Envelopes
      BY <1>1, <1>2, ToldTyped
    <3> HIDE DEF e, v
    <3>2. OutcomeOf(e) \in Outcome \ {"open"} /\ e.accepted = (OutcomeOf(e) = "confirmed")
      BY <3>1 DEF Outcome, OutcomeOf, Envelopes
    <3>3. Witnessed(Told, r.n, OutcomeOf(e))
      BY <1>2, <3>2 DEF Witnessed
    <3> QED BY <3>2, <3>3
  <2> HIDE DEF v, e
  <2>3. Same(v, Discard(v, r.uri, r.n, OutcomeOf(e)))
    BY <1>3, <1>5, <2>2, DiscardSame
  <2> QED BY <2>1, <2>3, SameItself
<1> HIDE DEF v, e
<1>8. Known(view') = Known(view) /\ view'.seen = v.seen
  BY <1>6, <1>7 DEF Same
<1>9. \A t \in Known(view) : SameCopy(v.mirrors[t], view'.mirrors[t])
  BY <1>6, <1>7 DEF Same
<1>10. \A t \in Known(view) : t # e.uri => SameCopy(view.mirrors[t], view'.mirrors[t])
  BY <1>6, <1>9 DEF SameCopy
<1>11. ASSUME NEW t \in Known(view)
       PROVE  /\ view'.mirrors[t].primed = view.mirrors[t].primed
              /\ view.mirrors[t].primed => view'.mirrors[t].buffered = view.mirrors[t].buffered
  <2>1. CASE t # e.uri
    BY <1>10, <2>1 DEF SameCopy
  <2>2. CASE t = e.uri /\ view.mirrors[t].primed
    BY <1>6, <1>9, <2>2 DEF SameCopy, MovedBy
  <2>3. CASE t = e.uri /\ ~view.mirrors[t].primed
    <3>1. ~v.mirrors[t].primed
      BY <1>6, <2>3
    <3>2. view'.mirrors[t].primed = v.mirrors[t].primed
      BY <1>9, <2>3 DEF SameCopy
    <3>3. view'.mirrors[t].primed \in BOOLEAN /\ view.mirrors[t].primed \in BOOLEAN
      <4>1. v.mirrors[t].primed \in BOOLEAN
        BY <1>5, <1>6, PlainParts
      <4> QED BY <1>4, <3>2, <4>1, PlainParts
    <3> QED BY <2>3, <3>1, <3>2, <3>3
  <2> QED BY <2>1, <2>2, <2>3
<1>12. ready \/ view'.seen = view.seen
  <2>1. SUFFICES ASSUME ~ready PROVE view'.seen = view.seen
    OBVIOUS
  <2>2. \A t \in Known(view) : ~view.mirrors[t].primed
    BY <1>1, <2>1 DEF ClientOrder
  <2> QED BY <1>6, <1>8, <2>2
<1>13. Reads(1) /\ Speaks({}) /\ Bears(Coming[1]) = {e.seq} /\ (\A q \in waiting' : q \in waiting)
      /\ ~IsPush(Coming[1])
  BY AnswerReads DEF Marks, e
<1>14. ClientOrder'
  <2>1. ASSUME NEW t \in Known(view')
        PROVE  /\ t \in Known(view) /\ view'.mirrors[t].primed = view.mirrors[t].primed
               /\ view.mirrors[t].primed => t \in subscribed' /\ view'.mirrors[t].buffered = << >>
               /\ t \in subscribed' \cup UNION {Taking(q) : q \in waiting'}
               /\ ready /\ ~view.mirrors[t].primed =>
                    \E q \in waiting' : q.method = "subscribe" /\ t \in q.uris
    <3>1. t \in Known(view)
      BY <1>8
    <3>2. t \in subscribed \/ \E q \in waiting : t \in Taking(q)
      BY <1>1, <3>1 DEF ClientOrder
    <3>3. ready /\ ~view.mirrors[t].primed =>
                    \E q \in waiting : q.method = "subscribe" /\ t \in q.uris
      BY <1>1, <3>1 DEF ClientOrder
    <3> QED BY <1>1, <1>2, <1>3, <1>11, <3>1, <3>2, <3>3 DEF ClientOrder
  <2>2. \/ \A q \in waiting' : q.method # "reconnect"
        \/ subscribed' = subscribed /\ view'.seen = view.seen
    BY <1>1, <1>12, <1>13 DEF ClientOrder, IsHandshake
  <2>3. UNCHANGED <<reader, ready, initialized>> /\ subscribed' \subseteq subscribed /\ early' = early
        /\ (\A q \in waiting' : Restates(q) => q \in waiting) /\ (Connected \/ waiting' = {})
    BY <1>1, <1>13
  <2> QED BY <1>1, <2>1, <2>2, <2>3, CallsStay
<1>15. ASSUME NEW t \in Known(view') \ gone PROVE Stays(t) \/ Holds(t, 1)
  <2>1. t \in Known(view)
    BY <1>8
  <2>2. CASE t # e.uri
    BY <1>1, <1>10, <2>1, <2>2 DEF Stays
  <2>3. CASE t = e.uri /\ view.mirrors[t].primed
    <3>1. e.seq <= view.mirrors[t].applied
      BY <2>1, <2>3, AnswerFollows DEF e
    <3>2. SameCopy(view.mirrors[t], v.mirrors[t])
      BY <1>6, <2>1, <2>3, <3>1 DEF MovedBy
    <3>3. SameCopy(view.mirrors[t], view'.mirrors[t])
      BY <1>9, <2>1, <3>2 DEF SameCopy
    <3> QED BY <1>1, <2>1, <3>3 DEF Stays
  <2>4. CASE t = e.uri /\ ~view.mirrors[t].primed
    <3>1. Coming[1].result.type = "envelope" /\ Coming[1].result.envelope = e
      BY <1>1 DEF e
    <3>2. /\ view'.mirrors[t].confirmed = view.mirrors[t].confirmed
          /\ view'.mirrors[t].applied = view.mirrors[t].applied
          /\ view'.mirrors[t].buffered = Append(view.mirrors[t].buffered, e)
      BY <1>6, <1>9, <2>1, <2>4 DEF SameCopy
    <3>3. ~view'.mirrors[t].primed
      BY <1>11, <2>1, <2>4
    <3> QED BY <1>1, <2>1, <2>4, <3>1, <3>2, <3>3 DEF Holds
  <2> QED BY <2>2, <2>3, <2>4
<1>16. \A h \in Had' : h \in Had \/ h \in Bears(Coming[1])
  <2>1. ASSUME NEW h \in Had' PROVE h \in Had \/ h = e.seq
    <3>1. Had' = {view'.seen} \cup {early'[k].seq : k \in DOMAIN early'}
                    \cup UNION {Waits(view', t) : t \in Known(view')}
      BY DEF Had, Known, Waits
    <3>2. CASE h = view'.seen
      BY <1>6, <1>8, <3>2 DEF SeesOf, Had
    <3>3. CASE h \in {early'[k].seq : k \in DOMAIN early'}
      BY <1>1, <3>3 DEF Had
    <3>4. ASSUME NEW t \in Known(view'), h \in Waits(view', t) PROVE h \in Had \/ h = e.seq
      <4>1. t \in Known(view)
        BY <1>8
      <4>2. CASE view'.mirrors[t].buffered = view.mirrors[t].buffered
        <5>1. h \in Waits(view, t)
          BY <3>4, <4>2 DEF Waits
        <5> QED BY <4>1, <5>1 DEF Had
      <4>3. CASE t = e.uri /\ ~view.mirrors[t].primed
        <5>1. PICK q : q = view.mirrors[t].buffered
          OBVIOUS
        <5>2. q \in Seq(For(Told, t))
          BY <1>4, <4>1, <5>1, PlainParts
        <5>3. view'.mirrors[t].buffered = Append(q, e)
          BY <1>6, <1>9, <4>1, <4>3, <5>1 DEF SameCopy
        <5>4. Append(q, e) = [k \in 1..(Len(q) + 1) |-> IF k = Len(q) + 1 THEN e ELSE q[k]]
          BY <5>2, AppendIs
        <5>5. Len(q) \in Nat /\ DOMAIN q = 1..Len(q)
          BY <5>2
        <5>6. PICK k \in 1..(Len(q) + 1) : h = (IF k = Len(q) + 1 THEN e ELSE q[k]).seq
          BY <3>4, <5>3, <5>4 DEF Waits
        <5>7. CASE k = Len(q) + 1
          BY <5>6, <5>7
        <5>8. CASE k # Len(q) + 1
          <6>1. k \in DOMAIN q /\ h = q[k].seq
            BY <5>5, <5>6, <5>8
          <6>2. h \in Waits(view, t)
            BY <5>1, <6>1 DEF Waits
          <6> QED BY <4>1, <6>2 DEF Had
        <5> QED BY <5>7, <5>8
      <4>4. t # e.uri \/ view.mirrors[t].primed => view'.mirrors[t].buffered = view.mirrors[t].buffered
        BY <1>10, <1>11, <4>1 DEF SameCopy
      <4> QED BY <4>2, <4>3, <4>4
    <3> QED BY <2>1, <3>1, <3>2, <3>3, <3>4
  <2> QED BY <1>13, <2>1
<1>17. Settling(1)
  BY <1>1, <1>13, <1>15, <1>16 DEF Settling
<1>18. Upright'
  <2>1. \A t \in Known(view') : view'.mirrors[t].primed => Claimed(t)
    BY <1>8, <1>11 DEF Claimed
  <2>2. \A f \in {}, t \in Uris : Upsets(f, t) =>
           ~Claimed(t)' /\ \A q \in waiting \cap waiting' : Restates(q) => t \notin q.uris
    OBVIOUS
  <2>3. Upright
    BY <1>1 DEF MirrorOrder
  <2>4. \A q \in waiting' : Restates(q) =>
           \/ q \in waiting \/ up'[reader] = up[reader]
           \/ up'[reader] = Append(up[reader], q)
    BY <1>13
  <2> QED BY <1>1, <1>13, <2>1, <2>2, <2>3, <2>4, UprightSpeaks
<1>19. ready' \/ SeesNoMore
  <2>1. CASE ready
    BY <1>1, <2>1
  <2>2. CASE ~ready
    <3>1. \A t \in Known(view) : view'.mirrors[t].applied = view.mirrors[t].applied
      <4> SUFFICES ASSUME NEW t \in Known(view)
                   PROVE  view'.mirrors[t].applied = view.mirrors[t].applied
        OBVIOUS
      <4>1. ~view.mirrors[t].primed
        BY <1>1, <2>2 DEF ClientOrder
      <4> QED BY <1>6, <1>9, <1>10, <4>1 DEF SameCopy
    <3>2. subscribed \subseteq Known(view)
      BY <1>1, <1>8 DEF MirrorsKept
    <3> QED BY <1>1, <1>12, <2>2, <3>1, <3>2 DEF SeesNoMore
  <2> QED BY <2>1, <2>2
<1>20. MirrorOrder'
  BY <1>1, <1>14, <1>17, <1>18, <1>19, Settled
<1> QED BY <1>14, <1>20

-----------------------------------------------------------------------------
(* Broadcasts. *)

\* The frame that is read is the broadcast of this envelope.
PushComes(e) ==
  /\ Types /\ Types' /\ MirrorsKept /\ MirrorsKept' /\ HubOrder /\ ClientOrder /\ MirrorOrder
  /\ UNCHANGED <<serverVars, up, reader, detached, ready, initialized, subscribed, waiting>>
  /\ Connected /\ 1 \in DOMAIN Coming /\ Shifted(Coming, Coming', 1)
  /\ e = Coming[1] /\ e \in Told
  /\ IF ready THEN view' = Inbound(view, e) /\ early' = early
              ELSE view' = view /\ early' = Append(early, e)
  /\ Saving

\* A mirror that the envelope is no news for, or not yet.
Passes(u, e) ==
  /\ SameCopy(view.mirrors[u], view'.mirrors[u])
  /\ ready => u # e.uri

\* A mirror that takes it, unless it had it already.
Takes(u, e) ==
  /\ ready /\ u = e.uri /\ view.mirrors[u].primed /\ MovedBy(view, view', e)

\* A mirror that holds it back.
Keeps(u, e) ==
  /\ ready /\ u = e.uri /\ ~view.mirrors[u].primed /\ ~view'.mirrors[u].primed
  /\ view'.mirrors[u].confirmed = view.mirrors[u].confirmed
  /\ view'.mirrors[u].applied = view.mirrors[u].applied
  /\ view'.mirrors[u].buffered = Append(view.mirrors[u].buffered, e)

\* What is received is a broadcast of the log.
LEMMA PushComing ==
  ASSUME ClientTurn, ReceivePush
  PROVE  \E e \in Told : PushComes(e)
<1>1. /\ Types /\ Types' /\ MirrorsKept /\ MirrorsKept' /\ HubOrder /\ ClientOrder /\ MirrorOrder
      /\ UNCHANGED serverVars
  BY DEF ClientTurn
<1>2. Incoming("action") /\ UNCHANGED <<reader, current>>
  BY DEF ReceivePush, linkState
<1>3. /\ Connected /\ Coming[1].kind = "action" /\ Shifted(Coming, Coming', 1)
      /\ Head(down[reader]) = Coming[1] /\ 1 \in DOMAIN Coming
  BY <1>1, <1>2, IncomingStays
<1>4. ComingParts
  BY <1>1, <1>3, Parted
<1>5. Coming[1] \in Told
  BY <1>3, <1>4 DEF ComingParts, IsPush
<1>6. PICK e \in Told : e = Coming[1]
  BY <1>5
<1>7. IF ready THEN view' = Inbound(view, e) /\ early' = early
               ELSE view' = view /\ early' = Append(early, e)
  BY <1>3, <1>6 DEF ReceivePush
<1>8. Saving
  <2>1. Persist(FALSE) /\ stored' = stored
    BY DEF ReceivePush
  <2> QED BY <2>1, PersistSaves
<1>9. UNCHANGED <<up, reader, detached, ready, initialized, subscribed, waiting>>
  BY DEF ReceivePush, linkState, callState
<1> QED BY <1>1, <1>3, <1>6, <1>7, <1>8, <1>9 DEF PushComes

\* It is passed by, applied, or held back by each mirror.
LEMMA PushDoes ==
  ASSUME NEW e, PushComes(e)
  PROVE  /\ view' \in Plain(Told) /\ view \in Plain(Told) /\ Known(view') = Known(view)
         /\ \A u \in Known(view) : Passes(u, e) \/ Takes(u, e) \/ Keeps(u, e)
         /\ view'.seen = view.seen \/ (ready /\ view'.seen = e.seq)
<1>1. /\ Types /\ e \in Told /\ HubTypes /\ view \in Plain(Told)
      /\ IF ready THEN view' = Inbound(view, e) ELSE view' = view
  BY Parted DEF PushComes, ClientParts
<1>2. CASE ready
  <2>1. PICK x : x = Inbound(view, e)
    OBVIOUS
  <2>2. /\ x \in Plain(Told) /\ Known(x) = Known(view) /\ SeesOf(view, x, {e.seq})
        /\ \A t \in Known(view) : t # e.uri => SameCopy(view.mirrors[t], x.mirrors[t])
        /\ e.uri \in Known(view) /\ view.mirrors[e.uri].primed => MovedBy(view, x, e)
        /\ e.uri \in Known(view) /\ ~view.mirrors[e.uri].primed =>
             /\ x.mirrors[e.uri].confirmed = view.mirrors[e.uri].confirmed
             /\ x.mirrors[e.uri].applied = view.mirrors[e.uri].applied
             /\ ~x.mirrors[e.uri].primed /\ x.seen = view.seen
             /\ x.mirrors[e.uri].buffered = Append(view.mirrors[e.uri].buffered, e)
    BY <1>1, <2>1, InboundDoes
  <2>3. view' = x
    BY <1>1, <1>2, <2>1
  <2>4. ASSUME NEW u \in Known(view) PROVE Passes(u, e) \/ Takes(u, e) \/ Keeps(u, e)
    <3>1. CASE u # e.uri
      BY <2>2, <2>3, <3>1 DEF Passes
    <3>2. CASE u = e.uri /\ view.mirrors[u].primed
      BY <1>2, <2>2, <2>3, <3>2 DEF Takes
    <3>3. CASE u = e.uri /\ ~view.mirrors[u].primed
      BY <1>2, <2>2, <2>3, <3>3 DEF Keeps
    <3> QED BY <3>1, <3>2, <3>3
  <2>5. view'.seen = view.seen \/ view'.seen = e.seq
    BY <2>2, <2>3 DEF SeesOf
  <2> QED BY <1>1, <1>2, <2>2, <2>3, <2>4, <2>5
<1>3. CASE ~ready
  BY <1>1, <1>3 DEF Passes, SameCopy
<1> QED BY <1>2, <1>3

\* What a mirror keeps of itself.
LEMMA PushPrimes ==
  ASSUME NEW e, PushComes(e), NEW u \in Known(view)
  PROVE  /\ view'.mirrors[u].primed = view.mirrors[u].primed
         /\ view'.mirrors[u].buffered = view.mirrors[u].buffered \/ Keeps(u, e)
         /\ ~view.mirrors[u].primed => view'.mirrors[u].applied = view.mirrors[u].applied
         /\ view.mirrors[u].primed \/ ~ready => ~Keeps(u, e)
<1>1. Passes(u, e) \/ Takes(u, e) \/ Keeps(u, e)
  BY PushDoes
<1>2. view.mirrors[u].primed \in BOOLEAN /\ view'.mirrors[u].primed \in BOOLEAN
  <2>1. view \in Plain(Told) /\ view' \in Plain(Told) /\ Known(view') = Known(view)
    BY PushDoes
  <2> QED BY <2>1, PlainParts
<1> QED BY <1>1, <1>2 DEF Passes, Takes, Keeps, SameCopy, MovedBy

\* It is read off the stream, and above all that was had ...
LEMMA PushReads ==
  ASSUME NEW e, PushComes(e)
  PROVE  /\ Reads(1) /\ Speaks({}) /\ Bears(Coming[1]) = {e.seq}
         /\ IsPush(Coming[1]) /\ e.seq \in Nat /\ e.kind = "action"
         /\ \A h \in Had : h < e.seq
<1>1. Types /\ Connected /\ up' = up /\ e = Coming[1] /\ e \in Told /\ 1 \in DOMAIN Coming
  BY DEF PushComes
<1>2. Speaks({})
  BY <1>1, SpeaksNot
<1>3. e.kind = "action" /\ e.seq \in Nat
  BY <1>1, ToldTyped DEF Types
<1>4. Reads(1)
  BY DEF PushComes, Reads
<1>5. \A h \in Had : h < e.seq
  BY <1>1, <1>3 DEF PushComes, MirrorOrder, Stream, InOrder, IsPush
<1> QED BY <1>1, <1>2, <1>3, <1>4, <1>5 DEF Bears, IsPush

\* ... which now is had.
LEMMA PushHad ==
  ASSUME NEW e, PushComes(e)
  PROVE  \A h \in Had' : h \in Had \/ h = e.seq
<1>0. /\ Types /\ view \in Plain(Told) /\ Known(view') = Known(view)
      /\ (view'.seen = view.seen \/ view'.seen = e.seq)
      /\ early \in Seq(Told) /\ (early' = early \/ early' = Append(early, e))
  BY PushDoes, Parted DEF PushComes, ClientParts
<1> SUFFICES ASSUME NEW h \in Had' PROVE h \in Had \/ h = e.seq
  OBVIOUS
<1>1. Had' = {view'.seen} \cup {early'[k].seq : k \in DOMAIN early'}
                \cup UNION {Waits(view', t) : t \in Known(view')}
  BY DEF Had, Known, Waits
<1>2. CASE h = view'.seen
  BY <1>0, <1>2 DEF Had
<1>3. CASE h \in {early'[k].seq : k \in DOMAIN early'}
  <2>1. CASE early' = early
    BY <1>3, <2>1 DEF Had
  <2>2. CASE early' = Append(early, e)
    <3>1. Append(early, e) = [k \in 1..(Len(early) + 1) |->
                                IF k = Len(early) + 1 THEN e ELSE early[k]]
      BY <1>0, AppendIs
    <3>2. Len(early) \in Nat /\ DOMAIN early = 1..Len(early)
      BY <1>0
    <3>3. PICK k \in 1..(Len(early) + 1) : h = (IF k = Len(early) + 1 THEN e ELSE early[k]).seq
      BY <1>3, <2>2, <3>1
    <3>4. k # Len(early) + 1 => k \in DOMAIN early
      BY <3>2
    <3> QED BY <3>3, <3>4 DEF Had
  <2> QED BY <1>0, <2>1, <2>2
<1>4. ASSUME NEW t \in Known(view'), h \in Waits(view', t) PROVE h \in Had \/ h = e.seq
  <2>1. t \in Known(view)
    BY <1>0
  <2>2. CASE view'.mirrors[t].buffered = view.mirrors[t].buffered
    <3>1. h \in Waits(view, t)
      BY <1>4, <2>2 DEF Waits
    <3> QED BY <2>1, <3>1 DEF Had
  <2>3. CASE Keeps(t, e)
    <3>1. PICK q : q = view.mirrors[t].buffered
      OBVIOUS
    <3>2. q \in Seq(For(Told, t))
      BY <1>0, <2>1, <3>1, PlainParts
    <3>3. view'.mirrors[t].buffered = Append(q, e)
      BY <2>3, <3>1 DEF Keeps
    <3>4. Append(q, e) = [k \in 1..(Len(q) + 1) |-> IF k = Len(q) + 1 THEN e ELSE q[k]]
      BY <3>2, AppendIs
    <3>5. Len(q) \in Nat /\ DOMAIN q = 1..Len(q)
      BY <3>2
    <3>6. PICK k \in 1..(Len(q) + 1) : h = (IF k = Len(q) + 1 THEN e ELSE q[k]).seq
      BY <1>4, <3>3, <3>4 DEF Waits
    <3>7. CASE k = Len(q) + 1
      BY <3>6, <3>7
    <3>8. CASE k # Len(q) + 1
      <4>1. k \in DOMAIN q /\ h = q[k].seq
        BY <3>5, <3>6, <3>8
      <4>2. h \in Waits(view, t)
        BY <3>1, <4>1 DEF Waits
      <4> QED BY <2>1, <4>2 DEF Had
    <3> QED BY <3>7, <3>8
  <2> QED BY <2>1, <2>2, <2>3, PushPrimes
<1> QED BY <1>1, <1>2, <1>3, <1>4

\* A broadcast keeps the order of the calls, ...
LEMMA PushOrdered ==
  ASSUME NEW e, PushComes(e)
  PROVE  ClientOrder'
<1>1. /\ Types /\ ClientOrder /\ Connected /\ MirrorsKept /\ Known(view') = Known(view)
      /\ UNCHANGED <<reader, ready, initialized, subscribed, waiting>>
      /\ (ready => early' = early) /\ (~ready => view' = view)
  BY PushDoes DEF PushComes
<1>2. ASSUME NEW u \in Known(view')
      PROVE  /\ u \in Known(view) /\ view'.mirrors[u].primed = view.mirrors[u].primed
             /\ view.mirrors[u].primed => u \in subscribed' /\ view'.mirrors[u].buffered = << >>
             /\ u \in subscribed' \cup UNION {Taking(r) : r \in waiting'}
             /\ ready /\ ~view.mirrors[u].primed =>
                  \E r \in waiting' : r.method = "subscribe" /\ u \in r.uris
  <2>1. u \in Known(view)
    BY <1>1
  <2>2. view'.mirrors[u].primed = view.mirrors[u].primed
    BY <2>1, PushPrimes
  <2>3. view.mirrors[u].primed => view'.mirrors[u].buffered = view.mirrors[u].buffered
    BY <2>1, PushPrimes
  <2>4. view.mirrors[u].primed => u \in subscribed' /\ view'.mirrors[u].buffered = << >>
    BY <1>1, <2>1, <2>3 DEF ClientOrder
  <2>5. u \in subscribed' \cup UNION {Taking(r) : r \in waiting'}
    BY <1>1, <2>1 DEF ClientOrder
  <2>6. ready /\ ~view.mirrors[u].primed =>
          \E r \in waiting' : r.method = "subscribe" /\ u \in r.uris
    BY <1>1, <2>1 DEF ClientOrder
  <2> QED BY <2>1, <2>2, <2>4, <2>5, <2>6
<1>3. \/ \A r \in waiting' : r.method # "reconnect"
      \/ subscribed' = subscribed /\ view'.seen = view.seen
  BY <1>1 DEF ClientOrder, IsHandshake
<1>4. (Connected /\ ~ready) \/ early' = early
  <2>1. ready \in BOOLEAN
    BY <1>1, Parted DEF ClientParts
  <2> QED BY <1>1, <2>1
<1>5. (\A r \in waiting' : Restates(r) => r \in waiting) /\ subscribed' \subseteq subscribed
      /\ UNCHANGED <<reader, ready, initialized>> /\ (Connected \/ waiting' = {})
  BY <1>1
<1> QED BY <1>1, <1>2, <1>3, <1>4, <1>5, CallsStay

\* ... what the hub was told, ...
LEMMA PushUpright ==
  ASSUME NEW e, PushComes(e)
  PROVE  Upright'
<1>1. /\ Types /\ Types' /\ HubOrder /\ Upright /\ up' = up /\ waiting' = waiting
      /\ Known(view') = Known(view)
  BY PushDoes DEF PushComes, MirrorOrder
<1>2. Reads(1) /\ Speaks({})
  BY PushReads
<1>3. \A u \in Known(view') : view'.mirrors[u].primed => Claimed(u)
  BY <1>1, PushPrimes DEF Claimed
<1>4. \A f \in {}, u \in Uris : Upsets(f, u) =>
           ~Claimed(u)' /\ \A r \in waiting \cap waiting' : Restates(r) => u \notin r.uris
  OBVIOUS
<1>5. \A r \in waiting' : Restates(r) =>
           \/ r \in waiting \/ up'[reader] = up[reader]
           \/ up'[reader] = Append(up[reader], r)
  BY <1>1
<1> QED BY <1>1, <1>2, <1>3, <1>4, <1>5, UprightSpeaks

\* ... the order of the stream, ...
LEMMA PushStream ==
  ASSUME NEW e, PushComes(e)
  PROVE  Stream'
<1>1. /\ Types /\ Types' /\ Connected /\ Reads(1) /\ Bears(Coming[1]) = {e.seq}
      /\ InOrder(Had, early, Coming) /\ (early' = early \/ early' = Append(early, e))
      /\ (\A h \in Had : h < e.seq) /\ ComingParts /\ HadParts /\ e.seq \in Nat
      /\ Shifted(Coming, Coming', 1)
  BY Parted, PushReads DEF PushComes, MirrorOrder, Stream
<1>2. PICK D \in Seq(DownFrames) : D = Coming
  BY <1>1 DEF ComingParts
<1>3. PICK F \in Seq(DownFrames') : F = Coming'
  BY <1>1, PartedNext, FramesKept DEF ComingParts
<1>4. D \in Seq(DownFrames \cup DownFrames') /\ F \in Seq(DownFrames \cup DownFrames')
  BY <1>2, <1>3, SeqMonotone
<1>5. PICK E : E = early'
  OBVIOUS
<1>6. PICK G : G = Had'
  OBVIOUS
<1>7. PICK H : H = Had
  OBVIOUS
<1>8. ASSUME NEW i \in DOMAIN E, NEW j \in DOMAIN E, i < j PROVE E[i].seq < E[j].seq
  <2>1. CASE E = early
    BY <1>1, <1>8, <2>1 DEF InOrder
  <2>2. CASE E = Append(early, e)
    <3>1. early \in Seq(Told) /\ Len(early) \in Nat /\ DOMAIN early = 1..Len(early)
      BY <1>1 DEF HadParts
    <3>2. E = [k \in 1..(Len(early) + 1) |-> IF k = Len(early) + 1 THEN e ELSE early[k]]
      BY <2>2, <3>1, AppendIs
    <3>3. i \in DOMAIN early /\ E[i] = early[i]
      BY <1>8, <3>1, <3>2
    <3>4. CASE j = Len(early) + 1
      <4>1. E[j] = e
        BY <3>1, <3>2, <3>4
      <4>2. early[i].seq \in Had
        BY <3>3 DEF Had
      <4> QED BY <1>1, <3>3, <4>1, <4>2
    <3>5. CASE j # Len(early) + 1
      <4>1. j \in DOMAIN early /\ E[j] = early[j]
        BY <1>8, <3>1, <3>2, <3>5
      <4> QED BY <1>1, <1>8, <3>3, <4>1 DEF InOrder
    <3> QED BY <3>4, <3>5
  <2> QED BY <1>1, <1>5, <2>1, <2>2
<1>9. \A h \in G : h \in H \/ (1 = 1 /\ h \in Bears(D[1]))
  BY <1>1, <1>2, <1>6, <1>7, PushHad
<1>10. InOrder(H, early, D) /\ Shifted(D, F, 1)
  BY <1>1, <1>2, <1>3, <1>7
<1>11. \A i, j \in DOMAIN E : i < j => E[i].seq < E[j].seq
  BY <1>8
<1>12. InOrder(G, E, F)
  BY <1>4, <1>9, <1>10, <1>11, StreamPasses
<1> QED BY <1>3, <1>5, <1>6, <1>12 DEF Stream, InOrder

\* What is on its way to a primed mirror has the next envelope first.
LEMMA PushIsNext ==
  ASSUME NEW e, PushComes(e), ready, NEW u \in Known(view) \ gone, view.mirrors[u].primed,
         u = e.uri
  PROVE  Between(u, view.mirrors[u].applied, e.seq) \subseteq {e}
<1>1. /\ Types /\ Connected /\ ClientOrder /\ Stream /\ Cut /\ CopiesTrue
      /\ ComingParts /\ HadParts /\ ClientParts /\ e = Coming[1] /\ 1 \in DOMAIN Coming
  BY Parted DEF PushComes, MirrorOrder
<1>2. Bears(Coming[1]) = {e.seq} /\ e.seq \in Nat
  BY PushReads
<1>3. PICK c \in 0..Len(log) : Reached(c)
  BY <1>1 DEF Cut
<1>4. e.seq <= c
  BY <1>1, <1>2, <1>3 DEF Reached
<1>5. Copied(view.mirrors[u], u) /\ view.mirrors[u].applied \in Nat
  <2>1. view \in Plain(Told)
    BY <1>1 DEF ClientParts
  <2> QED BY <1>1, <2>1, PlainParts DEF CopiesTrue
<1>6. Len(log) \in Nat
  BY <1>1, LogTyped DEF Types
<1>7. view.mirrors[u].applied \in 0..Len(log)
  BY <1>5, <1>6 DEF Copied
<1>8. Between(u, view.mirrors[u].applied, c) \subseteq Held(u)
  BY <1>3, <1>7 DEF Reached, Based
<1>9. Held(u) = Range(Coming)
  <2>1. view.mirrors[u].buffered = << >> /\ early = << >>
    BY <1>1 DEF ClientOrder
  <2> QED BY <2>1 DEF Held, Range
<1> SUFFICES ASSUME NEW x \in Between(u, view.mirrors[u].applied, e.seq) PROVE x = e
  OBVIOUS
<1>10. x \in Told /\ x.uri = u /\ view.mirrors[u].applied < x.seq /\ x.seq <= e.seq /\ x.seq \in Nat
  BY <1>1, ToldTyped DEF Between, Types
<1>11. x \in Between(u, view.mirrors[u].applied, c)
  BY <1>2, <1>3, <1>4, <1>6, <1>10 DEF Between
<1>12. PICK j \in DOMAIN Coming : x = Coming[j]
  BY <1>8, <1>9, <1>11 DEF Range
<1>13. IsPush(Coming[j])
  BY <1>1, <1>10, <1>12 DEF ComingParts
<1>14. CASE j = 1
  BY <1>1, <1>12, <1>14
<1>15. CASE j # 1
  <2>1. 1 < j
    BY <1>1, <1>15 DEF ComingParts
  <2>2. e.seq < x.seq
    BY <1>1, <1>2, <1>12, <1>13, <2>1 DEF Stream, InOrder
  <2> QED BY <1>2, <1>10, <2>2
<1> QED BY <1>14, <1>15

\* ... and the copies true.
LEMMA PushCopies ==
  ASSUME NEW e, PushComes(e)
  PROVE  CopiesTrue'
<1>1. /\ Types /\ HubTypes /\ Types' /\ CopiesTrue /\ UNCHANGED <<log, gone>>
      /\ Known(view') = Known(view) /\ view \in Plain(Told) /\ view' \in Plain(Told) /\ e \in Told
  BY PushDoes DEF PushComes, MirrorOrder, Types, serverVars, hubVars
<1> SUFFICES ASSUME NEW u \in Known(view) \ gone PROVE Copied(view'.mirrors[u], u)
  BY <1>1 DEF CopiesTrue, Copied
<1>2. Copied(view.mirrors[u], u)
  BY <1>1 DEF CopiesTrue
<1>3. CASE Passes(u, e) \/ Keeps(u, e)
  BY <1>2, <1>3 DEF Passes, Keeps, SameCopy, Copied
<1>4. CASE Takes(u, e)
  <2>1. ready /\ u = e.uri /\ view.mirrors[u].primed /\ MovedBy(view, view', e)
    BY <1>4 DEF Takes
  <2>2. Between(u, view.mirrors[u].applied, e.seq) \subseteq {e}
    BY <2>1, PushIsNext
  <2>3. PICK v \in Plain(Told), w \in Plain(Told) : v = view /\ w = view'
    BY <1>1
  <2>4. /\ e.uri \in Known(v) /\ MovedBy(v, w, e) /\ Copied(v.mirrors[e.uri], e.uri)
        /\ Between(e.uri, v.mirrors[e.uri].applied, e.seq) \subseteq {e}
    BY <1>2, <2>1, <2>2, <2>3
  <2>5. Copied(w.mirrors[e.uri], e.uri)
    BY <1>1, <2>3, <2>4, MovedCopies
  <2> QED BY <2>1, <2>3, <2>5
<1> QED BY <1>3, <1>4, PushDoes

\* What a mirror is based on after a broadcast.
LEMMA PushBased ==
  ASSUME NEW e, PushComes(e), NEW u \in Known(view) \ gone, NEW b, Based(u, b)'
  PROVE  \/ Based(u, b) /\ (Passes(u, e) \/ Keeps(u, e))
         \/ Takes(u, e) /\ b = view'.mirrors[u].applied
<1>1. Types /\ Types' /\ Reads(1)
  BY PushReads DEF PushComes
<1>2. view'.mirrors[u].primed = view.mirrors[u].primed
  BY PushPrimes
<1>3. Passes(u, e) \/ Takes(u, e) \/ Keeps(u, e)
  BY PushDoes
<1>4. ~view.mirrors[u].primed => view'.mirrors[u].applied = view.mirrors[u].applied
  BY PushPrimes
<1>5. CASE view'.mirrors[u].primed /\ b = view'.mirrors[u].applied
  <2>1. Passes(u, e) => Based(u, b)
    BY <1>2, <1>5 DEF Based, Passes, SameCopy
  <2>2. ~Keeps(u, e)
    BY <1>2, <1>5 DEF Keeps
  <2> QED BY <1>3, <1>5, <2>1, <2>2
<1>6. ASSUME NEW i \in 1..(Len(Coming') + 1), Promised(u, b, i)'
      PROVE  Based(u, b) /\ (Passes(u, e) \/ Keeps(u, e))
  <2>1. ~view.mirrors[u].primed
    BY <1>2, <1>6 DEF Promised
  <2>2. Promised(u, b, i + 1) /\ i + 1 \in 1..(Len(Coming) + 1)
    BY <1>1, <1>2, <1>4, <1>6, <2>1, PromisesKept
  <2>3. ~Takes(u, e)
    BY <2>1 DEF Takes
  <2> QED BY <1>3, <2>2, <2>3 DEF Based
<1> QED BY <1>5, <1>6 DEF Based

\* What is on its way still joins what was held back ...
LEMMA PushJoins ==
  ASSUME NEW e, PushComes(e), NEW u \in Known(view) \ gone, NEW b \in 0..Len(log),
         NEW i \in 1..(Len(Coming') + 1), Promised(u, b, i)'
  PROVE  Joins(u, b, i)'
<1>1. /\ Types /\ Types' /\ Reads(1) /\ Bases /\ Connected /\ ready' = ready /\ log' = log
      /\ e.seq \in Nat /\ (\A h \in Had : h < e.seq) /\ HadParts /\ view \in Plain(Told)
  BY Parted, PushReads, PushDoes DEF PushComes, MirrorOrder, serverVars, hubVars
<1>2. view'.mirrors[u].primed = view.mirrors[u].primed
  BY PushPrimes
<1>3. ~view.mirrors[u].primed /\ view'.mirrors[u].applied = view.mirrors[u].applied
  BY <1>2, PushPrimes DEF Promised
<1>4. Promised(u, b, i + 1) /\ i + 1 \in 1..(Len(Coming) + 1)
  BY <1>1, <1>2, <1>3, PromisesKept
<1>5. Joins(u, b, i + 1)
  BY <1>1, <1>4 DEF Bases
<1>6. PICK q : q = view.mirrors[u].buffered
  OBVIOUS
<1>7. /\ q \in Seq(Told) /\ Len(q) \in Nat /\ DOMAIN q = 1..Len(q)
      /\ \A k \in DOMAIN q : q[k].seq \in Had
  BY <1>1, <1>6 DEF HadParts
<1>8. /\ b <= Len(log)
      /\ \A j, k \in DOMAIN q : j < k /\ q[k].seq > b => q[j].seq < q[k].seq
      /\ ~ready => \A k \in DOMAIN q : q[k].seq <= b
      /\ \A j \in DOMAIN Coming :
           j < i + 1 /\ ~IsPush(Coming[j]) /\ Coming[j].result.type = "envelope"
             /\ Coming[j].result.envelope.uri = u => Coming[j].result.envelope.seq <= b
  BY <1>5, <1>6 DEF Joins
<1>9. PICK p : p = view'.mirrors[u].buffered
  OBVIOUS
<1>10. p = q \/ (ready /\ p = Append(q, e))
  BY <1>6, <1>9, PushPrimes DEF Keeps
<1>11. ~ready => \A k \in DOMAIN p : p[k].seq <= b
  BY <1>8, <1>10
<1>12. ASSUME NEW j \in DOMAIN p, NEW k \in DOMAIN p, j < k, p[k].seq > b
       PROVE  p[j].seq < p[k].seq
  <2>1. CASE p = q
    BY <1>8, <1>12, <2>1
  <2>2. CASE p = Append(q, e)
    <3>1. p = [n \in 1..(Len(q) + 1) |-> IF n = Len(q) + 1 THEN e ELSE q[n]]
      BY <1>7, <2>2, AppendIs
    <3>2. j \in DOMAIN q /\ p[j] = q[j]
      BY <1>7, <1>12, <3>1
    <3>3. CASE k = Len(q) + 1
      BY <1>1, <1>7, <3>1, <3>2, <3>3
    <3>4. CASE k # Len(q) + 1
      <4>1. k \in DOMAIN q /\ p[k] = q[k]
        BY <1>7, <1>12, <3>1, <3>4
      <4> QED BY <1>8, <1>12, <3>2, <4>1
    <3> QED BY <3>3, <3>4
  <2> QED BY <1>10, <2>1, <2>2
<1>13. ASSUME NEW j \in DOMAIN Coming', j < i, ~IsPush(Coming'[j]),
              Coming'[j].result.type = "envelope", Coming'[j].result.envelope.uri = u
       PROVE  Coming'[j].result.envelope.seq <= b
  <2>1. j + 1 \in DOMAIN Coming /\ Coming'[j] = Coming[j + 1]
    BY <1>1, FramesKept
  <2>2. j + 1 < i + 1
    <3>1. j \in Nat
      BY <1>1, FramesKept
    <3> QED BY <1>13, <3>1
  <2> QED BY <1>8, <1>13, <2>1, <2>2
<1>14. Joins(u, b, i)' <=>
         /\ b <= Len(log)
         /\ \A j, k \in DOMAIN p : j < k /\ p[k].seq > b => p[j].seq < p[k].seq
         /\ ~ready => \A k \in DOMAIN p : p[k].seq <= b
         /\ \A j \in DOMAIN Coming' :
              j < i /\ ~IsPush(Coming'[j]) /\ Coming'[j].result.type = "envelope"
                /\ Coming'[j].result.envelope.uri = u => Coming'[j].result.envelope.seq <= b
  BY <1>1, <1>9 DEF Joins, IsPush
<1> QED BY <1>8, <1>11, <1>12, <1>13, <1>14

\* ... for every channel that is to be restated.
LEMMA PushBases ==
  ASSUME NEW e, PushComes(e)
  PROVE  Bases'
<1>1. /\ Types /\ Types' /\ Bases /\ Connected /\ UNCHANGED <<log, gone, subs, link, reader, detached>>
      /\ Known(view') = Known(view) /\ CopiesTrue /\ CopiesTrue' /\ ClientParts
  <2>1. /\ Types /\ Types' /\ Bases /\ Connected /\ UNCHANGED <<log, gone, subs, link, reader, detached>>
        /\ CopiesTrue
    BY DEF PushComes, MirrorOrder, serverVars, hubVars, linkVars
  <2>2. Known(view') = Known(view) /\ CopiesTrue'
    BY PushDoes, PushCopies
  <2>3. ClientParts
    BY <2>1, Parted
  <2> QED BY <2>1, <2>2, <2>3
<1>2. ASSUME NEW u \in Known(view) \ gone, NEW b \in 0..Len(log), Based(u, b)'
      PROVE  Linked(u)'
  <2>1. Based(u, b) => Linked(u)
    BY <1>1 DEF Bases
  <2>2. CASE Takes(u, e)
    <3>1. view.mirrors[u].applied \in 0..Len(log)
      <4>1. view \in Plain(Told) /\ Len(log) \in Nat
        BY <1>1, LogTyped DEF ClientParts
      <4>2. view.mirrors[u].applied \in Nat
        BY <4>1, PlainParts
      <4> QED BY <1>1, <4>1, <4>2 DEF CopiesTrue, Copied
    <3>2. Based(u, view.mirrors[u].applied)
      BY <2>2 DEF Based, Takes
    <3>3. Linked(u)
      BY <1>1, <3>1, <3>2 DEF Bases
    <3> QED BY <1>1, <3>3 DEF Linked
  <2>3. Linked(u)
    BY <1>2, <2>1, <2>2, PushBased, <1>1 DEF Linked
  <2> QED BY <1>1, <2>3 DEF Linked
<1>3. ASSUME NEW u \in Known(view) \ gone, NEW b \in 0..Len(log),
             NEW i \in 1..(Len(Coming') + 1), Promised(u, b, i)'
      PROVE  Joins(u, b, i)'
  BY <1>3, PushJoins
<1> QED BY <1>1, <1>2, <1>3 DEF Bases

\* What is not read is still to come, or is held back.
LEMMA PushHeld ==
  ASSUME NEW e, PushComes(e), NEW u \in Known(view), NEW x \in Held(u), x \in Told
  PROVE  x \in Held(u)' \/ (x = e /\ ready /\ ~Keeps(u, e))
<1>1. /\ Types /\ Types' /\ Reads(1) /\ ComingParts /\ HadParts /\ view \in Plain(Told)
      /\ e = Coming[1] /\ (ready => early' = early) /\ (~ready => early' = Append(early, e))
      /\ view' \in Plain(Told)
  BY Parted, PushReads, PushDoes DEF PushComes
<1>2. CASE x \in Range(view.mirrors[u].buffered)
  <2>1. PICK q : q = view.mirrors[u].buffered
    OBVIOUS
  <2>2. q \in Seq(Told) /\ Len(q) \in Nat /\ DOMAIN q = 1..Len(q)
    BY <1>1, <2>1 DEF HadParts
  <2>3. PICK k \in DOMAIN q : x = q[k]
    BY <1>2, <2>1 DEF Range
  <2>4. PICK p : p = view'.mirrors[u].buffered
    OBVIOUS
  <2>5. p = q \/ p = Append(q, e)
    BY <2>1, <2>4, PushPrimes DEF Keeps
  <2>6. Append(q, e) = [n \in 1..(Len(q) + 1) |-> IF n = Len(q) + 1 THEN e ELSE q[n]]
    BY <2>2, AppendIs
  <2>7. k \in DOMAIN p /\ p[k] = x
    BY <2>2, <2>3, <2>5, <2>6
  <2> QED BY <2>4, <2>7 DEF Held, Range
<1>3. CASE x \in Range(early)
  <2>1. early \in Seq(Told) /\ Len(early) \in Nat /\ DOMAIN early = 1..Len(early)
    BY <1>1 DEF HadParts
  <2>2. PICK k \in DOMAIN early : x = early[k]
    BY <1>3 DEF Range
  <2>3. Append(early, e) = [n \in 1..(Len(early) + 1) |-> IF n = Len(early) + 1 THEN e ELSE early[n]]
    BY <2>1, AppendIs
  <2>4. k \in DOMAIN early' /\ early'[k] = x
    BY <1>1, <2>1, <2>2, <2>3
  <2> QED BY <2>4 DEF Held, Range
<1>4. ASSUME NEW j \in DOMAIN Coming, x = Coming[j], j # 1
      PROVE  x \in Held(u)'
  <2>1. j > 1
    BY <1>1, <1>4 DEF ComingParts
  <2>2. j - 1 \in DOMAIN Coming' /\ Coming'[j - 1] = x
    BY <1>1, <1>4, <2>1, FramesKept
  <2> QED BY <2>2 DEF Held, Range
<1>5. CASE x = e /\ ~ready
  <2>1. early \in Seq(Told) /\ Len(early) \in Nat
    BY <1>1 DEF HadParts
  <2>2. Append(early, e) = [n \in 1..(Len(early) + 1) |-> IF n = Len(early) + 1 THEN e ELSE early[n]]
    BY <2>1, AppendIs
  <2>3. Len(early) + 1 \in DOMAIN early' /\ early'[Len(early) + 1] = x
    BY <1>1, <1>5, <2>1, <2>2
  <2> QED BY <2>3 DEF Held, Range
<1>6. CASE x = e /\ Keeps(u, e)
  <2>1. PICK q : q = view.mirrors[u].buffered
    OBVIOUS
  <2>2. q \in Seq(Told) /\ Len(q) \in Nat
    BY <1>1, <2>1 DEF HadParts
  <2>3. PICK p : p = view'.mirrors[u].buffered
    OBVIOUS
  <2>4. p = [n \in 1..(Len(q) + 1) |-> IF n = Len(q) + 1 THEN e ELSE q[n]]
    <3>1. p = Append(q, e)
      BY <1>6, <2>1, <2>3 DEF Keeps
    <3> QED BY <2>2, <3>1, AppendIs
  <2>5. Len(q) + 1 \in DOMAIN p /\ p[Len(q) + 1] = x
    BY <1>6, <2>2, <2>4
  <2> QED BY <2>3, <2>5 DEF Held, Range
<1>7. x \in Range(Coming) => \E j \in DOMAIN Coming : x = Coming[j]
  BY DEF Range
<1> QED BY <1>1, <1>2, <1>3, <1>4, <1>5, <1>6, <1>7 DEF Held

\* What the client misses is held back, or on its way ...
LEMMA PushReaches ==
  ASSUME NEW e, PushComes(e), NEW c \in 0..Len(log), Reached(c),
         NEW u \in Known(view) \ gone, NEW b \in 0..Len(log), Based(u, b)'
  PROVE  Between(u, b, c) \subseteq Held(u)'
<1>1. /\ Types /\ Connected /\ ClientParts /\ e \in Told /\ Len(log) \in Nat /\ e.seq \in Nat
      /\ CopiesTrue
  BY Parted, LogTyped, PushReads DEF PushComes, ClientParts, MirrorOrder
<1> SUFFICES ASSUME NEW x \in Between(u, b, c) PROVE x \in Held(u)'
  OBVIOUS
<1>2. x \in Told /\ x.uri = u /\ b < x.seq /\ x.seq <= c /\ x.seq \in Nat
  BY <1>1, ToldTyped DEF Between, Types
<1>3. CASE Based(u, b) /\ (Passes(u, e) \/ Keeps(u, e))
  <2>1. x \in Held(u)
    BY <1>3 DEF Reached
  <2>2. ASSUME x = e, ready, ~Keeps(u, e) PROVE FALSE
    BY <1>2, <1>3, <2>2 DEF Passes
  <2> QED BY <1>2, <2>1, <2>2, PushHeld
<1>4. CASE Takes(u, e) /\ b = view'.mirrors[u].applied
  <2>1. /\ view.mirrors[u].applied \in Nat /\ view.mirrors[u].applied <= Len(log)
    <3>1. view \in Plain(Told)
      BY <1>1 DEF ClientParts
    <3> QED BY <1>1, <3>1, PlainParts DEF CopiesTrue, Copied
  <2>2. Based(u, view.mirrors[u].applied)
    BY <1>4 DEF Takes, Based
  <2>3. Between(u, view.mirrors[u].applied, c) \subseteq Held(u)
    BY <1>1, <2>1, <2>2 DEF Reached
  <2>4. view.mirrors[u].applied <= b /\ e.seq <= b
    BY <1>1, <1>4, <2>1 DEF Takes, MovedBy, SameCopy
  <2>5. x \in Between(u, view.mirrors[u].applied, c)
    BY <1>1, <1>2, <2>1, <2>4 DEF Between
  <2>6. x # e
    BY <1>1, <1>2, <2>4
  <2> QED BY <1>2, <2>3, <2>5, <2>6, PushHeld
<1> QED BY <1>3, <1>4, PushBased

\* ... up to the same sequence.
LEMMA PushCut ==
  ASSUME NEW e, PushComes(e)
  PROVE  Cut'
<1>1. /\ Types /\ Types' /\ Cut /\ Connected /\ Reads(1) /\ Bears(Coming[1]) = {e.seq}
      /\ UNCHANGED <<log, gone, job, reader, detached>> /\ Known(view') = Known(view)
      /\ 1 \in DOMAIN Coming
  <2>1. /\ Types /\ Types' /\ Cut /\ Connected /\ UNCHANGED <<log, gone, job, reader, detached>>
        /\ 1 \in DOMAIN Coming
    BY DEF PushComes, MirrorOrder, serverVars, hubVars, linkVars
  <2> QED BY <2>1, PushReads, PushDoes
<1>2. PICK c \in 0..Len(log) : Reached(c)
  BY <1>1 DEF Cut
<1>3. /\ reader \notin detached => c = Len(log)
      /\ \A h \in Had : h <= c
      /\ \A i \in DOMAIN Coming : \A h \in Bears(Coming[i]) : h <= c
      /\ job[reader].stage = "answering" => \A h \in Marks(job[reader].result) : h <= c
  BY <1>2 DEF Reached
<1>4. reader' \notin detached' => c = Len(log')
  BY <1>1, <1>3
<1>5. \A h \in Had' : h <= c
  BY <1>1, <1>3, PushHad
<1>6. \A i \in DOMAIN Coming' : \A h \in Bears(Coming'[i]) : h <= c
  BY <1>1, <1>3, FramesKept
<1>7. \A u \in Known(view') \ gone' : \A b \in 0..Len(log') :
        Based(u, b)' => Between(u, b, c)' \subseteq Held(u)'
  <2>1. \A u, b : Between(u, b, c)' = Between(u, b, c)
    BY <1>1 DEF Between, Told
  <2> QED BY <1>1, <1>2, <2>1, PushReaches
<1>8. job'[reader'].stage = "answering" => \A h \in Marks(job'[reader'].result) : h <= c
  BY <1>1, <1>3
<1>9. Reached(c)'
  BY <1>4, <1>5, <1>6, <1>7, <1>8 DEF Reached, Bears, Marks, IsPush
<1> QED BY <1>1, <1>2, <1>9 DEF Cut

\* A broadcast is read.
LEMMA PushKeeps ==
  ASSUME NEW e, PushComes(e)
  PROVE  ClientOrder' /\ MirrorOrder'
<1>1. ClientOrder' /\ Upright' /\ CopiesTrue' /\ Stream' /\ Bases' /\ Cut'
  BY PushOrdered, PushUpright, PushCopies, PushStream, PushBases, PushCut
<1>2. /\ Types /\ Types' /\ MirrorsKept /\ MirrorsKept' /\ Gapless /\ AllKept /\ Saving
      /\ UNCHANGED <<log, gone, ready, subscribed>> /\ (~ready => view' = view)
  BY DEF PushComes, MirrorOrder, serverVars, hubVars
<1>3. Gapless'
  <2>1. CASE ready
    BY <1>1, <1>2, <2>1, ReadyGaplessNext
  <2>2. CASE ~ready
    BY <1>2, <2>2, GaplessStays
  <2> QED BY <2>1, <2>2
<1>4. AllKept'
  BY <1>1, <1>2, <1>3, SavesKept DEF Saving
<1> QED BY <1>1, <1>3, <1>4 DEF MirrorOrder

\* A broadcast keeps what is to be kept.
LEMMA ReceivePushKeeps ==
  ASSUME ClientTurn, ReceivePush
  PROVE  ClientOrder' /\ MirrorOrder'
BY PushComing, PushKeeps

-----------------------------------------------------------------------------
(* Answers that restate channels. *)

\* What an answer says is true.
LEMMA AnswerGood ==
  ASSUME NEW r, NEW result, AnswerComes(r, result)
  PROVE  GoodResult(r, result)
<1>1. /\ HubOrder /\ Connected /\ 1 \in DOMAIN Coming /\ r \in waiting
      /\ AnswerTo(Coming[1], r) /\ result = Coming[1].result
  BY DEF AnswerComes
<1>2. GoodResult(r, Coming[1].result)
  BY <1>1 DEF HubOrder, AnswersGood
<1> QED BY <1>1, <1>2

\* A handshake is alone, and about every channel.
LEMMA ShakeWhole ==
  ASSUME NEW r, NEW result, AnswerComes(r, result), IsHandshake(r)
  PROVE  /\ ~ready /\ Known(view) \subseteq r.uris /\ subscribed \subseteq r.uris
         /\ \A q \in waiting : Restates(q) => q = r
         /\ \A u \in Known(view) : ~view.mirrors[u].primed
         /\ Restates(r)
<1>1. ClientOrder /\ Connected /\ r \in waiting /\ r \in Requests /\ waiting \in SUBSET Requests
  BY Parted DEF AnswerComes, ClientParts
<1>2. ~ready /\ \A q \in waiting : Restates(q) => q = r
  BY <1>1 DEF ClientOrder
<1>3. \A u \in Known(view) : ~view.mirrors[u].primed
  BY <1>1, <1>2 DEF ClientOrder
<1>4. subscribed \subseteq r.uris
  BY <1>1 DEF ClientOrder, IsHandshake
<1>5. ASSUME NEW u \in Known(view) PROVE u \in r.uris
  <2>1. u \in subscribed \/ \E q \in waiting : u \in Taking(q)
    BY <1>1 DEF ClientOrder
  <2>2. ASSUME NEW q \in waiting, u \in Taking(q) PROVE u \in r.uris
    <3>1. q \in Requests
      BY <1>1
    <3>2. Restates(q) /\ Taking(q) \subseteq q.uris
      BY <2>2, <3>1, RequestMethods
    <3> QED BY <1>2, <2>2, <3>2
  <2> QED BY <1>4, <2>1, <2>2
<1>6. Restates(r)
  BY <1>1, RequestMethods
<1> QED BY <1>2, <1>3, <1>4, <1>5, <1>6

\* A handshake has succeeded: every channel that is left has landed.
LEMMA ShakeKeeps ==
  ASSUME NEW r, NEW result, AnswerComes(r, result), IsHandshake(r),
         ready', initialized', early' = << >>,
         Known(view') \subseteq Known(view), Known(view') \subseteq subscribed',
         \A u \in Known(view') : view'.mirrors[u].primed /\ view'.mirrors[u].buffered = << >>,
         \A u \in Known(view') \ gone : Lands(u),
         view'.seen \in Had \/ view'.seen \in Marks(result)
  PROVE  ClientOrder' /\ MirrorOrder'
<1>1. /\ Types /\ Types' /\ MirrorsKept' /\ HubOrder /\ ClientOrder /\ MirrorOrder /\ Connected
      /\ Connected' /\ r \in waiting /\ waiting' = waiting \ {r} /\ Saving
      /\ AnswerTo(Coming[1], r) /\ 1 \in DOMAIN Coming /\ waiting \in SUBSET Requests
  BY Parted DEF AnswerComes, ClientParts, Connected
<1>2. /\ ~ready /\ Known(view) \subseteq r.uris
      /\ (\A q \in waiting : Restates(q) => q = r) /\ Restates(r)
  BY ShakeWhole
<1>3. \A q \in waiting' : ~Restates(q) /\ ~IsHandshake(q) /\ q.method # "subscribe"
  <2> SUFFICES ASSUME NEW q \in waiting'
               PROVE  ~Restates(q) /\ ~IsHandshake(q) /\ q.method # "subscribe"
    OBVIOUS
  <2>1. ~Restates(q) /\ q \in Requests
    BY <1>1, <1>2
  <2> QED BY <2>1, RequestMethods
<1>4. ClientOrder'
  BY <1>1, <1>3 DEF ClientOrder, IsHandshake
<1>5. Reads(1) /\ Speaks({}) /\ Bears(Coming[1]) = Marks(result) /\ up' = up /\ ~IsPush(Coming[1])
  BY AnswerReads
<1>6. Upright'
  <2>1. \A u \in Known(view') : view'.mirrors[u].primed => Claimed(u)
    BY <1>1, <1>2 DEF Claimed
  <2>2. \A f \in {}, t \in Uris : Upsets(f, t) =>
           ~Claimed(t)' /\ \A q \in waiting \cap waiting' : Restates(q) => t \notin q.uris
    OBVIOUS
  <2>3. \A q \in waiting' : Restates(q) =>
           \/ q \in waiting \/ up'[reader] = up[reader]
           \/ up'[reader] = Append(up[reader], q)
    BY <1>5
  <2>4. Upright
    BY <1>1 DEF MirrorOrder
  <2> QED BY <1>1, <1>5, <2>1, <2>2, <2>3, <2>4, UprightSpeaks
<1>7. Settling(1)
  <2>1. ASSUME NEW h \in Had' PROVE h \in Had \/ h \in Bears(Coming[1])
    <3>1. Had' = {view'.seen} \cup {early'[k].seq : k \in DOMAIN early'}
                    \cup UNION {Waits(view', t) : t \in Known(view')}
      BY DEF Had, Known, Waits
    <3>2. \A t \in Known(view') : Waits(view', t) = {}
      BY DEF Waits
    <3>3. h = view'.seen
      BY <2>1, <3>1, <3>2
    <3> QED BY <1>5, <3>3
  <2> QED BY <1>5, <2>1 DEF Settling
<1>8. MirrorOrder'
  BY <1>1, <1>4, <1>6, <1>7, Settled
<1> QED BY <1>4, <1>8

-----------------------------------------------------------------------------
(* Between what a mirror is restated from and what is still on its way. *)

\* What the client holds of channel u is what was committed from b on.
LEMMA HeldIs ==
  ASSUME Types, Connected, Cut, Stream, NEW u \in Known(view) \ gone, NEW b \in 0..Len(log),
         Based(u, b), NEW x \in Told, x.uri = u, b < x.seq, NEW h \in Had, x.seq <= h
  PROVE  x \in Range(view.mirrors[u].buffered) \cup Range(early)
<1>1. ComingParts /\ HadParts /\ ClientParts /\ HubTypes /\ Len(log) \in Nat
  BY Parted, LogTyped DEF ClientParts
<1>2. PICK c \in 0..Len(log) : Reached(c)
  BY DEF Cut
<1>3. h <= c /\ h \in Nat
  BY <1>1, <1>2 DEF Reached, HadParts
<1>4. x.seq \in Nat
  BY <1>1, ToldTyped
<1>5. x \in Between(u, b, c)
  BY <1>1, <1>3, <1>4 DEF Between
<1>6. x \in Held(u)
  BY <1>2, <1>5 DEF Reached
<1>7. ASSUME NEW j \in DOMAIN Coming, x = Coming[j] PROVE FALSE
  <2>1. IsPush(Coming[j])
    BY <1>1, <1>7 DEF ComingParts
  <2>2. h < x.seq
    BY <1>7, <2>1 DEF Stream, InOrder
  <2> QED BY <1>3, <1>4, <2>2
<1> QED BY <1>6, <1>7 DEF Held, Range

\* The envelopes of a channel that a restated mirror takes leave no gap.
LEMMA ChainSnapshot ==
  ASSUME Types, Connected, Bases, Cut, Stream, ClientOrder,
         NEW u \in Known(view) \ gone, NEW b \in 0..Len(log), Promised(u, b, 1)
  PROVE  Chained(b, u, view.mirrors[u].buffered, early, << >>)
<1>1. ComingParts /\ HadParts /\ ClientParts /\ HubTypes /\ Len(log) \in Nat /\ Len(Coming) \in Nat
  BY Parted, LogTyped DEF ClientParts, ComingParts
<1>2. Based(u, b)
  BY <1>1 DEF Based
<1>3. Joins(u, b, 1)
  BY <1>1 DEF Bases
<1>4. PICK q : q = view.mirrors[u].buffered
  OBVIOUS
<1>5. /\ q \in Seq(Told) /\ Len(q) \in Nat /\ DOMAIN q = 1..Len(q)
      /\ \A k \in DOMAIN q : q[k] \in Told /\ q[k].uri = u /\ q[k].seq \in Nat /\ q[k].seq \in Had
  BY <1>1, <1>4 DEF HadParts
<1>6. /\ early \in Seq(Told) /\ Len(early) \in Nat /\ DOMAIN early = 1..Len(early)
      /\ \A k \in DOMAIN early : early[k].seq \in Had
      /\ Had \subseteq Nat
  BY <1>1 DEF HadParts, Had
<1>7. /\ \A j, k \in DOMAIN q : j < k /\ q[k].seq > b => q[j].seq < q[k].seq
      /\ ~ready => \A k \in DOMAIN q : q[k].seq <= b
  BY <1>3, <1>4 DEF Joins
<1>8. ready => early = << >>
  BY DEF ClientOrder
<1>9. \A x \in Told : x.uri = u /\ b < x.seq => \A h \in Had : x.seq <= h =>
           x \in Range(q) \cup Range(early)
  BY <1>2, <1>4, HeldIs
<1>10. \A x \in Told : x.seq \in Nat
  BY <1>1, ToldTyped
<1>11. Following(b, u, q)
  <2> SUFFICES ASSUME NEW k \in DOMAIN q, NEW x \in Between(u, b, q[k].seq)
               PROVE  x \in {q[j] : j \in 1..k}
    BY DEF Following
  <2>1. x \in Told /\ x.uri = u /\ b < x.seq /\ x.seq <= q[k].seq
    BY DEF Between
  <2>2. q[k].seq > b
    BY <1>5, <1>10, <2>1
  <2>3. ready
    BY <1>5, <1>7, <2>2
  <2>4. x \in Range(q)
    <3>1. Range(early) = {}
      BY <1>8, <2>3 DEF Range
    <3> QED BY <1>5, <1>9, <2>1, <3>1
  <2>5. PICK j \in DOMAIN q : x = q[j]
    BY <2>4 DEF Range
  <2>6. j <= k
    <3> SUFFICES ASSUME k < j PROVE FALSE
      BY <1>5
    <3>1. q[k].seq < q[j].seq
      BY <1>7, <2>1, <2>5
    <3> QED BY <1>5, <1>10, <2>1, <2>5, <3>1
  <2>7. j \in 1..k
    BY <1>5, <2>6
  <2> QED BY <2>5, <2>7
<1>12. ASSUME NEW d \in Nat, Past(d, b, u, q) PROVE Following(d, u, early)
  <2> SUFFICES ASSUME NEW k \in DOMAIN early, NEW x \in Between(u, d, early[k].seq)
               PROVE  x \in {early[j] : j \in 1..k}
    BY DEF Following
  <2>1. x \in Told /\ x.uri = u /\ d < x.seq /\ x.seq <= early[k].seq /\ b <= d
    BY <1>12 DEF Between, Past
  <2>2. b < x.seq
    BY <1>1, <1>10, <1>12, <2>1
  <2>3. x \in Range(q) \cup Range(early)
    BY <1>6, <1>9, <2>1, <2>2
  <2>4. x \notin Range(q)
    <3> SUFFICES ASSUME NEW j \in DOMAIN q, x = q[j] PROVE FALSE
      BY DEF Range
    <3>1. x.seq <= d
      BY <1>5, <1>12 DEF Past
    <3> QED BY <1>10, <1>12, <2>1, <3>1
  <2>5. PICK j \in DOMAIN early : x = early[j]
    BY <2>3, <2>4 DEF Range
  <2>6. j <= k
    <3> SUFFICES ASSUME k < j PROVE FALSE
      BY <1>6
    <3>1. early[k].seq < early[j].seq
      BY DEF Stream, InOrder
    <3> QED BY <1>6, <1>10, <2>1, <2>5, <3>1
  <2>7. j \in 1..k
    BY <1>6, <2>6
  <2> QED BY <2>5, <2>7
<1>13. \A d \in Nat : Following(d, u, << >>)
  BY DEF Following
<1> QED BY <1>4, <1>11, <1>12, <1>13 DEF Chained

\* A mirror that was restated as its answer promised.
LEMMA SnapshotLands ==
  ASSUME Types, Connected, Bases, Cut, Stream, ClientOrder,
         NEW u \in Known(view) \ gone, NEW b \in 0..Len(log), Promised(u, b, 1),
         NEW m, m = view'.mirrors[u], m.applied \in Nat,
         Caught(m, u, StateAt(log, u, b), b, view.mirrors[u].buffered, early, << >>)
  PROVE  Lands(u)
<1>1. ComingParts /\ HadParts /\ Len(log) \in Nat /\ Len(Coming) \in Nat
  BY Parted, LogTyped DEF ClientParts, ComingParts
<1>2. Chained(b, u, view.mirrors[u].buffered, early, << >>)
  BY ChainSnapshot
<1>3. Copied(m, u) /\ m.primed
  BY <1>1, <1>2 DEF Caught
<1>4. /\ b <= m.applied
      /\ \A k \in DOMAIN view.mirrors[u].buffered : view.mirrors[u].buffered[k].seq <= m.applied
      /\ \A k \in DOMAIN early : early[k].uri = u => early[k].seq <= m.applied
  BY <1>1 DEF Caught, Past, HadParts
<1>5. Based(u, b)
  BY <1>1 DEF Based
<1>6. Between(u, m.applied, b) = {}
  <2> SUFFICES ASSUME NEW x \in Told, m.applied < x.seq, x.seq <= b PROVE FALSE
    BY DEF Between
  <2>1. x.seq \in Nat
    BY ToldTyped DEF Types
  <2> QED BY <1>4, <2>1
<1> QED BY <1>3, <1>4, <1>5, <1>6 DEF Lands

\* What an answer restates a channel from was promised.
LEMMA ServedPromise ==
  ASSUME NEW r, NEW result, AnswerComes(r, result), Restates(r),
         result.type \in {"hello", "subscribed", "snapshot"},
         NEW v \in Plain(Told), Known(v) \subseteq Known(view),
         \A u \in Known(v) : SameCopy(view.mirrors[u], v.mirrors[u]),
         NEW us, Unserved(v, us, result.snapshots) \subseteq Stateless,
         NEW t \in result.snapshots \cup Owns(v, Unserved(v, us, result.snapshots)),
         t.uri \in Known(v) \ gone, t.uri \in r.uris, ~view.mirrors[t.uri].primed
  PROVE  /\ t \in Snapshots /\ t.fromSeq \in 0..Len(log)
         /\ t.state = StateAt(log, t.uri, t.fromSeq)
         /\ Promised(t.uri, t.fromSeq, 1)
<1>1. /\ Types /\ HubTypes /\ CopiesTrue /\ r \in waiting /\ 1 \in DOMAIN Coming
      /\ AnswerTo(Coming[1], r) /\ result = Coming[1].result /\ result \in Results
  BY DEF AnswerComes, MirrorOrder, Types
<1>2. Len(log) \in Nat /\ 1 \in 1..(Len(Coming) + 1)
  <2>1. ComingParts
    BY Parted DEF AnswerComes
  <2> QED BY <1>1, <2>1, LogTyped DEF ComingParts
<1>3. CASE t \in result.snapshots
  <2>1. TrueSnapshots(result.snapshots)
    BY AnswerGood DEF GoodResult
  <2>2. t \in Snapshots
    BY <1>1, <1>3, ResultParts
  <2>3. Brings(result, r, t.uri, t.fromSeq)
    BY <1>3 DEF Brings
  <2> QED BY <1>1, <1>2, <1>3, <2>1, <2>2, <2>3 DEF TrueSnapshots, Promised, InFrame
<1>4. CASE t \in Owns(v, Unserved(v, us, result.snapshots))
  <2>1. PICK u \in Unserved(v, us, result.snapshots) \cap Known(v) : t = Own(v, u)
    BY <1>4 DEF Owns
  <2>2. /\ t.uri = u /\ t.state = v.mirrors[u].confirmed /\ t.fromSeq = v.mirrors[u].applied
        /\ t = [uri |-> u, state |-> v.mirrors[u].confirmed, fromSeq |-> v.mirrors[u].applied]
    BY <2>1 DEF Own
  <2>3. /\ u \in Uris /\ v.mirrors[u].applied \in Nat /\ v.mirrors[u].confirmed \in Seq(Int)
    BY <2>1, PlainParts
  <2>4. t \in Snapshots
    BY <2>2, <2>3 DEF Snapshots
  <2>5. Copied(view.mirrors[u], u) /\ SameCopy(view.mirrors[u], v.mirrors[u])
    BY <1>1, <2>1, <2>2 DEF CopiesTrue
  <2>6. t.state = StateAt(log, u, t.fromSeq) /\ t.fromSeq <= Len(log)
        /\ t.fromSeq = view.mirrors[u].applied
    BY <2>2, <2>5 DEF SameCopy, Copied
  <2>7. Brings(result, r, u, t.fromSeq)
    BY <2>1, <2>6 DEF Brings
  <2> QED BY <1>1, <1>2, <2>2, <2>3, <2>4, <2>6, <2>7 DEF Promised, InFrame
<1> QED BY <1>3, <1>4

\* A mirror that was restated, with nothing after it.
LEMMA AsOfCaught ==
  ASSUME NEW v, NEW w \in Plain(Told), NEW u \in Known(w), NEW c, NEW a,
         AsOf(v, w, u, c, a), w.mirrors[u].primed
  PROVE  Caught(w.mirrors[u], u, c, a, v.mirrors[u].buffered, << >>, << >>)
<1>1. w.mirrors[u].applied \in Nat
  BY PlainParts
<1>2. a <= w.mirrors[u].applied /\ \A h \in Waits(v, u) : h <= w.mirrors[u].applied
  BY DEF AsOf
<1>3. \A k \in DOMAIN v.mirrors[u].buffered : v.mirrors[u].buffered[k].seq <= w.mirrors[u].applied
  BY <1>2 DEF Waits
<1>4. Past(w.mirrors[u].applied, a, u, v.mirrors[u].buffered)
      /\ Past(w.mirrors[u].applied, a, u, << >>)
  BY <1>2, <1>3 DEF Past
<1>5. c = StateAt(log, u, a) /\ a <= Len(log) /\ Following(a, u, v.mirrors[u].buffered)
         => Copied(w.mirrors[u], u)
  BY DEF AsOf
<1>6. w.mirrors[u].buffered = << >>
  BY DEF AsOf
<1>7. Chained(a, u, v.mirrors[u].buffered, << >>, << >>) => Following(a, u, v.mirrors[u].buffered)
  BY DEF Chained
<1> QED BY <1>4, <1>5, <1>6, <1>7 DEF Caught

\* What a subscription's answer does to the mirrors.
LEMMA JoinedDoes ==
  ASSUME NEW r, NEW result, AnswerComes(r, result), result.type = "subscribed", Joined(r, result)
  PROVE  /\ r.method = "subscribe" /\ r.uris = {r.uri} /\ ready /\ Restates(r)
         /\ r.uri \in Known(view) /\ ~view.mirrors[r.uri].primed
         /\ view' \in Plain(Told) /\ Known(view') = Known(view)
         /\ \A t \in Known(view) : t # r.uri => SameCopy(view.mirrors[t], view'.mirrors[t])
         /\ view'.mirrors[r.uri].primed /\ view'.mirrors[r.uri].buffered = << >>
         /\ view'.seen \in Had \/ view'.seen \in Marks(result)
         /\ r.uri \notin gone => Lands(r.uri)
         /\ Rises(r.uri, result.snapshots)
<1> DEFINE ss == result.snapshots
           us == IF ss = {} THEN {r.uri} ELSE {}
           all == ss \cup Owns(view, Unserved(view, us, ss))
<1>1. /\ Types /\ HubTypes /\ ClientOrder /\ MirrorsKept /\ r \in waiting /\ r \in Requests
      /\ Bases /\ Cut /\ Stream /\ Connected /\ result \in Results /\ Fits(r, result)
      /\ view \in Plain(Told) /\ HadParts
  BY Parted DEF AnswerComes, MirrorOrder, Types, ClientParts
<1>2. r.method = "subscribe" /\ ss \in SUBSET Snapshots /\ IsFiniteSet(ss)
  BY <1>1, ResultParts DEF Fits
<1>3. r.uris = {r.uri} /\ r.uri \in Uris /\ Restates(r)
  BY <1>1, <1>2, RequestMethods
<1>4. ready /\ r.uri \notin subscribed /\ r.uri \in Known(view)
  BY <1>1, <1>2, <1>3 DEF ClientOrder, MirrorsKept
<1>5. ~view.mirrors[r.uri].primed
  BY <1>1, <1>4 DEF ClientOrder
<1>6. TrueSnapshots(ss) /\ r.uris \ Stateless = {t.uri : t \in ss}
  BY AnswerGood DEF GoodResult
<1>7. OneEach(ss) /\ IsFiniteSet(us)
  BY <1>6, FS_EmptySet, FS_Singleton DEF TrueSnapshots, OneEach
<1>8. Unserved(view, us, ss) \subseteq Stateless /\ Unserved(view, us, ss) \subseteq {r.uri}
  BY <1>3, <1>6 DEF Unserved
<1>9. \A t \in all : t.uri = r.uri
  BY <1>3, <1>6, <1>8 DEF Owns, Own
<1>10. \E t \in all : t.uri = r.uri
  <2>1. CASE ss = {}
    <3>1. r.uri \in Unserved(view, us, ss)
      BY <1>4, <1>5, <2>1 DEF Unserved
    <3>2. Own(view, r.uri) \in all /\ Own(view, r.uri).uri = r.uri
      BY <1>4, <3>1 DEF Owns, Own
    <3> QED BY <3>2
  <2>2. CASE ss # {}
    BY <1>9, <2>2
  <2> QED BY <2>1, <2>2
<1>11. view' = ApplyAll(view, ss, us)
  BY DEF Joined
<1> HIDE DEF ss, us
<1>12. view' \in Plain(Told) /\ Renewed(view, view', all, {t.fromSeq : t \in ss})
  <2>1. PICK x : x = ApplyAll(view, ss, us)
    OBVIOUS
  <2>2. x \in Plain(Told) /\ Renewed(view, x, ss \cup Owns(view, Unserved(view, us, ss)), {t.fromSeq : t \in ss})
    BY <1>1, <1>2, <1>7, <2>1, ApplyAllTakes
  <2> QED BY <1>11, <2>1, <2>2
<1>13. PICK t \in all : t.uri = r.uri
  BY <1>10
<1>14. /\ Known(view') = Known(view)
       /\ \A u \in Known(view) : (\A q \in all : q.uri # u) => SameCopy(view.mirrors[u], view'.mirrors[u])
       /\ view'.mirrors[r.uri].primed /\ AsOf(view, view', r.uri, t.state, t.fromSeq)
       /\ SeesOf(view, view', AllWaits(view) \cup {q.fromSeq : q \in ss})
  BY <1>4, <1>12, <1>13 DEF Renewed
<1>15. view'.seen \in Had \/ view'.seen \in Marks(result)
  <2>1. AllWaits(view) \subseteq Had /\ view.seen \in Had
    BY DEF AllWaits, Had
  <2>2. {q.fromSeq : q \in ss} \subseteq Marks(result)
    BY DEF Marks, ss
  <2> QED BY <1>14, <2>1, <2>2 DEF SeesOf
<1>16. ASSUME r.uri \notin gone PROVE Lands(r.uri)
  <2>1. /\ t.fromSeq \in 0..Len(log) /\ t.state = StateAt(log, t.uri, t.fromSeq)
        /\ Promised(t.uri, t.fromSeq, 1)
    <3>1. \A u \in Known(view) : SameCopy(view.mirrors[u], view.mirrors[u])
      BY DEF SameCopy
    <3>2. result.type \in {"hello", "subscribed", "snapshot"}
      OBVIOUS
    <3>3. Unserved(view, us, result.snapshots) \subseteq Stateless
          /\ t \in result.snapshots \cup Owns(view, Unserved(view, us, result.snapshots))
      BY <1>8 DEF ss
    <3> QED BY <1>1, <1>3, <1>4, <1>5, <1>13, <1>16, <3>1, <3>2, <3>3, ServedPromise
  <2>2. PICK b \in 0..Len(log), u \in Known(view) \ gone : b = t.fromSeq /\ u = r.uri
    BY <1>4, <1>16, <2>1
  <2>3. PICK w \in Plain(Told) : w = view'
    BY <1>12
  <2>4. Caught(w.mirrors[u], u, t.state, b, view.mirrors[u].buffered, << >>, << >>)
    <3>1. u \in Known(w) /\ AsOf(view, w, u, t.state, b) /\ w.mirrors[u].primed
      BY <1>4, <1>14, <2>2, <2>3
    <3> QED BY <2>3, <3>1, AsOfCaught
  <2>5. early = << >>
    BY <1>1, <1>4 DEF ClientOrder
  <2>6. PICK m : m = w.mirrors[u]
    OBVIOUS
  <2>7. /\ m = view'.mirrors[u] /\ Promised(u, b, 1)
        /\ Caught(m, u, StateAt(log, u, b), b, view.mirrors[u].buffered, early, << >>)
    BY <1>13, <2>1, <2>2, <2>3, <2>4, <2>5, <2>6
  <2>8. m.applied \in Nat
    BY <1>14, <2>2, <2>3, <2>6, PlainParts
  <2>9. Lands(u)
    BY <1>1, <2>7, <2>8, SnapshotLands
  <2> QED BY <2>2, <2>9
<1>17. view'.mirrors[r.uri].buffered = << >>
  BY <1>14 DEF AsOf
<1>18. \A u \in Known(view) : u # r.uri => SameCopy(view.mirrors[u], view'.mirrors[u])
  BY <1>9, <1>14
<1>19. Rises(r.uri, result.snapshots)
  <2>1. t \in ss \/ t = Own(view, r.uri)
    BY <1>13 DEF Owns, Own
  <2>2. t.fromSeq <= view'.mirrors[r.uri].applied
    BY <1>14 DEF AsOf
  <2> QED BY <1>13, <2>1, <2>2 DEF Rises, Own, ss
<1> QED BY <1>2, <1>3, <1>4, <1>5, <1>12, <1>14, <1>15, <1>16, <1>17, <1>18, <1>19

\* A subscription is answered.
LEMMA JoinedKeeps ==
  ASSUME NEW r, NEW result, AnswerComes(r, result), result.type = "subscribed", Joined(r, result)
  PROVE  ClientOrder' /\ MirrorOrder'
<1>1. /\ Types /\ Types' /\ MirrorsKept /\ MirrorsKept' /\ HubOrder /\ ClientOrder /\ MirrorOrder
      /\ Connected /\ r \in waiting /\ waiting' = waiting \ {r} /\ Saving /\ waiting \in SUBSET Requests
      /\ AnswerTo(Coming[1], r) /\ 1 \in DOMAIN Coming
      /\ UNCHANGED <<serverVars, reader, detached, ready, early, initialized>>
      /\ subscribed' = subscribed \cup {r.uri} /\ view \in Plain(Told)
  BY Parted DEF AnswerComes, ClientParts, Joined, shakeState
<1>2. /\ r.method = "subscribe" /\ r.uris = {r.uri} /\ ready /\ Restates(r)
      /\ r.uri \in Known(view) /\ ~view.mirrors[r.uri].primed
      /\ view' \in Plain(Told) /\ Known(view') = Known(view)
      /\ \A t \in Known(view) : t # r.uri => SameCopy(view.mirrors[t], view'.mirrors[t])
      /\ view'.mirrors[r.uri].primed /\ view'.mirrors[r.uri].buffered = << >>
      /\ view'.seen \in Had \/ view'.seen \in Marks(result)
      /\ r.uri \notin gone => Lands(r.uri)
  BY JoinedDoes
<1>3. early' = << >> /\ initialized' /\ Connected'
  BY <1>1, <1>2 DEF ClientOrder, Connected
<1>4. \A u \in Known(view') : view'.mirrors[u].primed =>
        u \in subscribed' /\ view'.mirrors[u].buffered = << >>
  <2> SUFFICES ASSUME NEW u \in Known(view'), view'.mirrors[u].primed
               PROVE  u \in subscribed' /\ view'.mirrors[u].buffered = << >>
    OBVIOUS
  <2>1. CASE u = r.uri
    BY <1>1, <1>2, <2>1
  <2>2. CASE u # r.uri
    <3>1. view.mirrors[u].primed /\ view'.mirrors[u].buffered = view.mirrors[u].buffered
      BY <1>2, <2>2 DEF SameCopy
    <3> QED BY <1>1, <1>2, <3>1 DEF ClientOrder
  <2> QED BY <2>1, <2>2
<1>5. Known(view') \subseteq subscribed' \cup UNION {Taking(q) : q \in waiting'}
  <2> SUFFICES ASSUME NEW u \in Known(view'), u \notin subscribed'
               PROVE  \E q \in waiting' : u \in Taking(q)
    OBVIOUS
  <2>1. u # r.uri /\ u \in Known(view) /\ u \notin subscribed
    BY <1>1, <1>2
  <2>2. PICK q \in waiting : u \in Taking(q)
    BY <1>1, <2>1 DEF ClientOrder
  <2>3. q # r
    <3>1. Taking(r) \subseteq r.uris
      BY <1>1, RequestMethods
    <3> QED BY <1>2, <2>1, <2>2, <3>1
  <2> QED BY <1>1, <2>2, <2>3
<1>6. \A q \in waiting' : ~IsHandshake(q)
  BY <1>1, <1>2 DEF ClientOrder
<1>7. ASSUME NEW q \in waiting', q.method = "subscribe"
      PROVE  ready' /\ q.uris \cap subscribed' = {}
  <2>1. q \in waiting /\ q # r /\ q \in Requests
    BY <1>1
  <2>2. Restates(q)
    BY <1>7, <2>1, RequestMethods
  <2>3. q.uris \cap r.uris = {}
    BY <1>1, <1>2, <2>1, <2>2 DEF MirrorsKept
  <2>4. q.uris \cap subscribed = {}
    BY <1>1, <1>7, <2>1 DEF ClientOrder
  <2> QED BY <1>1, <1>2, <2>3, <2>4
<1>8. ASSUME NEW u \in Known(view'), ~view'.mirrors[u].primed
      PROVE  \E q \in waiting' : q.method = "subscribe" /\ u \in q.uris
  <2>1. u # r.uri /\ u \in Known(view)
    BY <1>2, <1>8
  <2>2. ~view.mirrors[u].primed
    BY <1>2, <1>8, <2>1 DEF SameCopy
  <2>3. PICK q \in waiting : q.method = "subscribe" /\ u \in q.uris
    BY <1>1, <1>2, <2>1, <2>2 DEF ClientOrder
  <2>4. q # r
    BY <1>2, <2>1, <2>3
  <2> QED BY <1>1, <2>3, <2>4
<1>9. ClientOrder'
  <2>1. ready' /\ (~Connected' => waiting' = {} /\ early' = << >>)
    BY <1>1, <1>2, <1>3
  <2>2. \A q \in waiting' : q.method # "hello" /\ q.method # "reconnect"
    BY <1>6 DEF IsHandshake
  <2> QED BY <1>3, <1>4, <1>5, <1>6, <1>7, <1>8, <2>1, <2>2 DEF ClientOrder
<1>10. Reads(1) /\ Speaks({}) /\ Bears(Coming[1]) = Marks(result) /\ up' = up /\ ~IsPush(Coming[1])
  BY AnswerReads
<1>11. Upright'
  <2>1. \A u \in Known(view') : view'.mirrors[u].primed => Claimed(u)
    <3> SUFFICES ASSUME NEW u \in Known(view'), view'.mirrors[u].primed PROVE Claimed(u)
      OBVIOUS
    <3>1. CASE u = r.uri
      BY <1>1, <1>2, <3>1 DEF Claimed
    <3>2. CASE u # r.uri
      BY <1>2, <3>2 DEF Claimed, SameCopy
    <3> QED BY <3>1, <3>2
  <2>2. \A f \in {}, t \in Uris : Upsets(f, t) =>
           ~Claimed(t)' /\ \A q \in waiting \cap waiting' : Restates(q) => t \notin q.uris
    OBVIOUS
  <2>3. \A q \in waiting' : Restates(q) =>
           \/ q \in waiting \/ up'[reader] = up[reader]
           \/ up'[reader] = Append(up[reader], q)
    BY <1>10
  <2>4. Upright
    BY <1>1 DEF MirrorOrder
  <2> QED BY <1>1, <1>10, <2>1, <2>2, <2>3, <2>4, UprightSpeaks
<1>12. Settling(1)
  <2>1. ASSUME NEW h \in Had' PROVE h \in Had \/ h \in Bears(Coming[1])
    <3>1. Had' = {view'.seen} \cup {early'[k].seq : k \in DOMAIN early'}
                    \cup UNION {Waits(view', t) : t \in Known(view')}
      BY DEF Had, Known, Waits
    <3>2. \A t \in Known(view') : Waits(view', t) \subseteq Had
      <4> SUFFICES ASSUME NEW t \in Known(view') PROVE Waits(view', t) \subseteq Had
        OBVIOUS
      <4>1. CASE t = r.uri
        BY <1>2, <4>1 DEF Waits
      <4>2. CASE t # r.uri
        <5>1. Waits(view', t) = Waits(view, t) /\ t \in Known(view)
          BY <1>2, <4>2 DEF Waits, SameCopy
        <5> QED BY <5>1 DEF Had
      <4> QED BY <4>1, <4>2
    <3>3. h = view'.seen \/ \E t \in Known(view') : h \in Waits(view', t)
      BY <1>3, <2>1, <3>1
    <3> QED BY <1>2, <1>10, <3>2, <3>3
  <2>2. ASSUME NEW u \in Known(view') \ gone PROVE Stays(u) \/ Lands(u)
    BY <1>1, <1>2 DEF Stays
  <2> QED BY <1>1, <1>10, <2>1, <2>2 DEF Settling
<1>13. ready'
  BY <1>1, <1>2
<1>14. MirrorOrder'
  BY <1>1, <1>9, <1>11, <1>12, <1>13, Settled
<1> QED BY <1>9, <1>14

\* What an answer restates the channels of us from.
Served(result, v, us) == result.snapshots \cup Owns(v, Unserved(v, us, result.snapshots))

\* The channels of a handshake are restated, and then take what arrived early.
Reshaken(result, v, us, w) ==
  /\ result.type \in {"hello", "snapshot"}
  /\ v \in Plain(Told) /\ Known(v) \subseteq Known(view)
  /\ \A u \in Known(v) : SameCopy(view.mirrors[u], v.mirrors[u])
  /\ v.seen \in Had \/ v.seen \in Marks(result)
  /\ Unserved(v, us, result.snapshots) \subseteq Stateless
  /\ \A u \in Known(v) : \E t \in Served(result, v, us) : t.uri = u
  /\ w \in Plain(Told)
  /\ Renewed(v, w, Served(result, v, us), {t.fromSeq : t \in result.snapshots})
  /\ Same(InboundAll(w, early), view')

\* A handshake leaves every mirror primed, and a true copy.
LEMMA ShakeLands ==
  ASSUME NEW r, NEW result, AnswerComes(r, result), IsHandshake(r), NEW v, NEW us, NEW w,
         Reshaken(result, v, us, w)
  PROVE  /\ Known(view') = Known(v)
         /\ \A u \in Known(view') : view'.mirrors[u].primed /\ view'.mirrors[u].buffered = << >>
         /\ \A u \in Known(view') \ gone : Lands(u)
         /\ \A u \in Known(view') : Rises(u, result.snapshots)
         /\ view'.seen \in Had \/ view'.seen \in Marks(result)
<1>0. /\ result.type \in {"hello", "snapshot"}
      /\ v \in Plain(Told) /\ Known(v) \subseteq Known(view) /\ w \in Plain(Told)
      /\ \A u \in Known(v) : SameCopy(view.mirrors[u], v.mirrors[u])
      /\ v.seen \in Had \/ v.seen \in Marks(result)
      /\ Unserved(v, us, result.snapshots) \subseteq Stateless
      /\ Same(InboundAll(w, early), view')
  BY DEF Reshaken
<1> PICK all : all = Served(result, v, us)
  OBVIOUS
<1> PICK B : B = {t.fromSeq : t \in result.snapshots}
  OBVIOUS
<1>01. (\A u \in Known(v) : \E t \in all : t.uri = u) /\ Renewed(v, w, all, B)
  BY DEF Reshaken
<1>1. /\ Types /\ HubTypes /\ ClientOrder /\ r \in waiting /\ r \in Requests
      /\ Bases /\ Cut /\ Stream /\ Connected /\ result \in Results
      /\ view \in Plain(Told) /\ HadParts /\ early \in Seq(Told)
  BY Parted DEF AnswerComes, MirrorOrder, Types, ClientParts
<1>2. all \in SUBSET Snapshots
  <2>1. result.snapshots \in SUBSET Snapshots
    BY <1>0, <1>1, ResultParts
  <2>2. Owns(v, Unserved(v, us, result.snapshots)) \in SUBSET Snapshots
    <3> SUFFICES ASSUME NEW u \in Known(v) PROVE Own(v, u) \in Snapshots
      BY DEF Owns
    <3>1. u \in Uris /\ v.mirrors[u].applied \in Nat /\ v.mirrors[u].confirmed \in Seq(Int)
      BY <1>0, PlainParts
    <3> QED BY <3>1 DEF Own, Snapshots
  <2> QED BY <2>1, <2>2 DEF Served
<1>3. PICK x : x = InboundAll(w, early)
  OBVIOUS
<1>4. /\ x \in Plain(Told) /\ Known(x) = Known(v)
      /\ \A t \in all : t.uri \in Known(v) =>
           Caught(x.mirrors[t.uri], t.uri, t.state, t.fromSeq,
                  v.mirrors[t.uri].buffered, early, << >>)
      /\ SeesOf(v, x, (AllWaits(v) \cup B) \cup SeqsOf(early))
  <2>1. PICK s \in Seq(Told) : s = early
    BY <1>1
  <2>2. v \in Plain(Told) /\ w \in Plain(Told)
    BY <1>0
  <2>3. /\ x \in Plain(Told) /\ Known(x) = Known(v)
        /\ \A t \in all : t.uri \in Known(v) =>
             Caught(x.mirrors[t.uri], t.uri, t.state, t.fromSeq,
                    v.mirrors[t.uri].buffered, s, << >>)
        /\ SeesOf(v, x, (AllWaits(v) \cup B) \cup SeqsOf(s))
    BY <1>01, <1>1, <1>2, <1>3, <2>1, <2>2, RenewedThenFed
  <2> QED BY <2>1, <2>3
<1>5. /\ Known(view') = Known(v) /\ view'.seen = x.seen
      /\ \A u \in Known(v) : SameCopy(x.mirrors[u], view'.mirrors[u])
  BY <1>0, <1>3, <1>4 DEF Same
<1>6. ~ready /\ Known(view) \subseteq r.uris /\ Restates(r)
      /\ \A u \in Known(view) : ~view.mirrors[u].primed
  BY ShakeWhole
<1>7. ASSUME NEW u \in Known(v)
      PROVE  /\ view'.mirrors[u].primed /\ view'.mirrors[u].buffered = << >>
             /\ u \notin gone => Lands(u)
             /\ Rises(u, result.snapshots)
  <2>1. PICK t \in all : t.uri = u
    BY <1>01
  <2>2. PICK m : m = x.mirrors[u]
    OBVIOUS
  <2>3. Caught(m, u, t.state, t.fromSeq, v.mirrors[u].buffered, early, << >>)
    BY <1>4, <2>1, <2>2
  <2>4. m.primed /\ m.buffered = << >>
    BY <2>3 DEF Caught
  <2>5. view'.mirrors[u].primed /\ view'.mirrors[u].buffered = << >>
    BY <1>5, <2>2, <2>4 DEF SameCopy
  <2>6. ASSUME u \notin gone PROVE Lands(u)
    <3>1. u \in Known(view) \ gone /\ u \in r.uris /\ ~view.mirrors[u].primed
      BY <1>0, <1>6, <2>6
    <3>2. result.type \in {"hello", "subscribed", "snapshot"}
      BY <1>0
    <3>3. t \in result.snapshots \cup Owns(v, Unserved(v, us, result.snapshots))
      BY DEF Served
    <3>4. t.uri \in Known(v) \ gone /\ t.uri \in r.uris /\ ~view.mirrors[t.uri].primed
      BY <2>1, <2>6, <3>1
    <3>5. /\ t.fromSeq \in 0..Len(log) /\ t.state = StateAt(log, t.uri, t.fromSeq)
          /\ Promised(t.uri, t.fromSeq, 1)
      <4>1. \A q \in Known(v) : SameCopy(view.mirrors[q], v.mirrors[q])
        BY <1>0
      <4>2. Unserved(v, us, result.snapshots) \subseteq Stateless /\ Known(v) \subseteq Known(view)
           /\ v \in Plain(Told)
        BY <1>0
      <4> QED BY <1>6, <3>2, <3>3, <3>4, <4>1, <4>2, ServedPromise
    <3>6. PICK b \in 0..Len(log) : b = t.fromSeq
      BY <3>5
    <3>7. PICK n : n = view'.mirrors[u]
      OBVIOUS
    <3>8. SameCopy(m, n)
      BY <1>5, <2>2, <3>7
    <3>9. v.mirrors[u].buffered = view.mirrors[u].buffered
      BY <1>0 DEF SameCopy
    <3>10. Caught(n, u, StateAt(log, u, b), b, view.mirrors[u].buffered, early, << >>)
      BY <2>1, <2>3, <3>5, <3>6, <3>8, <3>9 DEF Caught, SameCopy, Copied
    <3>11. n.applied \in Nat
      <4>1. m.applied \in Nat
        BY <1>4, <2>2, PlainParts
      <4> QED BY <3>8, <4>1 DEF SameCopy
    <3>12. Promised(u, b, 1)
      BY <2>1, <3>5, <3>6
    <3> QED BY <1>1, <3>1, <3>7, <3>10, <3>11, <3>12, SnapshotLands
  <2>7. Rises(u, result.snapshots)
    <3>1. t.fromSeq <= m.applied
      BY <2>3 DEF Caught, Past
    <3>2. view'.mirrors[u].applied = m.applied
      BY <1>5, <2>2 DEF SameCopy
    <3>3. t \in result.snapshots \/ t = Own(v, u)
      BY <2>1 DEF Served, Owns, Own
    <3>4. Own(v, u).fromSeq = view.mirrors[u].applied
      BY <1>0 DEF Own, SameCopy
    <3> QED BY <2>1, <3>1, <3>2, <3>3, <3>4 DEF Rises
  <2> QED BY <2>5, <2>6, <2>7
<1>8. view'.seen \in Had \/ view'.seen \in Marks(result)
  <2>1. AllWaits(v) \subseteq Had
    <3> SUFFICES ASSUME NEW u \in Known(v) PROVE Waits(v, u) \subseteq Had
      BY DEF AllWaits
    <3>1. Waits(v, u) = Waits(view, u) /\ u \in Known(view)
      BY <1>0 DEF Waits, SameCopy
    <3> QED BY <3>1 DEF Had
  <2>2. B \subseteq Marks(result)
    BY <1>0 DEF Marks
  <2>3. SeqsOf(early) \subseteq Had
    BY DEF SeqsOf, Had
  <2> QED BY <1>0, <1>4, <1>5, <2>1, <2>2, <2>3 DEF SeesOf
<1> QED BY <1>5, <1>7, <1>8

\* The session has seen a sequence.
LEMMA SeePlain ==
  ASSUME NEW E, NEW v \in Plain(E), NEW n \in Nat
  PROVE  /\ See(v, n) \in Plain(E) /\ Known(See(v, n)) = Known(v)
         /\ See(v, n).mirrors = v.mirrors
         /\ See(v, n).seen = v.seen \/ See(v, n).seen = n
<1>1. See(v, n) \in Plain(E) /\ See(v, n).mirrors = v.mirrors /\ Known(See(v, n)) = Known(v)
  BY SeeGood DEF Plain
<1>2. v = [mirrors |-> v.mirrors, seen |-> v.seen, outcome |-> v.outcome]
  BY PlainParts
<1>3. See(v, n).seen = v.seen \/ See(v, n).seen = n
  BY <1>2 DEF See
<1> QED BY <1>1, <1>3

\* Envelopes leave a plain view plain.
LEMMA InboundAllPlain ==
  ASSUME HubTypes, NEW v \in Plain(Told), NEW s \in Seq(Told)
  PROVE  InboundAll(v, s) \in Plain(Told)
<1>1. Told \in SUBSET Envelopes
  BY LogTyped
<1> QED BY <1>1, InboundAllGood DEF Plain

\* Views that are the same copies are renewed alike.
LEMMA RenewedSame ==
  ASSUME NEW v, NEW w, NEW x, NEW ss, NEW B, Renewed(v, w, ss, B), Same(w, x)
  PROVE  Renewed(v, x, ss, B)
<1>1. Known(w) = Known(v) /\ Known(x) = Known(v) /\ x.seen = w.seen
  BY DEF Renewed, Same
<1>2. \A u \in Known(v) : SameCopy(w.mirrors[u], x.mirrors[u])
  BY <1>1 DEF Same
<1>3. \A u \in Known(v) : (\A t \in ss : t.uri # u) => SameCopy(v.mirrors[u], x.mirrors[u])
  BY <1>2 DEF Renewed, SameCopy
<1>4. ASSUME NEW t \in ss, t.uri \in Known(v)
      PROVE  x.mirrors[t.uri].primed /\ AsOf(v, x, t.uri, t.state, t.fromSeq)
  <2>1. w.mirrors[t.uri].primed /\ AsOf(v, w, t.uri, t.state, t.fromSeq)
    BY <1>4 DEF Renewed
  <2>2. SameCopy(w.mirrors[t.uri], x.mirrors[t.uri])
    BY <1>2, <1>4
  <2> QED BY <2>1, <2>2, AsOfSame DEF SameCopy
<1>5. SeesOf(v, x, AllWaits(v) \cup B)
  BY <1>1 DEF Renewed, SeesOf
<1> QED BY <1>1, <1>3, <1>4, <1>5 DEF Renewed

\* The answer to hello.
LEMMA WelcomeKeeps ==
  ASSUME NEW r, NEW result, AnswerComes(r, result), result.type = "hello", Welcome(r, result)
  PROVE  ClientOrder' /\ MirrorOrder' /\ Risen(result.snapshots)
<1> DEFINE ss == result.snapshots
           us == r.uris
<1>1. /\ Types /\ HubTypes /\ r \in waiting /\ r \in Requests
      /\ result \in Results /\ Fits(r, result) /\ view \in Plain(Told)
  BY Parted DEF AnswerComes, Types, ClientParts
<1>2. /\ r.method = "hello" /\ ss \in SUBSET Snapshots /\ IsFiniteSet(ss)
      /\ result.serverSeq \in Nat
  BY <1>1, ResultParts DEF Fits
<1>3. us \subseteq Uris /\ IsFiniteSet(us) /\ IsHandshake(r)
  <2>1. us \subseteq Uris
    BY <1>1, RequestMethods
  <2> QED BY <1>2, <2>1, ClientAssumption, FS_Subset DEF IsHandshake
<1>4. /\ ~ready /\ Known(view) \subseteq us /\ subscribed \subseteq us
      /\ \A u \in Known(view) : ~view.mirrors[u].primed
  BY <1>3, ShakeWhole
<1>5. TrueSnapshots(ss) /\ us \ Stateless = {t.uri : t \in ss}
  BY AnswerGood DEF GoodResult
<1>6. OneEach(ss)
  BY <1>5 DEF TrueSnapshots, OneEach
<1>7. /\ view' = InboundAll(ApplyAll(See(view, result.serverSeq), ss, us), early)
      /\ subscribed' = subscribed \cup us /\ ready' /\ early' = << >> /\ initialized'
  BY DEF Welcome, Finished
<1> HIDE DEF ss, us
<1>8. PICK v \in Plain(Told) : /\ v = See(view, result.serverSeq) /\ Known(v) = Known(view)
                               /\ v.mirrors = view.mirrors
                               /\ v.seen = view.seen \/ v.seen = result.serverSeq
  BY <1>1, <1>2, SeePlain
<1>9. PICK w : w = ApplyAll(v, ss, us)
  OBVIOUS
<1>10. w \in Plain(Told) /\ Renewed(v, w, ss \cup Owns(v, Unserved(v, us, ss)), {t.fromSeq : t \in ss})
  BY <1>1, <1>2, <1>3, <1>6, <1>9, ApplyAllTakes
<1>11. Unserved(v, us, ss) \subseteq Stateless
  BY <1>5 DEF Unserved
<1>12. ASSUME NEW u \in Known(v) PROVE \E t \in Served(result, v, us) : t.uri = u
  <2>1. CASE \E t \in ss : t.uri = u
    BY <2>1 DEF Served, ss
  <2>2. CASE \A t \in ss : t.uri # u
    <3>1. u \in Unserved(v, us, ss)
      BY <1>4, <1>8, <2>2 DEF Unserved
    <3>2. Own(v, u) \in Owns(v, Unserved(v, us, ss)) /\ Own(v, u).uri = u
      BY <3>1 DEF Owns, Own
    <3> QED BY <3>2 DEF Served, ss
  <2> QED BY <2>1, <2>2
<1>13. Reshaken(result, v, us, w)
  <2>1. v.seen \in Had \/ v.seen \in Marks(result)
    BY <1>8 DEF Had, Marks
  <2>2. \A u \in Known(v) : SameCopy(view.mirrors[u], v.mirrors[u])
    BY <1>8 DEF SameCopy
  <2>3. Same(InboundAll(w, early), view')
    BY <1>7, <1>8, <1>9, SameItself
  <2>4. Renewed(v, w, Served(result, v, us), {t.fromSeq : t \in result.snapshots})
    BY <1>10 DEF Served, ss
  <2>5. Unserved(v, us, result.snapshots) \subseteq Stateless
    BY <1>11 DEF ss
  <2> QED BY <1>8, <1>10, <1>12, <2>1, <2>2, <2>3, <2>4, <2>5 DEF Reshaken
<1>14. /\ Known(view') = Known(v)
       /\ \A u \in Known(view') : view'.mirrors[u].primed /\ view'.mirrors[u].buffered = << >>
       /\ \A u \in Known(view') \ gone : Lands(u)
       /\ \A u \in Known(view') : Rises(u, result.snapshots)
       /\ view'.seen \in Had \/ view'.seen \in Marks(result)
  BY <1>3, <1>13, ShakeLands
<1>15. Known(view') \subseteq Known(view) /\ Known(view') \subseteq subscribed'
  BY <1>4, <1>7, <1>8, <1>14
<1>16. Risen(result.snapshots)
  BY <1>14, <1>15 DEF Risen
<1> QED BY <1>3, <1>7, <1>14, <1>15, <1>16, ShakeKeeps

\* The answer to reconnect that restates.
LEMMA SnapshotKeeps ==
  ASSUME NEW r, NEW result, AnswerComes(r, result), result.type = "snapshot", Resumed(result)
  PROVE  ClientOrder' /\ MirrorOrder' /\ Risen(result.snapshots)
<1> DEFINE ss == result.snapshots
           lost == result.missing
           v == ForgetAll(view, lost)
           given == {t.uri : t \in ss} \cap Known(v)
           w == RestateAll(v, ss)
           dropped == (Known(v) \ given) \ Stateless
           us == (Known(v) \ given) \cap Stateless
           x == PrimeAll(w, us)
           y == ForgetAll(x, dropped)
           z == InboundAll(y, early)
<1>1. /\ Types /\ HubTypes /\ r \in waiting /\ r \in Requests /\ early \in Seq(Told)
      /\ result \in Results /\ Fits(r, result) /\ view \in Plain(Told)
  BY Parted DEF AnswerComes, Types, ClientParts
<1>2. /\ r.method = "reconnect" /\ ss \in SUBSET Snapshots /\ IsFiniteSet(ss)
      /\ lost \in SUBSET Uris /\ IsFiniteSet(lost)
  <2>1. r.method = "reconnect" /\ ss \in SUBSET Snapshots /\ IsFiniteSet(ss) /\ lost \in SUBSET Uris
    BY <1>1, ResultParts DEF Fits
  <2> QED BY <2>1, ClientAssumption, FS_Subset
<1>3. IsHandshake(r)
  BY <1>2 DEF IsHandshake
<1>4. /\ ~ready /\ Known(view) \subseteq r.uris
      /\ \A u \in Known(view) : ~view.mirrors[u].primed
  BY <1>3, ShakeWhole
<1>5. /\ TrueSnapshots(ss) /\ (r.uris \ lost) \ Stateless = {t.uri : t \in ss}
  BY AnswerGood DEF GoodResult
<1>6. OneEach(ss)
  BY <1>5 DEF TrueSnapshots, OneEach
<1>7. view' = SettleAll(z, DOMAIN z.outcome, "lost")
  BY DEF Resumed, ResumedBySnapshot, Finished, RestateAll, RestatedBy, PrimeAll
<1>8. subscribed' = subscribed \ (lost \cup dropped) /\ ready' /\ early' = << >> /\ initialized'
  BY DEF Resumed, ResumedBySnapshot
<1> HIDE DEF ss, lost
<1>9. v \in Plain(Told) /\ Fewer(view, v, lost)
  BY <1>1, <1>2, ForgetAllFewer
<1> HIDE DEF v
<1>10. dropped = {} /\ us \subseteq Stateless /\ us \subseteq Uris /\ Known(v) \subseteq Uris
  <2>1. Known(v) = Known(view) \ lost
    BY <1>9 DEF Fewer
  <2>2. Known(v) \subseteq Uris
    BY <1>9, PlainParts
  <2>3. Known(v) \ Stateless \subseteq {t.uri : t \in ss}
    BY <1>4, <1>5, <2>1
  <2> QED BY <2>2, <2>3
<1>11. IsFiniteSet(us) /\ IsFiniteSet(dropped)
  BY <1>10, ClientAssumption, FS_Subset, FS_EmptySet
<1>12. \A u \in Known(v) \ us : \E t \in ss : t.uri = u
  BY <1>10
<1> HIDE DEF us, dropped, given
<1>13. w \in Plain(Told) /\ Renewed(v, w, ss, {t.fromSeq : t \in ss})
  BY <1>1, <1>2, <1>6, <1>9, RestateAllTakes
<1> HIDE DEF w
<1>14. x \in Plain(Told)
       /\ Renewed(v, x, ss \cup Owns(v, Unserved(v, us, ss)), {t.fromSeq : t \in ss})
  <2>1. PICK B : B = {t.fromSeq : t \in ss}
    OBVIOUS
  <2>2. Renewed(v, w, ss, B)
    BY <1>13, <2>1
  <2> QED BY <1>1, <1>9, <1>11, <1>13, <2>1, <2>2, ServedThenPrimed
<1> HIDE DEF x
<1>15. y \in Plain(Told) /\ Same(x, y)
  <2>1. y \in Plain(Told) /\ Fewer(x, y, dropped)
    BY <1>11, <1>14, ForgetAllFewer
  <2> QED BY <1>10, <2>1, SameIsFewer
<1> HIDE DEF y
<1>16. Renewed(v, y, Served(result, v, us), {t.fromSeq : t \in ss})
  <2>1. PICK B, all : B = {t.fromSeq : t \in ss} /\ all = Served(result, v, us)
    OBVIOUS
  <2>2. Renewed(v, x, all, B)
    BY <1>14, <2>1 DEF Served, ss
  <2>3. Renewed(v, y, all, B)
    BY <1>15, <2>2, RenewedSame
  <2> QED BY <2>1, <2>3
<1>17. ASSUME NEW u \in Known(v) PROVE \E t \in Served(result, v, us) : t.uri = u
  <2>1. CASE \E t \in ss : t.uri = u
    BY <2>1 DEF Served, ss
  <2>2. CASE \A t \in ss : t.uri # u
    <3>1. u \in us /\ u \in Known(view) /\ ~v.mirrors[u].primed
      BY <1>4, <1>9, <1>12, <2>2 DEF Fewer, SameCopy
    <3>2. u \in Unserved(v, us, ss)
      BY <2>2, <3>1 DEF Unserved
    <3>3. Own(v, u) \in Owns(v, Unserved(v, us, ss)) /\ Own(v, u).uri = u
      BY <3>2 DEF Owns, Own
    <3> QED BY <3>3 DEF Served, ss
  <2> QED BY <2>1, <2>2
<1>18. z \in Plain(Told)
  BY <1>1, <1>15, InboundAllPlain
<1> HIDE DEF z
<1>19. Same(z, view')
  BY <1>7, <1>18, EndAllSame
<1>20. Reshaken(result, v, us, y)
  <2>1. v.seen \in Had \/ v.seen \in Marks(result)
    BY <1>9 DEF Had, Fewer
  <2>2. Known(v) \subseteq Known(view) /\ \A u \in Known(v) : SameCopy(view.mirrors[u], v.mirrors[u])
    BY <1>9 DEF Fewer
  <2>3. Same(InboundAll(y, early), view')
    BY <1>19 DEF z
  <2>4. Renewed(v, y, Served(result, v, us), {t.fromSeq : t \in result.snapshots})
    BY <1>16 DEF ss
  <2>5. Unserved(v, us, result.snapshots) \subseteq Stateless
    BY <1>10 DEF Unserved
  <2> QED BY <1>9, <1>15, <1>17, <2>1, <2>2, <2>3, <2>4, <2>5 DEF Reshaken
<1>21. /\ Known(view') = Known(v)
       /\ \A u \in Known(view') : view'.mirrors[u].primed /\ view'.mirrors[u].buffered = << >>
       /\ \A u \in Known(view') \ gone : Lands(u)
       /\ \A u \in Known(view') : Rises(u, result.snapshots)
       /\ view'.seen \in Had \/ view'.seen \in Marks(result)
  BY <1>3, <1>20, ShakeLands
<1>22. Known(view') \subseteq Known(view) /\ Known(view') \subseteq subscribed'
  <2>1. Known(v) = Known(view) \ lost /\ Known(view) \subseteq subscribed
    <3>1. \A q \in waiting : Restates(q) => q = r
      BY <1>3, ShakeWhole
    <3>2. Known(view) \subseteq r.uris /\ r.uris = subscribed
      BY <1>1, <1>2, <1>4 DEF AnswerComes, ClientOrder
    <3> QED BY <1>9, <3>2 DEF Fewer
  <2> QED BY <1>8, <1>10, <1>21, <2>1
<1>23. Risen(result.snapshots)
  BY <1>21, <1>22 DEF Risen
<1> QED BY <1>3, <1>8, <1>21, <1>22, <1>23, ShakeKeeps

\* What a replay does: its envelopes, those that arrived early, and those held back.
LEMMA ReplayTakes ==
  ASSUME HubTypes, NEW v \in Plain(Told), \A u \in Known(v) : v.mirrors[u].primed,
         NEW s \in Seq(Told), NEW t \in Seq(Told)
  PROVE  LET x == InboundAll(InboundAll(v, s), t)
             y == LoseAll(x, Known(x))
         IN  /\ y \in Plain(Told) /\ Known(y) = Known(v)
             /\ \A u \in Known(v) :
                  Caught(y.mirrors[u], u, v.mirrors[u].confirmed, v.mirrors[u].applied,
                         s, t, v.mirrors[u].buffered)
             /\ SeesOf(v, y, (SeqsOf(s) \cup SeqsOf(t)) \cup AllWaits(v))
<1>1. PICK w : w = InboundAll(v, s)
  OBVIOUS
<1>2. w \in Plain(Told) /\ Fed(v, w, s)
  BY <1>1, InboundAllFed
<1>3. /\ Known(w) = Known(v)
      /\ \A u \in Known(v) :
           /\ w.mirrors[u].primed /\ w.mirrors[u].buffered = v.mirrors[u].buffered
           /\ v.mirrors[u].applied <= w.mirrors[u].applied
           /\ \A k \in 1..Len(s) : s[k].uri = u => s[k].seq <= w.mirrors[u].applied
           /\ Copied(v.mirrors[u], u) /\ Following(v.mirrors[u].applied, u, s) =>
                Copied(w.mirrors[u], u)
  BY <1>2 DEF Fed, FedUpTo
<1>4. PICK x : x = InboundAll(w, t)
  OBVIOUS
<1>5. x \in Plain(Told) /\ Fed(w, x, t)
  BY <1>2, <1>3, <1>4, InboundAllFed
<1>6. /\ Known(x) = Known(v)
      /\ \A u \in Known(v) :
           /\ x.mirrors[u].primed /\ x.mirrors[u].buffered = v.mirrors[u].buffered
           /\ w.mirrors[u].applied <= x.mirrors[u].applied
           /\ \A k \in 1..Len(t) : t[k].uri = u => t[k].seq <= x.mirrors[u].applied
           /\ Copied(w.mirrors[u], u) /\ Following(w.mirrors[u].applied, u, t) =>
                Copied(x.mirrors[u], u)
  BY <1>3, <1>5 DEF Fed, FedUpTo
<1>7. PICK y : y = LoseAll(x, Known(x))
  OBVIOUS
<1>8. y \in Plain(Told) /\ Renewed(x, y, Owns(x, Known(x)), {})
  <2>1. Known(x) \subseteq Uris
    BY <1>5, PlainParts
  <2>2. IsFiniteSet(Known(x))
    BY <2>1, ClientAssumption, FS_Subset
  <2>3. \A u \in Known(x) : x.mirrors[u].primed
    BY <1>6
  <2> QED BY <1>5, <1>7, <2>2, <2>3, LoseAllTakes
<1>9. Known(y) = Known(v)
  BY <1>6, <1>8 DEF Renewed
<1>10. ASSUME NEW u \in Known(v)
       PROVE  Caught(y.mirrors[u], u, v.mirrors[u].confirmed, v.mirrors[u].applied,
                     s, t, v.mirrors[u].buffered)
  <2>1. PICK b : b = v.mirrors[u].buffered
    OBVIOUS
  <2>2. PICK a \in Nat, c \in Nat, d \in Nat, e \in Nat :
          /\ a = v.mirrors[u].applied /\ c = w.mirrors[u].applied
          /\ d = x.mirrors[u].applied /\ e = y.mirrors[u].applied
    BY <1>2, <1>3, <1>5, <1>6, <1>8, <1>9, PlainParts
  <2>3. y.mirrors[u].primed /\ AsOf(x, y, u, x.mirrors[u].confirmed, d)
    <3>1. Own(x, u) \in Owns(x, Known(x)) /\ Own(x, u).uri = u
          /\ Own(x, u).state = x.mirrors[u].confirmed /\ Own(x, u).fromSeq = d
      BY <1>6, <2>2 DEF Owns, Own
    <3> QED BY <1>6, <1>8, <3>1 DEF Renewed
  <2>4. y.mirrors[u].buffered = << >> /\ d <= e /\ \A h \in Waits(x, u) : h <= e
    BY <2>2, <2>3 DEF AsOf
  <2>5. Waits(x, u) = {b[k].seq : k \in DOMAIN b}
    BY <1>6, <2>1 DEF Waits
  <2>6. a <= c /\ c <= d /\ d <= e
    BY <1>3, <1>6, <2>2, <2>4
  <2>7. \A k \in DOMAIN s : s[k].uri = u => s[k].seq <= c
    BY <1>3, <2>2
  <2>8. \A k \in DOMAIN t : t[k].uri = u => t[k].seq <= d
    BY <1>6, <2>2
  <2>9. /\ \A k \in DOMAIN s : s[k] \in Told /\ s[k].seq \in Nat
        /\ \A k \in DOMAIN t : t[k] \in Told /\ t[k].seq \in Nat
    BY ToldTyped
  <2>10. Past(c, a, u, s) /\ Past(d, a, u, s) /\ Past(d, a, u, t) /\ Past(e, a, u, s) /\ Past(e, a, u, t)
    BY <2>6, <2>7, <2>8, <2>9 DEF Past
  <2>11. Past(e, a, u, b)
    BY <2>4, <2>5, <2>6 DEF Past
  <2>12. ASSUME v.mirrors[u].confirmed = StateAt(log, u, a), a <= Len(log), Chained(a, u, s, t, b)
         PROVE  Copied(y.mirrors[u], u)
    <3>1. Copied(v.mirrors[u], u)
      BY <2>2, <2>12 DEF Copied
    <3>2. Following(a, u, s) /\ Following(c, u, t) /\ Following(d, u, b)
      BY <2>10, <2>12 DEF Chained
    <3>3. Copied(w.mirrors[u], u)
      BY <1>3, <2>2, <3>1, <3>2
    <3>4. Copied(x.mirrors[u], u)
      BY <1>6, <2>2, <3>2, <3>3
    <3>5. x.mirrors[u].confirmed = StateAt(log, u, d) /\ d <= Len(log) /\ x.mirrors[u].buffered = b
      BY <1>6, <2>1, <2>2, <3>4 DEF Copied
    <3> QED BY <2>3, <3>2, <3>5 DEF AsOf
  <2> QED BY <2>1, <2>2, <2>3, <2>4, <2>10, <2>11, <2>12 DEF Caught
<1>11. SeesOf(v, y, (SeqsOf(s) \cup SeqsOf(t)) \cup AllWaits(v))
  <2>1. SeesOf(v, w, SeqsOf(s)) /\ SeesOf(w, x, SeqsOf(t))
    BY <1>2, <1>5, FedSees
  <2>2. SeesOf(v, x, SeqsOf(s) \cup SeqsOf(t))
    BY <1>2, <1>5, <2>1, SeesTwice
  <2>3. SeesOf(x, y, AllWaits(x) \cup {})
    BY <1>8 DEF Renewed
  <2>4. AllWaits(x) = AllWaits(v)
    BY <1>6 DEF AllWaits, Waits
  <2>5. SeesOf(x, y, AllWaits(v))
    BY <2>3, <2>4
  <2> QED BY <1>5, <1>8, <2>2, <2>5, SeesTwice
<1> QED BY <1>1, <1>4, <1>7, <1>8, <1>9, <1>10, <1>11

\* A replay, what arrived early, and what was held back leave no gap in a channel.
LEMMA ChainReplay ==
  ASSUME Types, Connected, Bases, Cut, Stream, ClientOrder, Gapless, CopiesTrue, ~ready,
         NEW u \in Known(view) \ gone, u \in subscribed, NEW s \in Seq(Told),
         \A j, k \in DOMAIN s : j < k => s[j].seq < s[k].seq,
         NEW b \in 0..Len(log), view.seen <= b, \A k \in DOMAIN s : s[k].seq <= b,
         {e \in Range(s) : e.uri = u} = Between(u, view.seen, b), Promised(u, b, 1)
  PROVE  /\ Chained(view.mirrors[u].applied, u, s, early, view.mirrors[u].buffered)
         /\ \A d \in Nat : Past(d, view.mirrors[u].applied, u, s) => Between(u, d, b) = {}
<1>1. ComingParts /\ HadParts /\ ClientParts /\ HubTypes /\ Len(log) \in Nat /\ Len(Coming) \in Nat
  BY Parted, LogTyped DEF ClientParts, ComingParts
<1>2. Based(u, b) /\ Joins(u, b, 1)
  BY <1>1 DEF Based, Bases
<1>3. PICK q : q = view.mirrors[u].buffered
  OBVIOUS
<1>4. /\ q \in Seq(Told) /\ Len(q) \in Nat /\ DOMAIN q = 1..Len(q)
      /\ \A k \in DOMAIN q : q[k] \in Told /\ q[k].uri = u /\ q[k].seq \in Nat /\ q[k].seq \in Had
      /\ \A k \in DOMAIN q : q[k].seq <= b
  BY <1>1, <1>2, <1>3 DEF HadParts, Joins
<1>5. /\ early \in Seq(Told) /\ Len(early) \in Nat /\ DOMAIN early = 1..Len(early)
      /\ \A k \in DOMAIN early : early[k].seq \in Had
      /\ Had \subseteq Nat
  BY <1>1 DEF HadParts, Had
<1>6. PICK a \in Nat : a = view.mirrors[u].applied
  <2>1. view \in Plain(Told)
    BY <1>1 DEF ClientParts
  <2> QED BY <2>1, PlainParts
<1>7. \A x \in Told : x.seq \in Nat
  BY <1>1, ToldTyped
<1>8. view.seen \in Nat
  <2>1. view \in Plain(Told)
    BY <1>1 DEF ClientParts
  <2> QED BY <2>1, PlainParts
<1>9. Between(u, a, view.seen) = {}
  BY <1>6 DEF Gapless
<1>10. ASSUME NEW x \in Told, x.uri = u, a < x.seq, x.seq <= b PROVE x \in Range(s)
  <2>1. view.seen < x.seq
    <3> SUFFICES ASSUME x.seq <= view.seen PROVE FALSE
      BY <1>7, <1>8
    <3> QED BY <1>9, <1>10 DEF Between
  <2> QED BY <1>10, <2>1 DEF Between
<1>11. Len(s) \in Nat /\ DOMAIN s = 1..Len(s) /\ \A k \in DOMAIN s : s[k] \in Told
  OBVIOUS
<1>12. \A x \in Range(s) : \E j \in DOMAIN s : x = s[j]
  BY DEF Range
<1>13. ASSUME NEW d \in Nat, Past(d, a, u, s), NEW x \in Told, x.uri = u, d < x.seq PROVE b < x.seq
  <2> SUFFICES ASSUME x.seq <= b PROVE FALSE
    BY <1>7
  <2>1. a < x.seq
    BY <1>7, <1>13 DEF Past
  <2>2. PICK j \in DOMAIN s : x = s[j]
    BY <1>10, <1>12, <1>13, <2>1
  <2>3. x.seq <= d
    BY <1>13, <2>2 DEF Past
  <2> QED BY <1>7, <1>13, <2>3
<1>14. Following(a, u, s)
  <2> SUFFICES ASSUME NEW k \in DOMAIN s, NEW x \in Between(u, a, s[k].seq)
               PROVE  x \in {s[j] : j \in 1..k}
    BY DEF Following
  <2>1. x \in Told /\ x.uri = u /\ a < x.seq /\ x.seq <= s[k].seq /\ s[k].seq <= b
    BY DEF Between
  <2>2. x.seq <= b
    BY <1>7, <1>11, <2>1
  <2>3. PICK j \in DOMAIN s : x = s[j]
    BY <1>10, <1>12, <2>1, <2>2
  <2>4. j <= k
    <3> SUFFICES ASSUME k < j PROVE FALSE
      BY <1>11
    <3>1. s[k].seq < s[j].seq
      OBVIOUS
    <3> QED BY <1>7, <1>11, <2>1, <2>3, <3>1
  <2> QED BY <1>11, <2>3, <2>4
<1>15. ASSUME NEW d \in Nat, Past(d, a, u, s) PROVE Following(d, u, early)
  <2> SUFFICES ASSUME NEW k \in DOMAIN early, NEW x \in Between(u, d, early[k].seq)
               PROVE  x \in {early[j] : j \in 1..k}
    BY DEF Following
  <2>1. x \in Told /\ x.uri = u /\ d < x.seq /\ x.seq <= early[k].seq
    BY DEF Between
  <2>2. b < x.seq
    BY <1>13, <1>15, <2>1
  <2>3. x \in Range(q) \cup Range(early)
    BY <1>2, <1>3, <1>5, <2>1, <2>2, HeldIs
  <2>4. x \notin Range(q)
    <3> SUFFICES ASSUME NEW j \in DOMAIN q, x = q[j] PROVE FALSE
      BY DEF Range
    <3> QED BY <1>1, <1>4, <1>7, <2>2
  <2>5. PICK j \in DOMAIN early : x = early[j]
    BY <2>3, <2>4 DEF Range
  <2>6. j <= k
    <3> SUFFICES ASSUME k < j PROVE FALSE
      BY <1>5
    <3>1. early[k].seq < early[j].seq
      BY DEF Stream, InOrder
    <3> QED BY <1>5, <1>7, <2>1, <2>5, <3>1
  <2>7. j \in 1..k
    BY <1>5, <2>6
  <2> QED BY <2>5, <2>7
<1>16. ASSUME NEW d \in Nat, Past(d, a, u, s) PROVE Following(d, u, q)
  <2> SUFFICES ASSUME NEW k \in DOMAIN q, NEW x \in Between(u, d, q[k].seq) PROVE FALSE
    BY DEF Following
  <2>1. x \in Told /\ x.uri = u /\ d < x.seq /\ x.seq <= q[k].seq /\ q[k].seq <= b
    BY <1>4 DEF Between
  <2>2. b < x.seq
    BY <1>13, <1>16, <2>1
  <2> QED BY <1>1, <1>4, <1>7, <2>1, <2>2
<1>17. \A d \in Nat : Past(d, a, u, s) => Between(u, d, b) = {}
  <2> SUFFICES ASSUME NEW d \in Nat, Past(d, a, u, s), NEW x \in Between(u, d, b) PROVE FALSE
    OBVIOUS
  <2>1. x \in Told /\ x.uri = u /\ d < x.seq /\ x.seq <= b
    BY DEF Between
  <2>2. b < x.seq
    BY <1>13, <2>1
  <2> QED BY <1>1, <1>7, <2>1, <2>2
<1>18. Chained(a, u, s, early, q)
  BY <1>14, <1>15, <1>16 DEF Chained
<1> QED BY <1>3, <1>6, <1>17, <1>18

\* Up to where a replay takes the channels it is about.
LEMMA ReplayReaches ==
  ASSUME NEW r, NEW result, AnswerComes(r, result), result.type = "replay", IsHandshake(r),
         r.method = "reconnect"
  PROVE  \E b \in 0..Len(log) :
           /\ view.seen <= b /\ \A k \in DOMAIN result.actions : result.actions[k].seq <= b
           /\ \A u \in Known(view) \ gone :
                /\ u \in subscribed /\ Promised(u, b, 1)
                /\ {e \in Range(result.actions) : e.uri = u} = Between(u, view.seen, b)
<1>1. /\ Types /\ HubTypes /\ r \in waiting /\ view \in Plain(Told) /\ result \in Results
      /\ ClientOrder /\ Gapless /\ 1 \in DOMAIN Coming
      /\ AnswerTo(Coming[1], r) /\ result = Coming[1].result
  BY Parted DEF AnswerComes, Types, ClientParts, MirrorOrder
<1>2. r.uris = subscribed /\ r.seen = view.seen
  BY <1>1 DEF ClientOrder
<1>3. /\ Known(view) \subseteq r.uris /\ \A u \in Known(view) : ~view.mirrors[u].primed
      /\ Restates(r)
  BY ShakeWhole
<1>4. PICK c \in 0..Len(log) : Replays(result.actions, r, c)
  BY AnswerGood DEF GoodResult
<1>5. view.seen \in Nat /\ view.seen <= Len(log) /\ Len(log) \in Nat
  BY <1>1, PlainParts, LogTyped DEF Gapless
<1>6. PICK s : s = result.actions
  OBVIOUS
<1>7. s \in Seq(Told) /\ \A k \in DOMAIN s : s[k].seq \in Nat /\ s[k].seq <= c
  <2>1. s \in Seq(Told)
    BY <1>1, <1>6, ResultParts
  <2>2. \A k \in DOMAIN s : s[k] \in Told
    BY <2>1
  <2> QED BY <1>1, <1>4, <1>6, <2>1, <2>2, ToldTyped DEF Replays
<1>8. PICK b \in 0..Len(log) : /\ c <= b /\ view.seen <= b
                               /\ b = c \/ (b = view.seen /\ c <= view.seen)
  <2>1. CASE c <= view.seen
    BY <1>5, <2>1
  <2>2. CASE ~(c <= view.seen)
    BY <1>5, <2>2
  <2> QED BY <2>1, <2>2
<1>9. \A k \in DOMAIN s : s[k].seq <= b
  BY <1>7, <1>8
<1>10. ASSUME NEW u \in Known(view) \ gone
       PROVE  /\ u \in subscribed /\ Promised(u, b, 1)
              /\ {e \in Range(s) : e.uri = u} = Between(u, view.seen, b)
  <2>1. u \in subscribed /\ u \in r.uris
    BY <1>2, <1>3
  <2>2. {e \in Range(s) : e.uri = u} = Between(u, view.seen, c)
    BY <1>2, <1>4, <1>6, <2>1 DEF Replays
  <2>3. Between(u, view.seen, b) = Between(u, view.seen, c)
    <3>1. CASE b = c
      BY <3>1
    <3>2. CASE b = view.seen /\ c <= view.seen
      <4>1. \A e \in Told : e.seq \in Nat
        BY <1>1, ToldTyped
      <4> QED BY <1>5, <1>8, <3>2, <4>1 DEF Between
    <3> QED BY <1>8, <3>1, <3>2
  <2>4. Brings(result, r, u, b)
    BY <1>2, <1>6, <1>8, <1>9, <2>2, <2>3 DEF Brings
  <2>5. InFrame(1, r, u, b)
    BY <1>1, <2>4 DEF InFrame
  <2>6. Promised(u, b, 1)
    BY <1>1, <1>3, <2>1, <2>5 DEF Promised
  <2> QED BY <2>1, <2>2, <2>3, <2>6
<1> QED BY <1>6, <1>8, <1>9, <1>10

\* The answer to reconnect that replays.
LEMMA ReplayKeeps ==
  ASSUME NEW r, NEW result, AnswerComes(r, result), result.type = "replay", Resumed(result)
  PROVE  ClientOrder' /\ MirrorOrder' /\ Risen({})
<1> DEFINE s == result.actions
           lost == result.missing
           v == ForgetAll(view, lost)
           p == AllPrimed(v)
           x == InboundAll(InboundAll(p, s), early)
           y == LoseAll(x, Known(x))
<1>1. /\ Types /\ HubTypes /\ r \in waiting /\ r \in Requests /\ early \in Seq(Told)
      /\ result \in Results /\ Fits(r, result) /\ view \in Plain(Told)
      /\ Connected /\ ClientOrder /\ CopiesTrue /\ Gapless /\ Bases /\ Cut /\ Stream
  BY Parted DEF AnswerComes, Types, ClientParts, MirrorOrder
<1>2. /\ r.method = "reconnect" /\ s \in Seq(Told)
      /\ lost \in SUBSET Uris /\ IsFiniteSet(lost)
  <2>1. r.method = "reconnect" /\ s \in Seq(Told) /\ lost \in SUBSET Uris
    BY <1>1, ResultParts DEF Fits
  <2> QED BY <2>1, ClientAssumption, FS_Subset
<1>3. IsHandshake(r)
  BY <1>2 DEF IsHandshake
<1>4. /\ ~ready /\ Known(view) \subseteq r.uris /\ Known(view) \subseteq subscribed
      /\ \A u \in Known(view) : ~view.mirrors[u].primed
  <2>1. r.uris = subscribed
    BY <1>1, <1>2 DEF ClientOrder
  <2> QED BY <1>3, <2>1, ShakeWhole
<1>5. \A j, k \in DOMAIN s : j < k => s[j].seq < s[k].seq
  BY AnswerGood DEF GoodResult
<1>6. PICK b \in 0..Len(log) :
        /\ view.seen <= b /\ \A k \in DOMAIN s : s[k].seq <= b
        /\ \A u \in Known(view) \ gone :
             /\ u \in subscribed /\ Promised(u, b, 1)
             /\ {e \in Range(s) : e.uri = u} = Between(u, view.seen, b)
  BY <1>2, <1>3, ReplayReaches
<1>7. view' = SettleAll(y, DOMAIN y.outcome, "lost")
  BY DEF Resumed, ResumedByReplay, Finished, AfterReplay, LoseAll, AllPrimed
<1>8. subscribed' = subscribed \ lost /\ ready' /\ early' = << >> /\ initialized'
  BY DEF Resumed, ResumedByReplay
<1>9. Marks(result) = SeqsOf(s)
  BY DEF Marks, SeqsOf
<1> HIDE DEF s, lost
<1>10. v \in Plain(Told) /\ Fewer(view, v, lost)
  BY <1>1, <1>2, ForgetAllFewer
<1> HIDE DEF v
<1>11. /\ p \in Plain(Told) /\ Known(p) = Known(v) /\ p.seen = v.seen
       /\ \A u \in Known(v) :
            /\ p.mirrors[u].confirmed = v.mirrors[u].confirmed
            /\ p.mirrors[u].applied = v.mirrors[u].applied
            /\ p.mirrors[u].primed /\ p.mirrors[u].buffered = v.mirrors[u].buffered
  BY <1>10, AllPrimedNow
<1> HIDE DEF p
<1>12. \A u \in Known(p) : p.mirrors[u].primed
  BY <1>11
<1>13. /\ y \in Plain(Told) /\ Known(y) = Known(p)
       /\ \A u \in Known(p) :
            Caught(y.mirrors[u], u, p.mirrors[u].confirmed, p.mirrors[u].applied,
                   s, early, p.mirrors[u].buffered)
       /\ SeesOf(p, y, (SeqsOf(s) \cup SeqsOf(early)) \cup AllWaits(p))
  BY <1>1, <1>2, <1>11, <1>12, ReplayTakes
<1> HIDE DEF x, y
<1>14. view' \in Plain(Told) /\ Same(y, view')
  BY <1>7, <1>13, EndAllSame
<1>15. /\ Known(view') = Known(view) \ lost
       /\ \A u \in Known(view') :
            /\ u \in Known(p) /\ u \in Known(view)
            /\ p.mirrors[u].confirmed = view.mirrors[u].confirmed
            /\ p.mirrors[u].applied = view.mirrors[u].applied
            /\ p.mirrors[u].buffered = view.mirrors[u].buffered
  BY <1>10, <1>11, <1>13, <1>14 DEF Same, Fewer, SameCopy
<1>16. PICK z : z = view'
  OBVIOUS
<1>17. ASSUME NEW u \in Known(z)
       PROVE  Caught(z.mirrors[u], u, view.mirrors[u].confirmed, view.mirrors[u].applied,
                     s, early, view.mirrors[u].buffered)
  <2>1. Caught(y.mirrors[u], u, view.mirrors[u].confirmed, view.mirrors[u].applied,
                     s, early, view.mirrors[u].buffered)
    BY <1>13, <1>15, <1>16
  <2>2. SameCopy(y.mirrors[u], z.mirrors[u])
    BY <1>13, <1>14, <1>15, <1>16 DEF Same
  <2> QED BY <2>1, <2>2 DEF Caught, SameCopy, Copied
<1>18. \A u \in Known(z) : z.mirrors[u].primed /\ z.mirrors[u].buffered = << >>
  BY <1>17 DEF Caught
<1>19. ASSUME NEW u \in Known(z) \ gone PROVE Lands(u)
  <2>1. u \in Known(view) \ gone /\ u \in subscribed
    BY <1>6, <1>15, <1>16
  <2>2. {e \in Range(s) : e.uri = u} = Between(u, view.seen, b) /\ Promised(u, b, 1)
    BY <1>6, <2>1
  <2>3. /\ Chained(view.mirrors[u].applied, u, s, early, view.mirrors[u].buffered)
        /\ \A d \in Nat : Past(d, view.mirrors[u].applied, u, s) => Between(u, d, b) = {}
    BY <1>1, <1>2, <1>4, <1>5, <1>6, <2>1, <2>2, ChainReplay
  <2>4. /\ view.mirrors[u].confirmed = StateAt(log, u, view.mirrors[u].applied)
        /\ view.mirrors[u].applied <= Len(log)
    BY <1>1, <2>1 DEF CopiesTrue, Copied
  <2>5. /\ Copied(z.mirrors[u], u)
        /\ Past(z.mirrors[u].applied, view.mirrors[u].applied, u, s)
        /\ \A k \in DOMAIN early : early[k].uri = u => early[k].seq <= z.mirrors[u].applied
        /\ \A k \in DOMAIN view.mirrors[u].buffered :
             view.mirrors[u].buffered[k].uri = u =>
               view.mirrors[u].buffered[k].seq <= z.mirrors[u].applied
    BY <1>17, <2>3, <2>4 DEF Caught, Past
  <2>6. \A k \in DOMAIN view.mirrors[u].buffered : view.mirrors[u].buffered[k].uri = u
    BY <1>1, <2>1, BufferedTyped
  <2>7. z.mirrors[u].applied \in Nat
    BY <1>14, <1>16, PlainParts
  <2>8. Between(u, z.mirrors[u].applied, b) = {}
    BY <2>3, <2>5, <2>7
  <2>9. Based(u, b)
    <3>1. Len(Coming) \in Nat
      BY <1>1, ComingTyped
    <3> QED BY <2>2, <3>1 DEF Based
  <2> QED BY <1>16, <1>18, <2>1, <2>5, <2>6, <2>8, <2>9 DEF Lands
<1>20. z.seen \in Had \/ z.seen \in Marks(result)
  <2>1. z.seen = view.seen \/ z.seen \in SeqsOf(s) \/ z.seen \in SeqsOf(early) \/ z.seen \in AllWaits(p)
    BY <1>10, <1>11, <1>13, <1>14, <1>16 DEF SeesOf, Same, Fewer
  <2>2. AllWaits(p) \subseteq UNION {Waits(view, u) : u \in Known(view)}
    <3>1. \A u \in Known(p) : u \in Known(view) /\ Waits(p, u) = Waits(view, u)
      BY <1>13, <1>14, <1>15 DEF Waits, Same
    <3> QED BY <3>1 DEF AllWaits
  <2> QED BY <1>9, <2>1, <2>2 DEF Had, SeqsOf
<1>21. Known(z) \subseteq Known(view) /\ Known(z) \subseteq subscribed \ lost
  BY <1>4, <1>15, <1>16
<1>22. /\ Known(view') \subseteq Known(view) /\ Known(view') \subseteq subscribed'
       /\ \A u \in Known(view') : view'.mirrors[u].primed /\ view'.mirrors[u].buffered = << >>
       /\ \A u \in Known(view') \ gone : Lands(u)
       /\ view'.seen \in Had \/ view'.seen \in Marks(result)
  BY <1>8, <1>16, <1>18, <1>19, <1>20, <1>21
<1>23. Risen({})
  <2>1. \A u \in Known(z) : view.mirrors[u].applied <= z.mirrors[u].applied
    BY <1>17 DEF Caught, Past
  <2> QED BY <1>16, <1>18, <1>21, <2>1 DEF Risen, Rises
<1> QED BY <1>3, <1>8, <1>22, <1>23, ShakeKeeps

\* An answer is read.
LEMMA ReceiveAnswerKeeps ==
  ASSUME ClientTurn, ReceiveAnswer
  PROVE  ClientOrder' /\ MirrorOrder'
<1>1. PICK r \in waiting, result \in Results :
        /\ AnswerComes(r, result)
        /\ \/ result.type = "hello" /\ Welcome(r, result)
           \/ result.type \in {"replay", "snapshot"} /\ Resumed(result)
           \/ result.type = "subscribed" /\ Joined(r, result)
           \/ result.type \in {"envelope", "duplicate"} /\ Answered(r, result)
           \/ /\ result.type = "error" /\ view' = Failure(view, r, "error")
              /\ UNCHANGED <<shakeState, subscribed, writable, initialized>>
  BY AnswerComing
<1>2. CASE result.type = "hello" /\ Welcome(r, result)
  BY <1>1, <1>2, WelcomeKeeps
<1>3. CASE result.type = "replay" /\ Resumed(result)
  BY <1>1, <1>3, ReplayKeeps
<1>4. CASE result.type = "snapshot" /\ Resumed(result)
  BY <1>1, <1>4, SnapshotKeeps
<1>5. CASE result.type = "subscribed" /\ Joined(r, result)
  BY <1>1, <1>5, JoinedKeeps
<1>6. CASE result.type = "envelope" /\ Answered(r, result)
  BY <1>1, <1>6, EnvelopeKeeps
<1>7. CASE result.type = "duplicate" /\ Answered(r, result)
  BY <1>1, <1>7, DuplicateKeeps
<1>8. CASE /\ result.type = "error" /\ view' = Failure(view, r, "error")
           /\ UNCHANGED <<shakeState, subscribed, writable, initialized>>
  BY <1>1, <1>8, ErrorKeeps
<1> QED BY <1>1, <1>2, <1>3, <1>4, <1>5, <1>6, <1>7, <1>8

\* A turn of the client of an application that makes one call at a time for a channel.
LEMMA ClientStepsKeep ==
  ASSUME ClientTurn, Habits = {}, ClientSteps
  PROVE  ClientOrder' /\ MirrorOrder'
<1>0. "overlap" \notin Habits /\ "resubscribe" \notin Habits /\ "rehello" \notin Habits
  OBVIOUS
<1>1. CASE \E us \in SUBSET Uris : Hello(us)
  BY <1>0, <1>1, HelloKeeps
<1>2. CASE \E s \in Sockets : Reconnect(s)
  BY <1>0, <1>2, ReconnectHereKeeps, ReconnectAfreshKeeps
<1>3. CASE \E u \in Uris : Subscribe(u)
  BY <1>0, <1>3, SubscribeKeeps
<1>4. CASE \E u \in Uris : Unsubscribe(u)
  BY <1>0, <1>4, UnsubscribeKeeps
<1>5. CASE \E u \in Uris : Dispatch(u)
  BY <1>5, DispatchKeeps
<1>6. CASE Shutdown
  BY <1>6, ShutdownKeeps
<1>7. CASE ReceivePush
  BY <1>7, ReceivePushKeeps
<1>8. CASE ReceiveAnswer
  BY <1>8, ReceiveAnswerKeeps
<1>9. CASE ReceiveLate
  BY <1>9, LateKeeps
<1>10. CASE EndOfStream
  BY <1>10, EndOfStreamKeeps
<1>11. CASE \E r \in waiting : Timeout(r)
  BY <1>11, TimeoutKeeps
<1>12. CASE \E ok \in BOOLEAN : SaveEnds(ok)
  BY <1>12, SaveEndsKeeps
<1>13. CASE Restore
  BY <1>13, RestoreKeeps
<1> QED BY <1>1, <1>2, <1>3, <1>4, <1>5, <1>6, <1>7, <1>8, <1>9, <1>10, <1>11, <1>12, <1>13
        DEF ClientSteps

=============================================================================
