---------------------------- MODULE SessionProofs ----------------------------
(***************************************************************************)
(* A client and its hub, for every set of channels, any number of sockets, *)
(* dispatches and requests, and any trouble the constants allow.           *)
(* What reconciliation does to a view is shown once, operator by operator, *)
(* as membership in a set of good views; the folds over channels, requests *)
(* and envelopes stay in such a set because their steps do.                *)
(***************************************************************************)
EXTENDS SessionProperties, NaturalRecursion, FiniteSetTheorems, TLAPS

-----------------------------------------------------------------------------
(* Good views. *)

Numbers == 1..MaxDispatch
Told    == {log[i] : i \in DOMAIN log}   \* every envelope there is

Envelopes ==
  [kind : {"action"}, uri : Uris, seq : Nat, n : 0..MaxDispatch, accepted : BOOLEAN]

\* Envelopes of E for channel u.
For(E, u) == {e \in E : e.uri = u}

Mirrors(E) ==
  [confirmed : Seq(Int), optimistic : Seq(Int), pending : Seq(Numbers), applied : Nat,
   primed : BOOLEAN, buffered : Seq(E)]

ViewsOf(E) ==
  [mirrors : UNION {[D -> Mirrors(E)] : D \in SUBSET Uris}, seen : Nat,
   outcome : [Numbers -> Outcome]]

\* A mirror holds back only envelopes of its own channel.
Sorted(v, E) == \A u \in Known(v) : v.mirrors[u].buffered \in Seq(For(E, u))

\* What is rendered is up to date, except perhaps for the channels in X.
Shown(v, X) ==
  \A u \in Known(v) \ X :
    v.mirrors[u].optimistic = v.mirrors[u].confirmed \o v.mirrors[u].pending

\* What may have become of a dispatch, as far as the envelopes of E tell.
Witnessed(E, n, outcome) ==
  outcome \in {"confirmed", "rejected"} =>
    \E e \in E : e.n = n /\ e.accepted = (outcome = "confirmed")

Truthful(v, E) == \A n \in Numbers : Witnessed(E, n, v.outcome[n])

Opens(v) == {n \in Numbers : v.outcome[n] = "open"}

\* Views made from the envelopes of E in which at most the dispatches of O are open, at
\* least the channels of K have a mirror, and those of X may need a restate.
Views(E, O, K, X) ==
  {v \in ViewsOf(E) :
     Sorted(v, E) /\ Shown(v, X) /\ Truthful(v, E) /\ Opens(v) \subseteq O
       /\ K \subseteq Known(v)}

-----------------------------------------------------------------------------
(* Frames, and what is kept of them. *)

Snapshots == [uri : Uris, state : Seq(Int), fromSeq : Nat]

\* Any channel will do for a request that is about none in particular.
SomeUris == Uris \cup {CHOOSE u \in Uris : TRUE}

Requests ==
  {r \in [id : Nat, method : {"hello", "reconnect", "subscribe", "dispatch"},
          uris : SUBSET Uris, uri : SomeUris, created : SUBSET Uris, n : 0..MaxDispatch,
          seen : Nat] :
     /\ r.method = "dispatch" => r.n \in Numbers /\ r.uri \in Stateful /\ r.created = {}
     /\ r.method = "subscribe" => r.uri \in Uris /\ r.uris = {r.uri}
     /\ r.created \subseteq r.uris}

\* An identifier names one request for as long as somebody waits for it.
Issued == {r \in Requests : r.id < nextId /\ \A q \in waiting : q.id = r.id => q = r}

Results ==
  [type : {"error", "duplicate"}]
    \cup [type : {"envelope"}, envelope : Told]
    \cup [type : {"hello"}, serverSeq : Nat, snapshots : SUBSET Snapshots]
    \cup [type : {"subscribed"}, snapshots : SUBSET Snapshots]
    \cup [type : {"replay"}, missing : SUBSET Uris, actions : Seq(Told)]
    \cup [type : {"snapshot"}, missing : SUBSET Uris, snapshots : SUBSET Snapshots]

\* The answers a request may get.
Fits(r, result) ==
  /\ result.type = "hello" => r.method = "hello"
  /\ result.type = "subscribed" => r.method = "subscribe"
  /\ result.type \in {"replay", "snapshot"} => r.method = "reconnect"
  /\ result.type = "duplicate" => r.method = "dispatch"
  /\ result.type = "envelope" =>
       r.method = "dispatch" /\ result.envelope.n = r.n /\ result.envelope.uri = r.uri
  /\ result.type \in {"hello", "subscribed", "snapshot"} => IsFiniteSet(result.snapshots)

UpFrames == Issued \cup [method : {"unsubscribe"}, uri : Uris]

Answers ==
  {f \in [kind : {"answer"}, id : Nat, result : Results] :
     f.id < nextId /\ \A q \in waiting : q.id = f.id => Fits(q, f.result)}

DownFrames == Told \cup Answers

Jobs ==
  {Idle}
    \cup {j \in [stage : {"subscribing", "greeting", "resuming", "committing"},
                 request : Issued, todo : SUBSET Uris, missing : SUBSET Uris,
                 snapshots : SUBSET Snapshots] :
            /\ j.stage = "subscribing" => j.request.method \in {"hello", "subscribe"}
            /\ j.stage = "greeting" => j.request.method = "hello"
            /\ j.stage = "resuming" => j.request.method = "reconnect"
            /\ j.stage = "committing" => j.request.method = "dispatch"
            /\ IsFiniteSet(j.snapshots)}
    \cup {j \in [stage : {"answering"}, request : Issued, result : Results] :
            Fits(j.request, j.result)}
    \cup {j \in [stage : {"writing"}, request : Issued, accepted : BOOLEAN] :
            j.request.method = "dispatch"}

Checkpoints ==
  [nextSeq : 1..(MaxDispatch + 1), seen : Nat,
   channels : UNION {[D -> [confirmed : Seq(Int), applied : Nat, pending : Seq(Numbers)]] :
                       D \in SUBSET Uris}]

Flushes ==
  {w \in [n : 0..MaxDispatch, uri : SomeUris, behind : Nat] : w.n # 0 => w.uri \in Stateful}

-----------------------------------------------------------------------------
(* The first part of the invariant: everything is what it should be. *)

HubTypes ==
  /\ log \in Seq(Envelopes) /\ \A i \in DOMAIN log : log[i].seq = i
  /\ ring \in Seq(Told) /\ Len(ring) <= ReplayLimit
  /\ gone \subseteq Mortal
  /\ link \in 0..MaxSockets /\ subs \subseteq Uris /\ watermark \in Nat
  /\ job \in [Sockets -> Jobs]

WireTypes ==
  /\ up \in [Sockets -> Seq(UpFrames)] /\ down \in [Sockets -> Seq(DownFrames)]
  /\ reader \in 0..MaxSockets /\ detached \subseteq Sockets

ClientTypes ==
  /\ current \in Sockets
  /\ done \in BOOLEAN /\ initialized \in BOOLEAN /\ ready \in BOOLEAN
  /\ writable \in BOOLEAN /\ failed \in BOOLEAN
  /\ early \in Seq(Told)
  /\ view \in Views(Told, Numbers, {}, {})
  /\ subscribed \subseteq Uris
  /\ waiting \subseteq Issued /\ IsFiniteSet(waiting)
  /\ nextId \in Nat /\ nextSeq \in 1..(MaxDispatch + 1)
  /\ saves \in Seq(Checkpoints) /\ stored \in Checkpoints \cup {None}
  /\ flushing \in Seq(Flushes)

Types == HubTypes /\ WireTypes /\ ClientTypes

-----------------------------------------------------------------------------
(* Mirrors of what is subscribed, for an application that makes one call at a time for  *)
(* a channel.                                                                           *)

Restates(r) == r.method # "dispatch"

MirrorsKept ==
  /\ subscribed \subseteq Known(view)
  /\ \A r \in waiting :
       /\ r.created \cap subscribed = {}
       /\ r.method \in {"hello", "subscribe"} => r.uris \subseteq Known(view)
  /\ \A q, r \in waiting : q # r /\ Restates(q) /\ Restates(r) =>
       /\ q.uris \cap r.uris = {}
       /\ r.method = "reconnect" => q.uris = {}

-----------------------------------------------------------------------------
(* Somebody waits for what is open, as long as hello is called once.                    *)

Awaited ==
  {r.n : r \in {q \in waiting : q.method = "dispatch"}}
    \cup {flushing[i].n : i \in DOMAIN flushing}

OpensAwaited ==
  /\ ready => initialized
  /\ ~initialized => Opens(view) = {}
  /\ ready \/ (\E r \in waiting : r.method = "hello") => Opens(view) \subseteq Awaited

-----------------------------------------------------------------------------
(* Selections. *)

\* How many positions of I there are up to i.
Rank(I, i) == Cardinality({j \in I : j <= i})

\* The positions of I are ranked without gaps, in their order.
LEMMA Ranking ==
  ASSUME NEW n \in Nat, NEW I \in SUBSET (1..n)
  PROVE  /\ IsFiniteSet(I) /\ Cardinality(I) \in Nat
         /\ \A i \in I : Rank(I, i) \in 1..Cardinality(I)
         /\ \A i, j \in I : i < j => Rank(I, i) < Rank(I, j)
         /\ \A k \in 1..Cardinality(I) : \E i \in I : Rank(I, i) = k
<1>1. IsFiniteSet(I) /\ Cardinality(I) \in Nat
  <2>1. IsFiniteSet(1..n)
    BY FS_Interval
  <2> QED BY <2>1, FS_Subset, FS_CardinalityType
<1> DEFINE Below(i) == {j \in I : j <= i}
           c == Cardinality(I)
<1>2. \A i \in I : IsFiniteSet(Below(i)) /\ Cardinality(Below(i)) \in Nat
                     /\ Cardinality(Below(i)) <= c
  BY <1>1, FS_Subset, FS_CardinalityType
<1>3. ASSUME NEW i \in I
      PROVE  Rank(I, i) \in 1..c
  <2>1. Below(i) # {}
    OBVIOUS
  <2>2. Cardinality(Below(i)) # 0
    BY <1>2, <2>1, FS_EmptySet
  <2> QED BY <1>1, <1>2, <2>2 DEF Rank
<1>4. ASSUME NEW i \in I, NEW j \in I, i < j
      PROVE  Rank(I, i) < Rank(I, j)
  <2>1. Below(i) \subseteq Below(j) /\ j \in Below(j) /\ j \notin Below(i)
    <3>1. i \in Int /\ j \in Int /\ \A k \in I : k \in Int
      OBVIOUS
    <3>2. \A k \in I : k <= i => k <= j
      BY <1>4, <3>1
    <3>3. j <= j /\ ~ (j <= i)
      BY <1>4, <3>1
    <3> QED BY <3>2, <3>3
  <2>2. Below(i) # Below(j)
    BY <2>1
  <2>3. Cardinality(Below(i)) <= Cardinality(Below(j))
           /\ Cardinality(Below(i)) # Cardinality(Below(j))
    BY <1>2, <2>1, <2>2, FS_Subset
  <2> QED BY <1>2, <2>3 DEF Rank
<1>5. ASSUME NEW k \in 1..c
      PROVE  \E i \in I : Rank(I, i) = k
  <2> DEFINE rank == [i \in I |-> Rank(I, i)]
  <2>1. rank \in Injection(I, 1..c)
    <3>1. rank \in [I -> 1..c]
      BY <1>3
    <3>2. ASSUME NEW i \in I, NEW j \in I, rank[i] = rank[j]
          PROVE  i = j
      <4>1. i \in Int /\ j \in Int
        OBVIOUS
      <4>2. rank[i] = Rank(I, i) /\ rank[j] = Rank(I, j) /\ rank[i] \in Int
        BY <1>3
      <4>3. ~ (i < j) /\ ~ (j < i)
        BY <1>4, <3>2, <4>2
      <4> QED BY <4>1, <4>3
    <3>3. \A f \in [I -> 1..c] : (\A i, j \in I : f[i] = f[j] => i = j) => f \in Injection(I, 1..c)
      BY Zenon DEF Injection, IsInjective
    <3> HIDE DEF rank
    <3> QED BY <3>1, <3>2, <3>3
  <2>2. IsFiniteSet(1..c) /\ Cardinality(1..c) = c
    BY <1>1, FS_Interval
  <2>3. rank \in Surjection(I, 1..c)
    BY <2>1, <2>2, FS_Injection
  <2>4. PICK i \in I : rank[i] = k
    BY <2>3, Zenon DEF Surjection
  <2> QED BY <2>4
<1> QED BY <1>1, <1>3, <1>4, <1>5

\* What a selection holds: the elements at these positions, once each, in their order.
LEMMA Selecting ==
  ASSUME NEW A, NEW s \in Seq(A), NEW I \in SUBSET (DOMAIN s)
  PROVE  \E f \in [1..Cardinality(I) -> I] :
           /\ Selected(s, I) = [k \in 1..Cardinality(I) |-> s[f[k]]]
           /\ \A j, k \in 1..Cardinality(I) : j < k => f[j] < f[k]
           /\ \A i \in I : \E k \in 1..Cardinality(I) : f[k] = i
<1> DEFINE c == Cardinality(I)
           f == [k \in 1..c |-> CHOOSE i \in I : Rank(I, i) = k]
<1>1. Len(s) \in Nat /\ I \in SUBSET (1..Len(s))
  OBVIOUS
<1>2. c \in Nat /\ \A i \in I : Rank(I, i) \in 1..c
  BY <1>1, Ranking
<1>3. \A i, j \in I : i < j => Rank(I, i) < Rank(I, j)
  BY <1>1, Ranking
<1>4. \A k \in 1..c : \E i \in I : Rank(I, i) = k
  BY <1>1, Ranking
<1>5. \A k \in 1..c : f[k] \in I /\ Rank(I, f[k]) = k
  BY <1>4
<1>6. Selected(s, I) = [k \in 1..c |-> s[f[k]]]
  BY DEF Selected, Rank
<1>7. f \in [1..c -> I]
  BY <1>5
<1> HIDE DEF f
<1>8. ASSUME NEW j \in 1..c, NEW k \in 1..c, j < k
      PROVE  f[j] < f[k]
  <2>1. f[j] \in 1..Len(s) /\ f[k] \in 1..Len(s)
    BY <1>1, <1>5
  <2>2. f[j] # f[k] /\ ~ (f[k] < f[j])
    BY <1>3, <1>5, <1>8
  <2> QED BY <2>1, <2>2
<1>9. ASSUME NEW i \in I
      PROVE  \E k \in 1..c : f[k] = i
  <2> DEFINE k == Rank(I, i)
  <2>1. k \in 1..c /\ Rank(I, f[k]) = k /\ f[k] \in I
    BY <1>2, <1>5
  <2>2. i \in 1..Len(s) /\ f[k] \in 1..Len(s)
    BY <1>1, <2>1
  <2>3. ~ (i < f[k]) /\ ~ (f[k] < i)
    BY <1>2, <1>3, <2>1
  <2>4. f[k] = i
    BY <2>2, <2>3
  <2> QED BY <2>1, <2>4
<1> QED BY <1>6, <1>7, <1>8, <1>9

\* A selection is a sequence of the same kind.
LEMMA SelectedTyped ==
  ASSUME NEW A, NEW s \in Seq(A), NEW I \in SUBSET (DOMAIN s)
  PROVE  /\ Selected(s, I) \in Seq(A)
         /\ DOMAIN Selected(s, I) = 1..Cardinality(I) /\ Cardinality(I) \in Nat
         /\ \A k \in DOMAIN Selected(s, I) : \E i \in I : Selected(s, I)[k] = s[i]
         /\ \A i \in I : \E k \in DOMAIN Selected(s, I) : Selected(s, I)[k] = s[i]
<1> DEFINE c == Cardinality(I)
<1>1. PICK f \in [1..c -> I] :
           /\ Selected(s, I) = [k \in 1..c |-> s[f[k]]]
           /\ \A i \in I : \E k \in 1..c : f[k] = i
  BY Selecting
<1>2. c \in Nat
  <2>1. Len(s) \in Nat /\ I \in SUBSET (1..Len(s))
    OBVIOUS
  <2> QED BY <2>1, Ranking
<1>3. \A k \in 1..c : s[f[k]] \in A /\ f[k] \in I
  OBVIOUS
<1> DEFINE t == [k \in 1..c |-> s[f[k]]]
<1>4. t \in Seq(A) /\ DOMAIN t = 1..c
  BY <1>2, <1>3
<1>5. \A k \in 1..c : t[k] = s[f[k]]
  OBVIOUS
<1>6. Selected(s, I) = t
  BY <1>1
<1>7. \A i \in I : \E k \in 1..c : t[k] = s[i]
  BY <1>1, <1>5
<1> HIDE DEF t
<1> QED BY <1>2, <1>3, <1>4, <1>5, <1>6, <1>7

-----------------------------------------------------------------------------
(* Folds.  A fold over a finite set stays in a set that its steps do not leave. *)

\* The folds of the model, by name.
ApplySnapshots(v, ss) == FoldSet(LAMBDA s, w : ApplySnapshot(w, s), v, ss)
PrimeAll(v, us) == FoldSet(LAMBDA u, w : PrimeWithoutSnapshot(w, u), v, us)
LoseAll(v, us) == FoldSet(LAMBDA u, x : Restate(Lose(Drain(x, u), u), u), v, us)
RestatedBy(w, t) == IF t.uri \in Known(w) THEN ApplySnapshot(Lose(w, t.uri), t) ELSE w
RestateAll(v, ss) == FoldSet(LAMBDA t, w : RestatedBy(w, t), v, ss)
ReconcileAll(v, s) == FoldLeft(Reconcile, v, s)
SendFrames(q, t, s) == FoldLeft(LAMBDA p, r : SentUp(p, t, r), q, s)
ReleaseAll(v, s) == FoldLeft(LAMBDA x, w : Released(w, x), v, s)

\* ... and goes through a family of sets that its steps lead through.
LEMMA FoldReaches ==
  ASSUME NEW S, IsFiniteSet(S), NEW pick, Picks(pick, S), NEW A, NEW g, g[{}] \in A[{}],
         \A T \in SUBSET S :
           T # {} /\ g[T \ {pick[T]}] \in A[T \ {pick[T]}] => g[T] \in A[T]
  PROVE  g[S] \in A[S]
<1> DEFINE P == {T \in SUBSET S : g[T] \in A[T]}
<1>1. {} \in P
  OBVIOUS
<1>2. \A T \in SUBSET S : T # {} /\ T \ {pick[T]} \in P => T \in P
  OBVIOUS
<1>3. S \in SUBSET S
  OBVIOUS
<1> HIDE DEF P
<1>4. SUBSET S \subseteq P
  BY <1>1, <1>2, PickInduction
<1> QED BY <1>3, <1>4 DEF P

\* #forget, for several channels.  Every step of the fold leads from one member of a family of sets to the next:
ForgetAllAlong(A, G, v, us) ==
  /\ v \in A[{}]
  /\ \A T \in SUBSET us : \A u \in T, w \in G :
       w \in A[T \ {u}] => Forget(w, u) \in A[T]

\* ... so the fold ends in the last of them,
LEMMA ForgetAllReach ==
  ASSUME NEW G, NEW v \in G, NEW us, IsFiniteSet(us),
         \A u \in us, w \in G : Forget(w, u) \in G,
         NEW A, ForgetAllAlong(A, G, v, us)
  PROVE  ForgetAll(v, us) \in G /\ ForgetAll(v, us) \in A[us]
<1> DEFINE pick == [T \in SUBSET us |-> CHOOSE x \in T : TRUE]
           step == [x \in us |-> [w \in G |-> Forget(w, x)]]
           It(f) == f = [T \in SUBSET us |-> IF T = {} THEN v
                           ELSE LET x == CHOOSE x \in T : TRUE
                                IN  Forget(f[T \ {x}], x)]
           g == CHOOSE f : It(f)
<1>1. Picks(pick, us) /\ step \in [us -> [G -> G]]
  BY DEF Picks
<1>2. \A x \in us, w \in G : step[x][w] = Forget(w, x)
  OBVIOUS
<1>3. \A T \in SUBSET us : pick[T] = CHOOSE x \in T : TRUE
  OBVIOUS
<1>4. ForgetAll(v, us) = g[us]
  BY DEF ForgetAll, FoldSet, MapThenFoldSet
<1> HIDE DEF pick, step
<1>5. PICK f \in [SUBSET us -> G] : FoldedBy(f, v, pick, step, us)
  BY <1>1, SetRecursion
<1>6. ASSUME NEW T \in SUBSET us
      PROVE  f[T] = IF T = {} THEN v
                     ELSE Forget(f[T \ {pick[T]}], pick[T])
  <2>1. T # {} => pick[T] \in us /\ f[T \ {pick[T]}] \in G
    BY <1>1, <1>5 DEF Picks
  <2>2. f[T] = IF T = {} THEN v ELSE step[pick[T]][f[T \ {pick[T]}]]
    BY <1>5 DEF FoldedBy
  <2> QED BY <1>2, <2>1, <2>2
<1>7. It(f)
  BY <1>3, <1>5, <1>6
<1>8. It(g)
  BY <1>7
<1> HIDE DEF g
<1>9. \A T \in SUBSET us :
        g[T] = IF T = {} THEN v
               ELSE Forget(g[T \ {pick[T]}], pick[T])
  BY <1>3, <1>8
<1>10. ASSUME NEW T \in SUBSET us, T # {}, g[T \ {pick[T]}] \in G \cap A[T \ {pick[T]}]
       PROVE  g[T] \in G \cap A[T]
  <2>1. pick[T] \in T /\ pick[T] \in us
    BY <1>1, <1>10 DEF Picks
  <2>2. Forget(g[T \ {pick[T]}], pick[T]) \in G
    BY <1>10, <2>1
  <2>3. Forget(g[T \ {pick[T]}], pick[T]) \in A[T]
    BY <1>10, <2>1 DEF ForgetAllAlong
  <2> QED BY <1>9, <1>10, <2>2, <2>3
<1>11. g[{}] = v
  <2>1. {} \in SUBSET us
    OBVIOUS
  <2> QED BY <1>9, <2>1
<1> DEFINE B == [T \in SUBSET us |-> G \cap A[T]]
<1>12. /\ g[{}] \in B[{}]
       /\ \A T \in SUBSET us : T # {} /\ g[T \ {pick[T]}] \in B[T \ {pick[T]}] => g[T] \in B[T]
  BY <1>10, <1>11 DEF ForgetAllAlong
<1>13. us \in SUBSET us /\ B[us] = G \cap A[us]
  OBVIOUS
<1> HIDE DEF B
<1>14. g[us] \in B[us]
  BY <1>1, <1>12, FoldReaches
<1> QED BY <1>4, <1>13, <1>14

\* ... and does not leave a set that its steps do not leave.
LEMMA ForgetAllStays ==
  ASSUME NEW G, NEW v \in G, NEW us, IsFiniteSet(us),
         \A u \in us, w \in G : Forget(w, u) \in G
  PROVE  ForgetAll(v, us) \in G
<1> DEFINE A == [T \in SUBSET us |-> G]
<1>1. ForgetAllAlong(A, G, v, us)
  BY DEF ForgetAllAlong
<1>2. us \in SUBSET us
  OBVIOUS
<1> HIDE DEF A
<1> QED BY <1>1, ForgetAllReach

\* The callers of several requests that fail.  Every step of the fold leads from one member of a family of sets to the next:
FailuresAlong(A, G, v, rs, why) ==
  /\ v \in A[{}]
  /\ \A T \in SUBSET rs : \A r \in T, w \in G :
       w \in A[T \ {r}] => Failure(w, r, why) \in A[T]

\* ... so the fold ends in the last of them,
LEMMA FailuresReach ==
  ASSUME NEW G, NEW v \in G, NEW rs, IsFiniteSet(rs), NEW why,
         \A r \in rs, w \in G : Failure(w, r, why) \in G,
         NEW A, FailuresAlong(A, G, v, rs, why)
  PROVE  Failures(v, rs, why) \in G /\ Failures(v, rs, why) \in A[rs]
<1> DEFINE pick == [T \in SUBSET rs |-> CHOOSE x \in T : TRUE]
           step == [x \in rs |-> [w \in G |-> Failure(w, x, why)]]
           It(f) == f = [T \in SUBSET rs |-> IF T = {} THEN v
                           ELSE LET x == CHOOSE x \in T : TRUE
                                IN  Failure(f[T \ {x}], x, why)]
           g == CHOOSE f : It(f)
<1>1. Picks(pick, rs) /\ step \in [rs -> [G -> G]]
  BY DEF Picks
<1>2. \A x \in rs, w \in G : step[x][w] = Failure(w, x, why)
  OBVIOUS
<1>3. \A T \in SUBSET rs : pick[T] = CHOOSE x \in T : TRUE
  OBVIOUS
<1>4. Failures(v, rs, why) = g[rs]
  BY DEF Failures, FoldSet, MapThenFoldSet
<1> HIDE DEF pick, step
<1>5. PICK f \in [SUBSET rs -> G] : FoldedBy(f, v, pick, step, rs)
  BY <1>1, SetRecursion
<1>6. ASSUME NEW T \in SUBSET rs
      PROVE  f[T] = IF T = {} THEN v
                     ELSE Failure(f[T \ {pick[T]}], pick[T], why)
  <2>1. T # {} => pick[T] \in rs /\ f[T \ {pick[T]}] \in G
    BY <1>1, <1>5 DEF Picks
  <2>2. f[T] = IF T = {} THEN v ELSE step[pick[T]][f[T \ {pick[T]}]]
    BY <1>5 DEF FoldedBy
  <2> QED BY <1>2, <2>1, <2>2
<1>7. It(f)
  BY <1>3, <1>5, <1>6
<1>8. It(g)
  BY <1>7
<1> HIDE DEF g
<1>9. \A T \in SUBSET rs :
        g[T] = IF T = {} THEN v
               ELSE Failure(g[T \ {pick[T]}], pick[T], why)
  BY <1>3, <1>8
<1>10. ASSUME NEW T \in SUBSET rs, T # {}, g[T \ {pick[T]}] \in G \cap A[T \ {pick[T]}]
       PROVE  g[T] \in G \cap A[T]
  <2>1. pick[T] \in T /\ pick[T] \in rs
    BY <1>1, <1>10 DEF Picks
  <2>2. Failure(g[T \ {pick[T]}], pick[T], why) \in G
    BY <1>10, <2>1
  <2>3. Failure(g[T \ {pick[T]}], pick[T], why) \in A[T]
    BY <1>10, <2>1 DEF FailuresAlong
  <2> QED BY <1>9, <1>10, <2>2, <2>3
<1>11. g[{}] = v
  <2>1. {} \in SUBSET rs
    OBVIOUS
  <2> QED BY <1>9, <2>1
<1> DEFINE B == [T \in SUBSET rs |-> G \cap A[T]]
<1>12. /\ g[{}] \in B[{}]
       /\ \A T \in SUBSET rs : T # {} /\ g[T \ {pick[T]}] \in B[T \ {pick[T]}] => g[T] \in B[T]
  BY <1>10, <1>11 DEF FailuresAlong
<1>13. rs \in SUBSET rs /\ B[rs] = G \cap A[rs]
  OBVIOUS
<1> HIDE DEF B
<1>14. g[rs] \in B[rs]
  BY <1>1, <1>12, FoldReaches
<1> QED BY <1>4, <1>13, <1>14

\* ... and does not leave a set that its steps do not leave.
LEMMA FailuresStay ==
  ASSUME NEW G, NEW v \in G, NEW rs, IsFiniteSet(rs), NEW why,
         \A r \in rs, w \in G : Failure(w, r, why) \in G
  PROVE  Failures(v, rs, why) \in G
<1> DEFINE A == [T \in SUBSET rs |-> G]
<1>1. FailuresAlong(A, G, v, rs, why)
  BY DEF FailuresAlong
<1>2. rs \in SUBSET rs
  OBVIOUS
<1> HIDE DEF A
<1> QED BY <1>1, FailuresReach

\* Several snapshots.  Every step of the fold leads from one member of a family of sets to the next:
ApplySnapshotsAlong(A, G, v, ss) ==
  /\ v \in A[{}]
  /\ \A T \in SUBSET ss : \A s \in T, w \in G :
       w \in A[T \ {s}] => ApplySnapshot(w, s) \in A[T]

\* ... so the fold ends in the last of them,
LEMMA ApplySnapshotsReach ==
  ASSUME NEW G, NEW v \in G, NEW ss, IsFiniteSet(ss),
         \A s \in ss, w \in G : ApplySnapshot(w, s) \in G,
         NEW A, ApplySnapshotsAlong(A, G, v, ss)
  PROVE  ApplySnapshots(v, ss) \in G /\ ApplySnapshots(v, ss) \in A[ss]
<1> DEFINE pick == [T \in SUBSET ss |-> CHOOSE x \in T : TRUE]
           step == [x \in ss |-> [w \in G |-> ApplySnapshot(w, x)]]
           It(f) == f = [T \in SUBSET ss |-> IF T = {} THEN v
                           ELSE LET x == CHOOSE x \in T : TRUE
                                IN  ApplySnapshot(f[T \ {x}], x)]
           g == CHOOSE f : It(f)
<1>1. Picks(pick, ss) /\ step \in [ss -> [G -> G]]
  BY DEF Picks
<1>2. \A x \in ss, w \in G : step[x][w] = ApplySnapshot(w, x)
  OBVIOUS
<1>3. \A T \in SUBSET ss : pick[T] = CHOOSE x \in T : TRUE
  OBVIOUS
<1>4. ApplySnapshots(v, ss) = g[ss]
  BY DEF ApplySnapshots, FoldSet, MapThenFoldSet
<1> HIDE DEF pick, step
<1>5. PICK f \in [SUBSET ss -> G] : FoldedBy(f, v, pick, step, ss)
  BY <1>1, SetRecursion
<1>6. ASSUME NEW T \in SUBSET ss
      PROVE  f[T] = IF T = {} THEN v
                     ELSE ApplySnapshot(f[T \ {pick[T]}], pick[T])
  <2>1. T # {} => pick[T] \in ss /\ f[T \ {pick[T]}] \in G
    BY <1>1, <1>5 DEF Picks
  <2>2. f[T] = IF T = {} THEN v ELSE step[pick[T]][f[T \ {pick[T]}]]
    BY <1>5 DEF FoldedBy
  <2> QED BY <1>2, <2>1, <2>2
<1>7. It(f)
  BY <1>3, <1>5, <1>6
<1>8. It(g)
  BY <1>7
<1> HIDE DEF g
<1>9. \A T \in SUBSET ss :
        g[T] = IF T = {} THEN v
               ELSE ApplySnapshot(g[T \ {pick[T]}], pick[T])
  BY <1>3, <1>8
<1>10. ASSUME NEW T \in SUBSET ss, T # {}, g[T \ {pick[T]}] \in G \cap A[T \ {pick[T]}]
       PROVE  g[T] \in G \cap A[T]
  <2>1. pick[T] \in T /\ pick[T] \in ss
    BY <1>1, <1>10 DEF Picks
  <2>2. ApplySnapshot(g[T \ {pick[T]}], pick[T]) \in G
    BY <1>10, <2>1
  <2>3. ApplySnapshot(g[T \ {pick[T]}], pick[T]) \in A[T]
    BY <1>10, <2>1 DEF ApplySnapshotsAlong
  <2> QED BY <1>9, <1>10, <2>2, <2>3
<1>11. g[{}] = v
  <2>1. {} \in SUBSET ss
    OBVIOUS
  <2> QED BY <1>9, <2>1
<1> DEFINE B == [T \in SUBSET ss |-> G \cap A[T]]
<1>12. /\ g[{}] \in B[{}]
       /\ \A T \in SUBSET ss : T # {} /\ g[T \ {pick[T]}] \in B[T \ {pick[T]}] => g[T] \in B[T]
  BY <1>10, <1>11 DEF ApplySnapshotsAlong
<1>13. ss \in SUBSET ss /\ B[ss] = G \cap A[ss]
  OBVIOUS
<1> HIDE DEF B
<1>14. g[ss] \in B[ss]
  BY <1>1, <1>12, FoldReaches
<1> QED BY <1>4, <1>13, <1>14

\* ... and does not leave a set that its steps do not leave.
LEMMA ApplySnapshotsStay ==
  ASSUME NEW G, NEW v \in G, NEW ss, IsFiniteSet(ss),
         \A s \in ss, w \in G : ApplySnapshot(w, s) \in G
  PROVE  ApplySnapshots(v, ss) \in G
<1> DEFINE A == [T \in SUBSET ss |-> G]
<1>1. ApplySnapshotsAlong(A, G, v, ss)
  BY DEF ApplySnapshotsAlong
<1>2. ss \in SUBSET ss
  OBVIOUS
<1> HIDE DEF A
<1> QED BY <1>1, ApplySnapshotsReach

\* Several channels that get no snapshot.  Every step of the fold leads from one member of a family of sets to the next:
PrimeAllAlong(A, G, v, us) ==
  /\ v \in A[{}]
  /\ \A T \in SUBSET us : \A u \in T, w \in G :
       w \in A[T \ {u}] => PrimeWithoutSnapshot(w, u) \in A[T]

\* ... so the fold ends in the last of them,
LEMMA PrimeAllReach ==
  ASSUME NEW G, NEW v \in G, NEW us, IsFiniteSet(us),
         \A u \in us, w \in G : PrimeWithoutSnapshot(w, u) \in G,
         NEW A, PrimeAllAlong(A, G, v, us)
  PROVE  PrimeAll(v, us) \in G /\ PrimeAll(v, us) \in A[us]
<1> DEFINE pick == [T \in SUBSET us |-> CHOOSE x \in T : TRUE]
           step == [x \in us |-> [w \in G |-> PrimeWithoutSnapshot(w, x)]]
           It(f) == f = [T \in SUBSET us |-> IF T = {} THEN v
                           ELSE LET x == CHOOSE x \in T : TRUE
                                IN  PrimeWithoutSnapshot(f[T \ {x}], x)]
           g == CHOOSE f : It(f)
<1>1. Picks(pick, us) /\ step \in [us -> [G -> G]]
  BY DEF Picks
<1>2. \A x \in us, w \in G : step[x][w] = PrimeWithoutSnapshot(w, x)
  OBVIOUS
<1>3. \A T \in SUBSET us : pick[T] = CHOOSE x \in T : TRUE
  OBVIOUS
<1>4. PrimeAll(v, us) = g[us]
  BY DEF PrimeAll, FoldSet, MapThenFoldSet
<1> HIDE DEF pick, step
<1>5. PICK f \in [SUBSET us -> G] : FoldedBy(f, v, pick, step, us)
  BY <1>1, SetRecursion
<1>6. ASSUME NEW T \in SUBSET us
      PROVE  f[T] = IF T = {} THEN v
                     ELSE PrimeWithoutSnapshot(f[T \ {pick[T]}], pick[T])
  <2>1. T # {} => pick[T] \in us /\ f[T \ {pick[T]}] \in G
    BY <1>1, <1>5 DEF Picks
  <2>2. f[T] = IF T = {} THEN v ELSE step[pick[T]][f[T \ {pick[T]}]]
    BY <1>5 DEF FoldedBy
  <2> QED BY <1>2, <2>1, <2>2
<1>7. It(f)
  BY <1>3, <1>5, <1>6
<1>8. It(g)
  BY <1>7
<1> HIDE DEF g
<1>9. \A T \in SUBSET us :
        g[T] = IF T = {} THEN v
               ELSE PrimeWithoutSnapshot(g[T \ {pick[T]}], pick[T])
  BY <1>3, <1>8
<1>10. ASSUME NEW T \in SUBSET us, T # {}, g[T \ {pick[T]}] \in G \cap A[T \ {pick[T]}]
       PROVE  g[T] \in G \cap A[T]
  <2>1. pick[T] \in T /\ pick[T] \in us
    BY <1>1, <1>10 DEF Picks
  <2>2. PrimeWithoutSnapshot(g[T \ {pick[T]}], pick[T]) \in G
    BY <1>10, <2>1
  <2>3. PrimeWithoutSnapshot(g[T \ {pick[T]}], pick[T]) \in A[T]
    BY <1>10, <2>1 DEF PrimeAllAlong
  <2> QED BY <1>9, <1>10, <2>2, <2>3
<1>11. g[{}] = v
  <2>1. {} \in SUBSET us
    OBVIOUS
  <2> QED BY <1>9, <2>1
<1> DEFINE B == [T \in SUBSET us |-> G \cap A[T]]
<1>12. /\ g[{}] \in B[{}]
       /\ \A T \in SUBSET us : T # {} /\ g[T \ {pick[T]}] \in B[T \ {pick[T]}] => g[T] \in B[T]
  BY <1>10, <1>11 DEF PrimeAllAlong
<1>13. us \in SUBSET us /\ B[us] = G \cap A[us]
  OBVIOUS
<1> HIDE DEF B
<1>14. g[us] \in B[us]
  BY <1>1, <1>12, FoldReaches
<1> QED BY <1>4, <1>13, <1>14

\* ... and does not leave a set that its steps do not leave.
LEMMA PrimeAllStays ==
  ASSUME NEW G, NEW v \in G, NEW us, IsFiniteSet(us),
         \A u \in us, w \in G : PrimeWithoutSnapshot(w, u) \in G
  PROVE  PrimeAll(v, us) \in G
<1> DEFINE A == [T \in SUBSET us |-> G]
<1>1. PrimeAllAlong(A, G, v, us)
  BY DEF PrimeAllAlong
<1>2. us \in SUBSET us
  OBVIOUS
<1> HIDE DEF A
<1> QED BY <1>1, PrimeAllReach

\* What a replay did not settle is given up, channel by channel.  Every step of the fold leads from one member of a family of sets to the next:
LoseAllAlong(A, G, v, us) ==
  /\ v \in A[{}]
  /\ \A T \in SUBSET us : \A u \in T, w \in G :
       w \in A[T \ {u}] => Restate(Lose(Drain(w, u), u), u) \in A[T]

\* ... so the fold ends in the last of them,
LEMMA LoseAllReach ==
  ASSUME NEW G, NEW v \in G, NEW us, IsFiniteSet(us),
         \A u \in us, w \in G : Restate(Lose(Drain(w, u), u), u) \in G,
         NEW A, LoseAllAlong(A, G, v, us)
  PROVE  LoseAll(v, us) \in G /\ LoseAll(v, us) \in A[us]
<1> DEFINE pick == [T \in SUBSET us |-> CHOOSE x \in T : TRUE]
           step == [x \in us |-> [w \in G |-> Restate(Lose(Drain(w, x), x), x)]]
           It(f) == f = [T \in SUBSET us |-> IF T = {} THEN v
                           ELSE LET x == CHOOSE x \in T : TRUE
                                IN  Restate(Lose(Drain(f[T \ {x}], x), x), x)]
           g == CHOOSE f : It(f)
<1>1. Picks(pick, us) /\ step \in [us -> [G -> G]]
  BY DEF Picks
<1>2. \A x \in us, w \in G : step[x][w] = Restate(Lose(Drain(w, x), x), x)
  OBVIOUS
<1>3. \A T \in SUBSET us : pick[T] = CHOOSE x \in T : TRUE
  OBVIOUS
<1>4. LoseAll(v, us) = g[us]
  BY DEF LoseAll, FoldSet, MapThenFoldSet
<1> HIDE DEF pick, step
<1>5. PICK f \in [SUBSET us -> G] : FoldedBy(f, v, pick, step, us)
  BY <1>1, SetRecursion
<1>6. ASSUME NEW T \in SUBSET us
      PROVE  f[T] = IF T = {} THEN v
                     ELSE Restate(Lose(Drain(f[T \ {pick[T]}], pick[T]), pick[T]), pick[T])
  <2>1. T # {} => pick[T] \in us /\ f[T \ {pick[T]}] \in G
    BY <1>1, <1>5 DEF Picks
  <2>2. f[T] = IF T = {} THEN v ELSE step[pick[T]][f[T \ {pick[T]}]]
    BY <1>5 DEF FoldedBy
  <2> QED BY <1>2, <2>1, <2>2
<1>7. It(f)
  BY <1>3, <1>5, <1>6
<1>8. It(g)
  BY <1>7
<1> HIDE DEF g
<1>9. \A T \in SUBSET us :
        g[T] = IF T = {} THEN v
               ELSE Restate(Lose(Drain(g[T \ {pick[T]}], pick[T]), pick[T]), pick[T])
  BY <1>3, <1>8
<1>10. ASSUME NEW T \in SUBSET us, T # {}, g[T \ {pick[T]}] \in G \cap A[T \ {pick[T]}]
       PROVE  g[T] \in G \cap A[T]
  <2>1. pick[T] \in T /\ pick[T] \in us
    BY <1>1, <1>10 DEF Picks
  <2>2. Restate(Lose(Drain(g[T \ {pick[T]}], pick[T]), pick[T]), pick[T]) \in G
    BY <1>10, <2>1
  <2>3. Restate(Lose(Drain(g[T \ {pick[T]}], pick[T]), pick[T]), pick[T]) \in A[T]
    BY <1>10, <2>1 DEF LoseAllAlong
  <2> QED BY <1>9, <1>10, <2>2, <2>3
<1>11. g[{}] = v
  <2>1. {} \in SUBSET us
    OBVIOUS
  <2> QED BY <1>9, <2>1
<1> DEFINE B == [T \in SUBSET us |-> G \cap A[T]]
<1>12. /\ g[{}] \in B[{}]
       /\ \A T \in SUBSET us : T # {} /\ g[T \ {pick[T]}] \in B[T \ {pick[T]}] => g[T] \in B[T]
  BY <1>10, <1>11 DEF LoseAllAlong
<1>13. us \in SUBSET us /\ B[us] = G \cap A[us]
  OBVIOUS
<1> HIDE DEF B
<1>14. g[us] \in B[us]
  BY <1>1, <1>12, FoldReaches
<1> QED BY <1>4, <1>13, <1>14

\* ... and does not leave a set that its steps do not leave.
LEMMA LoseAllStays ==
  ASSUME NEW G, NEW v \in G, NEW us, IsFiniteSet(us),
         \A u \in us, w \in G : Restate(Lose(Drain(w, u), u), u) \in G
  PROVE  LoseAll(v, us) \in G
<1> DEFINE A == [T \in SUBSET us |-> G]
<1>1. LoseAllAlong(A, G, v, us)
  BY DEF LoseAllAlong
<1>2. us \in SUBSET us
  OBVIOUS
<1> HIDE DEF A
<1> QED BY <1>1, LoseAllReach

\* The snapshots of a reconnect.  Every step of the fold leads from one member of a family of sets to the next:
RestateAllAlong(A, G, v, ss) ==
  /\ v \in A[{}]
  /\ \A T \in SUBSET ss : \A s \in T, w \in G :
       w \in A[T \ {s}] => RestatedBy(w, s) \in A[T]

\* ... so the fold ends in the last of them,
LEMMA RestateAllReach ==
  ASSUME NEW G, NEW v \in G, NEW ss, IsFiniteSet(ss),
         \A s \in ss, w \in G :
           RestatedBy(w, s) \in G,
         NEW A, RestateAllAlong(A, G, v, ss)
  PROVE  RestateAll(v, ss) \in G /\ RestateAll(v, ss) \in A[ss]
<1> DEFINE pick == [T \in SUBSET ss |-> CHOOSE x \in T : TRUE]
           step == [x \in ss |-> [w \in G |->
                      RestatedBy(w, x)]]
           It(f) == f = [T \in SUBSET ss |-> IF T = {} THEN v
                           ELSE LET x == CHOOSE x \in T : TRUE
                                IN  RestatedBy(f[T \ {x}], x)]
           g == CHOOSE f : It(f)
<1>1. Picks(pick, ss) /\ step \in [ss -> [G -> G]]
  BY DEF Picks
<1>2. \A x \in ss, w \in G :
        step[x][w] = RestatedBy(w, x)
  OBVIOUS
<1>3. \A T \in SUBSET ss : pick[T] = CHOOSE x \in T : TRUE
  OBVIOUS
<1>4. RestateAll(v, ss) = g[ss]
  BY DEF RestateAll, FoldSet, MapThenFoldSet
<1> HIDE DEF pick, step
<1>5. PICK f \in [SUBSET ss -> G] : FoldedBy(f, v, pick, step, ss)
  BY <1>1, SetRecursion
<1>6. ASSUME NEW T \in SUBSET ss
      PROVE  f[T] = IF T = {} THEN v
                     ELSE RestatedBy(f[T \ {pick[T]}], pick[T])
  <2>1. T # {} => pick[T] \in ss /\ f[T \ {pick[T]}] \in G
    BY <1>1, <1>5 DEF Picks
  <2>2. f[T] = IF T = {} THEN v ELSE step[pick[T]][f[T \ {pick[T]}]]
    BY <1>5 DEF FoldedBy
  <2> QED BY <1>2, <2>1, <2>2
<1>7. It(f)
  BY <1>3, <1>5, <1>6
<1>8. It(g)
  BY <1>7
<1> HIDE DEF g
<1>9. \A T \in SUBSET ss :
        g[T] = IF T = {} THEN v
               ELSE RestatedBy(g[T \ {pick[T]}], pick[T])
  BY <1>3, <1>8
<1>10. ASSUME NEW T \in SUBSET ss, T # {}, g[T \ {pick[T]}] \in G \cap A[T \ {pick[T]}]
       PROVE  g[T] \in G \cap A[T]
  <2>1. pick[T] \in T /\ pick[T] \in ss
    BY <1>1, <1>10 DEF Picks
  <2>2. RestatedBy(g[T \ {pick[T]}], pick[T]) \in G
    BY <1>10, <2>1
  <2>3. RestatedBy(g[T \ {pick[T]}], pick[T]) \in A[T]
    BY <1>10, <2>1 DEF RestateAllAlong
  <2> QED BY <1>9, <1>10, <2>2, <2>3
<1>11. g[{}] = v
  <2>1. {} \in SUBSET ss
    OBVIOUS
  <2> QED BY <1>9, <2>1
<1> DEFINE B == [T \in SUBSET ss |-> G \cap A[T]]
<1>12. /\ g[{}] \in B[{}]
       /\ \A T \in SUBSET ss : T # {} /\ g[T \ {pick[T]}] \in B[T \ {pick[T]}] => g[T] \in B[T]
  BY <1>10, <1>11 DEF RestateAllAlong
<1>13. ss \in SUBSET ss /\ B[ss] = G \cap A[ss]
  OBVIOUS
<1> HIDE DEF B
<1>14. g[ss] \in B[ss]
  BY <1>1, <1>12, FoldReaches
<1> QED BY <1>4, <1>13, <1>14

\* ... and does not leave a set that its steps do not leave.
LEMMA RestateAllStays ==
  ASSUME NEW G, NEW v \in G, NEW ss, IsFiniteSet(ss),
         \A s \in ss, w \in G :
           RestatedBy(w, s) \in G
  PROVE  RestateAll(v, ss) \in G
<1> DEFINE A == [T \in SUBSET ss |-> G]
<1>1. RestateAllAlong(A, G, v, ss)
  BY DEF RestateAllAlong
<1>2. ss \in SUBSET ss
  OBVIOUS
<1> HIDE DEF A
<1> QED BY <1>1, RestateAllReach

-----------------------------------------------------------------------------
(* Folds over a sequence: one value per prefix. *)

\* The last position of a part of a sequence, and of a prefix.
LEMMA MaxPicks ==
  ASSUME NEW l \in Nat
  PROVE  /\ \A T \in SUBSET (1..l) : T # {} => Max(T) \in T
         /\ \A i \in 1..l : Max(1..i) = i /\ (1..i) \ {i} = 1..(i - 1)
<1>1. ASSUME NEW T \in SUBSET (1..l), T # {}
      PROVE  Max(T) \in T
  <2>0. T \in SUBSET (0..l)
    OBVIOUS
  <2>1. PICK k \in T : \A m \in T : m <= k
    BY <1>1, <2>0, Greatest
  <2>2. \A m \in T : k >= m
    BY <2>1
  <2> QED BY <2>2 DEF Max
<1>2. ASSUME NEW i \in 1..l
      PROVE  Max(1..i) = i /\ (1..i) \ {i} = 1..(i - 1)
  <2>1. i \in 1..i /\ \A m \in 1..i : i >= m
    OBVIOUS
  <2>2. \A k \in 1..i : (\A m \in 1..i : k >= m) => k = i
    BY <2>1
  <2>3. Max(1..i) = i
    BY <2>1, <2>2 DEF Max
  <2>4. (1..i) \ {i} = 1..(i - 1)
    OBVIOUS
  <2> QED BY <2>3, <2>4
<1> QED BY <1>1, <1>2

\* Envelopes handled one after the other.
LEMMA InboundAllSteps ==
  ASSUME NEW A, NEW G, NEW v \in G, NEW s \in Seq(A),
         \A e \in A, w \in G : Inbound(w, e) \in G
  PROVE  \E h \in [0..Len(s) -> G] :
           /\ h[0] = v /\ h[Len(s)] = InboundAll(v, s)
           /\ \A i \in 1..Len(s) : h[i] = Inbound(h[i - 1], s[i])
<1> DEFINE l == Len(s)
           D == DOMAIN s
           pick == [T \in SUBSET D |-> Max(T)]
           step == [i \in D |-> [w \in G |-> Inbound(w, s[i])]]
           It(f) == f = [T \in SUBSET D |-> IF T = {} THEN v
                           ELSE LET x == Max(T) IN Inbound(f[T \ {x}], s[x])]
           g == CHOOSE f : It(f)
           h == [i \in 0..l |-> g[1..i]]
<1>1. l \in Nat /\ D = 1..l /\ IsFiniteSet(D) /\ \A i \in D : s[i] \in A
  <2>1. l \in Nat /\ D = 1..l
    OBVIOUS
  <2>2. IsFiniteSet(1..l)
    BY <2>1, FS_Interval
  <2>3. \A i \in D : s[i] \in A
    OBVIOUS
  <2> QED BY <2>1, <2>2, <2>3
<1>2. InboundAll(v, s) = g[D]
  BY DEF InboundAll, FoldLeft, MapThenFoldSet
<1> HIDE DEF l, D
<1>3. \A T \in SUBSET D : pick[T] = Max(T)
  OBVIOUS
<1>4. Picks(pick, D)
  BY <1>1, <1>3, MaxPicks DEF Picks
<1>5. step \in [D -> [G -> G]] /\ \A i \in D, w \in G : step[i][w] = Inbound(w, s[i])
  BY <1>1
<1> HIDE DEF pick, step
<1>6. PICK f \in [SUBSET D -> G] : FoldedBy(f, v, pick, step, D)
  BY <1>1, <1>4, <1>5, SetRecursion
<1>7. ASSUME NEW T \in SUBSET D
      PROVE  f[T] = IF T = {} THEN v
                     ELSE Inbound(f[T \ {pick[T]}], s[pick[T]])
  <2>1. T # {} => pick[T] \in D /\ f[T \ {pick[T]}] \in G
    BY <1>4, <1>6 DEF Picks
  <2>2. f[T] = IF T = {} THEN v ELSE step[pick[T]][f[T \ {pick[T]}]]
    BY <1>6 DEF FoldedBy
  <2> QED BY <1>5, <2>1, <2>2
<1>8. It(f)
  BY <1>3, <1>6, <1>7
<1>9. It(g)
  BY <1>8
<1> HIDE DEF g
<1>10. \A T \in SUBSET D : g[T] = IF T = {} THEN v ELSE Inbound(g[T \ {pick[T]}], s[pick[T]])
  BY <1>3, <1>9
<1>11. ASSUME NEW T \in SUBSET D, T # {}, g[T \ {pick[T]}] \in G
       PROVE  g[T] \in G
  <2>1. pick[T] \in D
    BY <1>4, <1>11 DEF Picks
  <2>2. Inbound(g[T \ {pick[T]}], s[pick[T]]) \in G
    BY <1>1, <1>11, <2>1
  <2> QED BY <1>10, <1>11, <2>2
<1>12. g[{}] = v
  <2>1. {} \in SUBSET D
    OBVIOUS
  <2> QED BY <1>10, <2>1
<1>13. \A T \in SUBSET D : g[T] \in G
  BY <1>1, <1>4, <1>11, <1>12, FoldStays
<1>14. \A i \in 0..l : 1..i \in SUBSET D /\ h[i] = g[1..i]
  BY <1>1
<1>15. h \in [0..l -> G]
  BY <1>13, <1>14
<1>16. ASSUME NEW i \in 1..l
       PROVE  h[i] = Inbound(h[i - 1], s[i])
  <2>1. 1..i \in SUBSET D /\ 1..i # {} /\ Max(1..i) = i /\ (1..i) \ {i} = 1..(i - 1)
    <3>1. Max(1..i) = i /\ (1..i) \ {i} = 1..(i - 1)
      BY <1>1, MaxPicks
    <3>2. i \in 1..i /\ 1..i \in SUBSET D
      BY <1>1
    <3> QED BY <3>1, <3>2
  <2>2. pick[1..i] = i
    BY <1>3, <2>1
  <2>3. g[1..i] = Inbound(g[1..(i - 1)], s[i])
    BY <1>10, <2>1, <2>2
  <2>4. i \in 0..l /\ i - 1 \in 0..l
    BY <1>1
  <2> QED BY <1>14, <2>3, <2>4
<1>17. h[0] = v /\ h[l] = g[D]
  <2>1. 0 \in 0..l /\ l \in 0..l /\ 1..0 = {}
    BY <1>1
  <2> QED BY <1>1, <1>12, <1>14, <2>1
<1> HIDE DEF h
<1> QED BY <1>2, <1>15, <1>16, <1>17 DEF l

\* Envelopes that were held back.
LEMMA DrainSteps ==
  ASSUME NEW A, NEW G, NEW v \in G, NEW s \in Seq(A),
         \A e \in A, w \in G : Reconcile(w, e) \in G
  PROVE  \E h \in [0..Len(s) -> G] :
           /\ h[0] = v /\ h[Len(s)] = ReconcileAll(v, s)
           /\ \A i \in 1..Len(s) : h[i] = Reconcile(h[i - 1], s[i])
<1> DEFINE l == Len(s)
           D == DOMAIN s
           pick == [T \in SUBSET D |-> Max(T)]
           step == [i \in D |-> [w \in G |-> Reconcile(w, s[i])]]
           It(f) == f = [T \in SUBSET D |-> IF T = {} THEN v
                           ELSE LET x == Max(T) IN Reconcile(f[T \ {x}], s[x])]
           g == CHOOSE f : It(f)
           h == [i \in 0..l |-> g[1..i]]
<1>1. l \in Nat /\ D = 1..l /\ IsFiniteSet(D) /\ \A i \in D : s[i] \in A
  <2>1. l \in Nat /\ D = 1..l
    OBVIOUS
  <2>2. IsFiniteSet(1..l)
    BY <2>1, FS_Interval
  <2>3. \A i \in D : s[i] \in A
    OBVIOUS
  <2> QED BY <2>1, <2>2, <2>3
<1>2. ReconcileAll(v, s) = g[D]
  BY DEF ReconcileAll, FoldLeft, MapThenFoldSet
<1> HIDE DEF l, D
<1>3. \A T \in SUBSET D : pick[T] = Max(T)
  OBVIOUS
<1>4. Picks(pick, D)
  BY <1>1, <1>3, MaxPicks DEF Picks
<1>5. step \in [D -> [G -> G]] /\ \A i \in D, w \in G : step[i][w] = Reconcile(w, s[i])
  BY <1>1
<1> HIDE DEF pick, step
<1>6. PICK f \in [SUBSET D -> G] : FoldedBy(f, v, pick, step, D)
  BY <1>1, <1>4, <1>5, SetRecursion
<1>7. ASSUME NEW T \in SUBSET D
      PROVE  f[T] = IF T = {} THEN v
                     ELSE Reconcile(f[T \ {pick[T]}], s[pick[T]])
  <2>1. T # {} => pick[T] \in D /\ f[T \ {pick[T]}] \in G
    BY <1>4, <1>6 DEF Picks
  <2>2. f[T] = IF T = {} THEN v ELSE step[pick[T]][f[T \ {pick[T]}]]
    BY <1>6 DEF FoldedBy
  <2> QED BY <1>5, <2>1, <2>2
<1>8. It(f)
  BY <1>3, <1>6, <1>7
<1>9. It(g)
  BY <1>8
<1> HIDE DEF g
<1>10. \A T \in SUBSET D : g[T] = IF T = {} THEN v ELSE Reconcile(g[T \ {pick[T]}], s[pick[T]])
  BY <1>3, <1>9
<1>11. ASSUME NEW T \in SUBSET D, T # {}, g[T \ {pick[T]}] \in G
       PROVE  g[T] \in G
  <2>1. pick[T] \in D
    BY <1>4, <1>11 DEF Picks
  <2>2. Reconcile(g[T \ {pick[T]}], s[pick[T]]) \in G
    BY <1>1, <1>11, <2>1
  <2> QED BY <1>10, <1>11, <2>2
<1>12. g[{}] = v
  <2>1. {} \in SUBSET D
    OBVIOUS
  <2> QED BY <1>10, <2>1
<1>13. \A T \in SUBSET D : g[T] \in G
  BY <1>1, <1>4, <1>11, <1>12, FoldStays
<1>14. \A i \in 0..l : 1..i \in SUBSET D /\ h[i] = g[1..i]
  BY <1>1
<1>15. h \in [0..l -> G]
  BY <1>13, <1>14
<1>16. ASSUME NEW i \in 1..l
       PROVE  h[i] = Reconcile(h[i - 1], s[i])
  <2>1. 1..i \in SUBSET D /\ 1..i # {} /\ Max(1..i) = i /\ (1..i) \ {i} = 1..(i - 1)
    <3>1. Max(1..i) = i /\ (1..i) \ {i} = 1..(i - 1)
      BY <1>1, MaxPicks
    <3>2. i \in 1..i /\ 1..i \in SUBSET D
      BY <1>1
    <3> QED BY <3>1, <3>2
  <2>2. pick[1..i] = i
    BY <1>3, <2>1
  <2>3. g[1..i] = Reconcile(g[1..(i - 1)], s[i])
    BY <1>10, <2>1, <2>2
  <2>4. i \in 0..l /\ i - 1 \in 0..l
    BY <1>1
  <2> QED BY <1>14, <2>3, <2>4
<1>17. h[0] = v /\ h[l] = g[D]
  <2>1. 0 \in 0..l /\ l \in 0..l /\ 1..0 = {}
    BY <1>1
  <2> QED BY <1>1, <1>12, <1>14, <2>1
<1> HIDE DEF h
<1> QED BY <1>2, <1>15, <1>16, <1>17 DEF l

\* Callers whose flush returns.
LEMMA ReleaseSteps ==
  ASSUME NEW A, NEW G, NEW v \in G, NEW s \in Seq(A),
         \A e \in A, w \in G : Released(e, w) \in G
  PROVE  \E h \in [0..Len(s) -> G] :
           /\ h[0] = v /\ h[Len(s)] = ReleaseAll(v, s)
           /\ \A i \in 1..Len(s) : h[i] = Released(s[i], h[i - 1])
<1> DEFINE l == Len(s)
           D == DOMAIN s
           pick == [T \in SUBSET D |-> Max(T)]
           step == [i \in D |-> [w \in G |-> Released(s[i], w)]]
           It(f) == f = [T \in SUBSET D |-> IF T = {} THEN v
                           ELSE LET x == Max(T) IN Released(s[x], f[T \ {x}])]
           g == CHOOSE f : It(f)
           h == [i \in 0..l |-> g[1..i]]
<1>1. l \in Nat /\ D = 1..l /\ IsFiniteSet(D) /\ \A i \in D : s[i] \in A
  <2>1. l \in Nat /\ D = 1..l
    OBVIOUS
  <2>2. IsFiniteSet(1..l)
    BY <2>1, FS_Interval
  <2>3. \A i \in D : s[i] \in A
    OBVIOUS
  <2> QED BY <2>1, <2>2, <2>3
<1>2. ReleaseAll(v, s) = g[D]
  BY DEF ReleaseAll, FoldLeft, MapThenFoldSet
<1> HIDE DEF l, D
<1>3. \A T \in SUBSET D : pick[T] = Max(T)
  OBVIOUS
<1>4. Picks(pick, D)
  BY <1>1, <1>3, MaxPicks DEF Picks
<1>5. step \in [D -> [G -> G]] /\ \A i \in D, w \in G : step[i][w] = Released(s[i], w)
  BY <1>1
<1> HIDE DEF pick, step
<1>6. PICK f \in [SUBSET D -> G] : FoldedBy(f, v, pick, step, D)
  BY <1>1, <1>4, <1>5, SetRecursion
<1>7. ASSUME NEW T \in SUBSET D
      PROVE  f[T] = IF T = {} THEN v
                     ELSE Released(s[pick[T]], f[T \ {pick[T]}])
  <2>1. T # {} => pick[T] \in D /\ f[T \ {pick[T]}] \in G
    BY <1>4, <1>6 DEF Picks
  <2>2. f[T] = IF T = {} THEN v ELSE step[pick[T]][f[T \ {pick[T]}]]
    BY <1>6 DEF FoldedBy
  <2> QED BY <1>5, <2>1, <2>2
<1>8. It(f)
  BY <1>3, <1>6, <1>7
<1>9. It(g)
  BY <1>8
<1> HIDE DEF g
<1>10. \A T \in SUBSET D : g[T] = IF T = {} THEN v ELSE Released(s[pick[T]], g[T \ {pick[T]}])
  BY <1>3, <1>9
<1>11. ASSUME NEW T \in SUBSET D, T # {}, g[T \ {pick[T]}] \in G
       PROVE  g[T] \in G
  <2>1. pick[T] \in D
    BY <1>4, <1>11 DEF Picks
  <2>2. Released(s[pick[T]], g[T \ {pick[T]}]) \in G
    BY <1>1, <1>11, <2>1
  <2> QED BY <1>10, <1>11, <2>2
<1>12. g[{}] = v
  <2>1. {} \in SUBSET D
    OBVIOUS
  <2> QED BY <1>10, <2>1
<1>13. \A T \in SUBSET D : g[T] \in G
  BY <1>1, <1>4, <1>11, <1>12, FoldStays
<1>14. \A i \in 0..l : 1..i \in SUBSET D /\ h[i] = g[1..i]
  BY <1>1
<1>15. h \in [0..l -> G]
  BY <1>13, <1>14
<1>16. ASSUME NEW i \in 1..l
       PROVE  h[i] = Released(s[i], h[i - 1])
  <2>1. 1..i \in SUBSET D /\ 1..i # {} /\ Max(1..i) = i /\ (1..i) \ {i} = 1..(i - 1)
    <3>1. Max(1..i) = i /\ (1..i) \ {i} = 1..(i - 1)
      BY <1>1, MaxPicks
    <3>2. i \in 1..i /\ 1..i \in SUBSET D
      BY <1>1
    <3> QED BY <3>1, <3>2
  <2>2. pick[1..i] = i
    BY <1>3, <2>1
  <2>3. g[1..i] = Released(s[i], g[1..(i - 1)])
    BY <1>10, <2>1, <2>2
  <2>4. i \in 0..l /\ i - 1 \in 0..l
    BY <1>1
  <2> QED BY <1>14, <2>3, <2>4
<1>17. h[0] = v /\ h[l] = g[D]
  <2>1. 0 \in 0..l /\ l \in 0..l /\ 1..0 = {}
    BY <1>1
  <2> QED BY <1>1, <1>12, <1>14, <2>1
<1> HIDE DEF h
<1> QED BY <1>2, <1>15, <1>16, <1>17 DEF l

-----------------------------------------------------------------------------
(* What a good view is made of, and the three ways in which it changes. *)

Parts(v, E, O, K, X) ==
         /\ Known(v) \subseteq Uris /\ v.mirrors \in [Known(v) -> Mirrors(E)]
         /\ v.seen \in Nat /\ v.outcome \in [Numbers -> Outcome]
         /\ v = [mirrors |-> v.mirrors, seen |-> v.seen, outcome |-> v.outcome]
         /\ \A u \in Known(v) : v.mirrors[u] \in Mirrors(E)
                                  /\ v.mirrors[u].buffered \in Seq(For(E, u))
         /\ \A u \in Known(v) \ X :
              v.mirrors[u].optimistic = v.mirrors[u].confirmed \o v.mirrors[u].pending
         /\ \A n \in Numbers : Witnessed(E, n, v.outcome[n])
         /\ Opens(v) \subseteq O /\ K \subseteq Known(v)

\* What it is for a view to be good, part by part.
LEMMA ViewParts ==
  ASSUME NEW E, NEW O, NEW K, NEW X, NEW v \in Views(E, O, K, X)
  PROVE  Parts(v, E, O, K, X)
<1>1. v \in ViewsOf(E) /\ Sorted(v, E) /\ Shown(v, X) /\ Truthful(v, E)
        /\ Opens(v) \subseteq O /\ K \subseteq Known(v)
  BY DEF Views
<1>2. v.mirrors \in UNION {[D -> Mirrors(E)] : D \in SUBSET Uris} /\ v.seen \in Nat
        /\ v.outcome \in [Numbers -> Outcome]
        /\ v = [mirrors |-> v.mirrors, seen |-> v.seen, outcome |-> v.outcome]
  BY <1>1 DEF ViewsOf
<1>3. PICK D \in SUBSET Uris : v.mirrors \in [D -> Mirrors(E)]
  BY <1>2
<1>4. Known(v) = D
  BY <1>3 DEF Known
<1> QED BY <1>1, <1>2, <1>3, <1>4 DEF Sorted, Shown, Truthful, Parts

\* A view is good when its parts are.
LEMMA ViewMade ==
  ASSUME NEW E, NEW O, NEW K, NEW X, NEW D \in SUBSET Uris,
         NEW ms \in [D -> Mirrors(E)], NEW seen \in Nat,
         NEW outcome \in [Numbers -> Outcome],
         \A u \in D : ms[u].buffered \in Seq(For(E, u)),
         \A u \in D \ X : ms[u].optimistic = ms[u].confirmed \o ms[u].pending,
         \A n \in Numbers : Witnessed(E, n, outcome[n]),
         \A n \in Numbers : outcome[n] = "open" => n \in O,
         K \subseteq D
  PROVE  [mirrors |-> ms, seen |-> seen, outcome |-> outcome] \in Views(E, O, K, X)
<1> DEFINE v == [mirrors |-> ms, seen |-> seen, outcome |-> outcome]
<1>1. v.mirrors = ms /\ v.seen = seen /\ v.outcome = outcome /\ Known(v) = D
  BY DEF Known
<1>2. ms \in UNION {[C -> Mirrors(E)] : C \in SUBSET Uris}
  OBVIOUS
<1>3. v \in ViewsOf(E)
  BY <1>2 DEF ViewsOf
<1> HIDE DEF v
<1>4. Sorted(v, E) /\ Shown(v, X) /\ Truthful(v, E) /\ Opens(v) \subseteq O
  BY <1>1 DEF Sorted, Shown, Truthful, Opens
<1> QED BY <1>1, <1>3, <1>4 DEF Views, v

\* A mirror is replaced.
LEMMA MirrorChanged ==
  ASSUME NEW E, NEW O, NEW K, NEW X, NEW Y, NEW v \in Views(E, O, K, X),
         NEW u \in Known(v), NEW m \in Mirrors(E), m.buffered \in Seq(For(E, u)),
         X \ {u} \subseteq Y,
         u \in Y \/ m.optimistic = m.confirmed \o m.pending
  PROVE  [v EXCEPT !.mirrors[u] = m] \in Views(E, O, K, Y)
<1> DEFINE ms == [v.mirrors EXCEPT ![u] = m]
           w == [mirrors |-> ms, seen |-> v.seen, outcome |-> v.outcome]
<1>1. /\ Known(v) \subseteq Uris /\ v.mirrors \in [Known(v) -> Mirrors(E)]
      /\ v.seen \in Nat /\ v.outcome \in [Numbers -> Outcome]
      /\ v = [mirrors |-> v.mirrors, seen |-> v.seen, outcome |-> v.outcome]
      /\ \A t \in Known(v) : v.mirrors[t].buffered \in Seq(For(E, t))
      /\ \A t \in Known(v) \ X :
           v.mirrors[t].optimistic = v.mirrors[t].confirmed \o v.mirrors[t].pending
      /\ \A n \in Numbers : Witnessed(E, n, v.outcome[n])
      /\ Opens(v) \subseteq O /\ K \subseteq Known(v)
  <2>1. Parts(v, E, O, K, X)
    BY ViewParts
  <2> QED BY <2>1 DEF Parts
<1>2. [v EXCEPT !.mirrors[u] = m] = w
  BY <1>1
<1>3. ms \in [Known(v) -> Mirrors(E)] /\ ms[u] = m
        /\ \A t \in Known(v) \ {u} : ms[t] = v.mirrors[t]
  BY <1>1
<1> HIDE DEF ms
<1>4. \A n \in Numbers : v.outcome[n] = "open" => n \in O
  BY <1>1 DEF Opens
<1>5. \A t \in Known(v) : ms[t].buffered \in Seq(For(E, t))
  BY <1>1, <1>3
<1>6. \A t \in Known(v) \ Y : ms[t].optimistic = ms[t].confirmed \o ms[t].pending
  BY <1>1, <1>3
<1>7. w \in Views(E, O, K, Y)
  BY <1>1, <1>3, <1>4, <1>5, <1>6, ViewMade
<1> QED BY <1>2, <1>7

\* ... and the others stay.
LEMMA MirrorFrame ==
  ASSUME NEW E, NEW O, NEW K, NEW X, NEW v \in Views(E, O, K, X), NEW u \in Known(v), NEW m
  PROVE  LET w == [v EXCEPT !.mirrors[u] = m]
         IN  /\ Known(w) = Known(v) /\ w.outcome = v.outcome /\ w.seen = v.seen
             /\ w.mirrors[u] = m
             /\ \A t \in Known(v) \ {u} : w.mirrors[t] = v.mirrors[t]
<1>1. /\ v.mirrors \in [Known(v) -> Mirrors(E)]
      /\ v = [mirrors |-> v.mirrors, seen |-> v.seen, outcome |-> v.outcome]
  <2>1. Parts(v, E, O, K, X)
    BY ViewParts
  <2> QED BY <2>1 DEF Parts
<1> DEFINE w == [v EXCEPT !.mirrors[u] = m]
<1>2. w.mirrors = [v.mirrors EXCEPT ![u] = m] /\ w.outcome = v.outcome /\ w.seen = v.seen
  BY <1>1
<1> HIDE DEF w
<1>3. Known(w) = Known(v)
  BY <1>1, <1>2 DEF Known
<1> QED BY <1>1, <1>2, <1>3 DEF w

\* Dispatches end.
LEMMA OutcomesChanged ==
  ASSUME NEW E, NEW O, NEW K, NEW X, NEW v \in Views(E, O, K, X),
         NEW P, NEW o \in [Numbers -> Outcome],
         \A n \in Numbers : o[n] = "open" => n \in P,
         \A n \in Numbers : o[n] # v.outcome[n] => Witnessed(E, n, o[n])
  PROVE  LET w == [v EXCEPT !.outcome = o]
         IN  /\ w \in Views(E, P, K, X)
             /\ w.mirrors = v.mirrors /\ w.outcome = o /\ w.seen = v.seen
             /\ Known(w) = Known(v)
<1> DEFINE w == [mirrors |-> v.mirrors, seen |-> v.seen, outcome |-> o]
<1>1. /\ Known(v) \subseteq Uris /\ v.mirrors \in [Known(v) -> Mirrors(E)]
      /\ v.seen \in Nat /\ v.outcome \in [Numbers -> Outcome]
      /\ v = [mirrors |-> v.mirrors, seen |-> v.seen, outcome |-> v.outcome]
      /\ \A t \in Known(v) : v.mirrors[t].buffered \in Seq(For(E, t))
      /\ \A t \in Known(v) \ X :
           v.mirrors[t].optimistic = v.mirrors[t].confirmed \o v.mirrors[t].pending
      /\ \A n \in Numbers : Witnessed(E, n, v.outcome[n])
      /\ K \subseteq Known(v)
  <2>1. Parts(v, E, O, K, X)
    BY ViewParts
  <2> QED BY <2>1 DEF Parts
<1>2. [v EXCEPT !.outcome = o] = w
  BY <1>1
<1>3. \A n \in Numbers : Witnessed(E, n, o[n])
  BY <1>1
<1>4. w \in Views(E, P, K, X)
  BY <1>1, <1>3, ViewMade
<1>5. Known(w) = Known(v)
  BY DEF Known
<1> QED BY <1>2, <1>4, <1>5

\* The view sees more, or less.
LEMMA SeenChanged ==
  ASSUME NEW E, NEW O, NEW K, NEW X, NEW v \in Views(E, O, K, X), NEW n \in Nat
  PROVE  LET w == [v EXCEPT !.seen = n]
         IN  /\ w \in Views(E, O, K, X)
             /\ w.mirrors = v.mirrors /\ w.outcome = v.outcome /\ Known(w) = Known(v)
<1> DEFINE w == [mirrors |-> v.mirrors, seen |-> n, outcome |-> v.outcome]
<1>1. /\ Known(v) \subseteq Uris /\ v.mirrors \in [Known(v) -> Mirrors(E)]
      /\ v.outcome \in [Numbers -> Outcome]
      /\ v = [mirrors |-> v.mirrors, seen |-> v.seen, outcome |-> v.outcome]
      /\ \A t \in Known(v) : v.mirrors[t].buffered \in Seq(For(E, t))
      /\ \A t \in Known(v) \ X :
           v.mirrors[t].optimistic = v.mirrors[t].confirmed \o v.mirrors[t].pending
      /\ \A m \in Numbers : Witnessed(E, m, v.outcome[m])
      /\ Opens(v) \subseteq O /\ K \subseteq Known(v)
  <2>1. Parts(v, E, O, K, X)
    BY ViewParts
  <2> QED BY <2>1 DEF Parts
<1>2. [v EXCEPT !.seen = n] = w
  BY <1>1
<1>3. \A m \in Numbers : v.outcome[m] = "open" => m \in O
  BY <1>1 DEF Opens
<1>4. w \in Views(E, O, K, X)
  BY <1>1, <1>3, ViewMade
<1>5. Known(w) = Known(v)
  BY DEF Known
<1> QED BY <1>2, <1>4, <1>5

\* A view that is good by a stricter measure.
LEMMA ViewsMonotone ==
  ASSUME NEW E, NEW F, E \subseteq F, NEW O, NEW P, O \subseteq P,
         NEW K, NEW L, L \subseteq K, NEW X, NEW Y, X \subseteq Y
  PROVE  Views(E, O, K, X) \subseteq Views(F, P, L, Y)
<1> SUFFICES ASSUME NEW v \in Views(E, O, K, X) PROVE v \in Views(F, P, L, Y)
  OBVIOUS
<1>1. /\ Known(v) \subseteq Uris /\ v.mirrors \in [Known(v) -> Mirrors(E)]
      /\ v.seen \in Nat /\ v.outcome \in [Numbers -> Outcome]
      /\ v = [mirrors |-> v.mirrors, seen |-> v.seen, outcome |-> v.outcome]
      /\ \A t \in Known(v) : v.mirrors[t].buffered \in Seq(For(E, t))
      /\ \A t \in Known(v) \ X :
           v.mirrors[t].optimistic = v.mirrors[t].confirmed \o v.mirrors[t].pending
      /\ \A n \in Numbers : Witnessed(E, n, v.outcome[n])
      /\ Opens(v) \subseteq O /\ K \subseteq Known(v)
  <2>1. Parts(v, E, O, K, X)
    BY ViewParts
  <2> QED BY <2>1 DEF Parts
<1>2. Mirrors(E) \subseteq Mirrors(F)
  BY DEF Mirrors
<1>3. \A t \in Uris : Seq(For(E, t)) \subseteq Seq(For(F, t))
  BY DEF For
<1>4. \A n \in Numbers : Witnessed(F, n, v.outcome[n])
  BY <1>1 DEF Witnessed
<1>5. \A n \in Numbers : v.outcome[n] = "open" => n \in P
  BY <1>1 DEF Opens
<1>6. v.mirrors \in [Known(v) -> Mirrors(F)]
  BY <1>1, <1>2
<1>7. \A t \in Known(v) : v.mirrors[t].buffered \in Seq(For(F, t))
  BY <1>1, <1>3
<1>8. [mirrors |-> v.mirrors, seen |-> v.seen, outcome |-> v.outcome] \in Views(F, P, L, Y)
  BY <1>1, <1>4, <1>5, <1>6, <1>7, ViewMade
<1> QED BY <1>1, <1>8

-----------------------------------------------------------------------------
(* The operators of Mirror keep a view good. *)

\* A view may be asked for every channel that it knows.
LEMMA AllKnown ==
  ASSUME NEW E, NEW O, NEW K, NEW X, NEW v \in Views(E, O, K, X)
  PROVE  v \in Views(E, O, Known(v), X) /\ K \subseteq Known(v)
BY DEF Views

\* A sequence over a set is one over every larger set.
LEMMA SeqMonotone ==
  ASSUME NEW A, NEW B, A \subseteq B, NEW s \in Seq(A)
  PROVE  s \in Seq(B)
OBVIOUS

\* A sequence of members of a set, with one more at its end, is another.
LEMMA AppendTyped ==
  ASSUME NEW A, NEW s \in Seq(A), NEW e \in A
  PROVE  Append(s, e) \in Seq(A)
OBVIOUS

\* #restate leaves a mirror whose rendered state is current.
LEMMA RestatedTyped ==
  ASSUME NEW E, NEW m \in Mirrors(E)
  PROVE  /\ Restated(m) \in Mirrors(E)
         /\ Restated(m).optimistic = Restated(m).confirmed \o Restated(m).pending
         /\ Restated(m).buffered = m.buffered
<1>1. m.confirmed \o m.pending \in Seq(Int)
  <2>1. m.confirmed \in Seq(Int) /\ m.pending \in Seq(Numbers)
    BY DEF Mirrors
  <2>2. Numbers \subseteq Int
    BY ClientAssumption DEF Numbers
  <2>3. m.pending \in Seq(Int)
    BY <2>1, <2>2, SeqMonotone
  <2> QED BY <2>1, <2>3
<1> QED BY <1>1 DEF Restated, Mirrors

\* #restate of a channel ends the exception made for it.
LEMMA RestateGood ==
  ASSUME NEW E, NEW O, NEW K, NEW X, NEW v \in Views(E, O, K, X), NEW u \in Known(v)
  PROVE  Restate(v, u) \in Views(E, O, K, X \ {u})
<1> DEFINE m == v.mirrors[u]
<1>1. m \in Mirrors(E) /\ m.buffered \in Seq(For(E, u))
  <2>1. Parts(v, E, O, K, X)
    BY ViewParts
  <2> QED BY <2>1 DEF Parts
<1>2. Restated(m) \in Mirrors(E) /\ Restated(m).buffered = m.buffered
        /\ Restated(m).optimistic = Restated(m).confirmed \o Restated(m).pending
  BY <1>1, RestatedTyped
<1>3. [v EXCEPT !.mirrors[u] = Restated(m)] \in Views(E, O, K, X \ {u})
  BY <1>1, <1>2, MirrorChanged
<1> QED BY <1>3 DEF Restate

\* Dispatches that settle as something that is true of them leave a good view, in which
\* they are no longer open.
LEMMA SettleAllGood ==
  ASSUME NEW E, NEW O, NEW K, NEW X, NEW v \in Views(E, O, K, X), NEW ns,
         NEW outcome \in Outcome \ {"open"},
         \A n \in ns \cap Numbers : Witnessed(E, n, outcome)
  PROVE  /\ SettleAll(v, ns, outcome) \in Views(E, O \ ns, K, X)
         /\ SettleAll(v, ns, outcome).mirrors = v.mirrors
         /\ Known(SettleAll(v, ns, outcome)) = Known(v)
<1> DEFINE o == [n \in DOMAIN v.outcome |->
                   IF n \in ns /\ v.outcome[n] = "open" THEN outcome ELSE v.outcome[n]]
<1>1. v.outcome \in [Numbers -> Outcome] /\ \A n \in Numbers : v.outcome[n] = "open" => n \in O
  <2>1. Parts(v, E, O, K, X)
    BY ViewParts
  <2> QED BY <2>1 DEF Parts, Opens
<1>2. o \in [Numbers -> Outcome]
  BY <1>1
<1>3. \A n \in Numbers : o[n] = "open" => n \in O \ ns
  BY <1>1
<1>4. \A n \in Numbers : o[n] # v.outcome[n] => Witnessed(E, n, o[n])
  BY <1>1
<1>5. SettleAll(v, ns, outcome) = [v EXCEPT !.outcome = o]
  BY DEF SettleAll
<1> HIDE DEF o
<1> QED BY <1>2, <1>3, <1>4, <1>5, OutcomesChanged

\* The same for a single dispatch.
LEMMA SettleGood ==
  ASSUME NEW E, NEW O, NEW K, NEW X, NEW v \in Views(E, O, K, X), NEW n \in Numbers,
         NEW outcome \in Outcome \ {"open"}, Witnessed(E, n, outcome)
  PROVE  /\ Settle(v, n, outcome) \in Views(E, O \ {n}, K, X)
         /\ Settle(v, n, outcome).mirrors = v.mirrors
<1> DEFINE o == [v.outcome EXCEPT ![n] = outcome]
<1>1. v.outcome \in [Numbers -> Outcome] /\ \A k \in Numbers : v.outcome[k] = "open" => k \in O
  <2>1. Parts(v, E, O, K, X)
    BY ViewParts
  <2> QED BY <2>1 DEF Parts, Opens
<1>2. CASE v.outcome[n] = "open"
  <2>1. o \in [Numbers -> Outcome]
    BY <1>1
  <2>2. \A k \in Numbers : o[k] = "open" => k \in O \ {n}
    BY <1>1
  <2>3. \A k \in Numbers : o[k] # v.outcome[k] => Witnessed(E, k, o[k])
    BY <1>1
  <2>4. Settle(v, n, outcome) = [v EXCEPT !.outcome = o]
    BY <1>2 DEF Settle
  <2> HIDE DEF o
  <2> QED BY <2>1, <2>2, <2>3, <2>4, OutcomesChanged
<1>3. CASE v.outcome[n] # "open"
  <2>1. Settle(v, n, outcome) = v
    BY <1>3 DEF Settle
  <2>2. Opens(v) \subseteq O \ {n}
    BY <1>1, <1>3 DEF Opens
  <2> QED BY <2>1, <2>2 DEF Views
<1> QED BY <1>2, <1>3

\* What is pending on a channel is given up, and the channel needs a restate.
LEMMA LoseGood ==
  ASSUME NEW E, NEW O, NEW K, NEW X, NEW v \in Views(E, O, K, X), NEW u \in Known(v)
  PROVE  /\ Lose(v, u) \in Views(E, O, K, X \cup {u})
         /\ Known(Lose(v, u)) = Known(v)
         /\ \A t \in Known(v) \ {u} : Lose(v, u).mirrors[t] = v.mirrors[t]
<1> DEFINE w == SettleAll(v, Range(v.mirrors[u].pending), "lost")
           m == [v.mirrors[u] EXCEPT !.pending = << >>]
<1>1. \A n : Witnessed(E, n, "lost")
  BY DEF Witnessed
<1>2. w \in Views(E, O \ Range(v.mirrors[u].pending), K, X) /\ w.mirrors = v.mirrors
        /\ Known(w) = Known(v)
  BY <1>1, SettleAllGood DEF Outcome
<1>3. w \in Views(E, O, K, X)
  BY <1>2, ViewsMonotone
<1>4. v.mirrors[u] \in Mirrors(E) /\ v.mirrors[u].buffered \in Seq(For(E, u))
  <2>1. Parts(v, E, O, K, X)
    BY ViewParts
  <2> QED BY <2>1 DEF Parts
<1>5. m \in Mirrors(E) /\ m.buffered \in Seq(For(E, u))
  <2>1. << >> \in Seq(Numbers)
    OBVIOUS
  <2> QED BY <1>4, <2>1 DEF Mirrors
<1> HIDE DEF w
<1>6. Lose(v, u) = [w EXCEPT !.mirrors[u] = m]
  BY <1>2 DEF Lose, w
<1> HIDE DEF m
<1>7. u \in Known(w) /\ X \ {u} \subseteq X \cup {u} /\ u \in X \cup {u}
  BY <1>2
<1>8. [w EXCEPT !.mirrors[u] = m] \in Views(E, O, K, X \cup {u})
  BY <1>3, <1>5, <1>7, MirrorChanged
<1>9. /\ Known([w EXCEPT !.mirrors[u] = m]) = Known(w)
      /\ \A t \in Known(w) \ {u} : [w EXCEPT !.mirrors[u] = m].mirrors[t] = w.mirrors[t]
  BY <1>3, <1>7, MirrorFrame
<1> QED BY <1>2, <1>6, <1>8, <1>9

\* #forget takes the mirror of one channel away.
LEMMA ForgetGood ==
  ASSUME NEW E, NEW O, NEW K, NEW X, NEW v \in Views(E, O, K, X), NEW u
  PROVE  Forget(v, u) \in Views(E, O, K \ {u}, X)
<1>1. CASE u \notin Known(v)
  <2>1. v \in Views(E, O, K \ {u}, X)
    BY ViewsMonotone
  <2> QED BY <1>1, <2>1 DEF Forget
<1>2. CASE u \in Known(v)
  <2> DEFINE w == Lose(v, u)
             D == Known(v) \ {u}
             ms == Restrict(w.mirrors, D)
  <2>1. w \in Views(E, O, K, X \cup {u}) /\ Known(w) = Known(v)
    BY <1>2, LoseGood
  <2>2. Parts(w, E, O, K, X \cup {u})
    BY <2>1, ViewParts
  <2> HIDE DEF w
  <2>3. Forget(v, u) = [mirrors |-> ms, seen |-> w.seen, outcome |-> w.outcome]
    <3>1. w = [mirrors |-> w.mirrors, seen |-> w.seen, outcome |-> w.outcome]
      BY <2>2 DEF Parts
    <3>2. Forget(v, u) = [w EXCEPT !.mirrors = Restrict(w.mirrors, Known(v) \ {u})]
      BY <1>2 DEF Forget, w
    <3> HIDE DEF ms
    <3> QED BY <3>1, <3>2 DEF ms
  <2>4. ms \in [D -> Mirrors(E)] /\ D \in SUBSET Uris /\ \A t \in D : ms[t] = w.mirrors[t]
    BY <2>1, <2>2 DEF Restrict, Parts
  <2> HIDE DEF ms
  <2>5. \A t \in D : ms[t].buffered \in Seq(For(E, t))
    BY <2>1, <2>2, <2>4 DEF Parts
  <2>6. \A t \in D \ X : ms[t].optimistic = ms[t].confirmed \o ms[t].pending
    BY <2>1, <2>2, <2>4 DEF Parts
  <2>7. /\ w.seen \in Nat /\ w.outcome \in [Numbers -> Outcome]
        /\ \A n \in Numbers : Witnessed(E, n, w.outcome[n])
        /\ \A n \in Numbers : w.outcome[n] = "open" => n \in O
        /\ K \ {u} \subseteq D
    BY <2>1, <2>2 DEF Parts, Opens
  <2> HIDE DEF D
  <2>8. [mirrors |-> ms, seen |-> w.seen, outcome |-> w.outcome] \in Views(E, O, K \ {u}, X)
    BY <2>4, <2>5, <2>6, <2>7, ViewMade
  <2> QED BY <2>3, <2>8
<1> QED BY <1>1, <1>2

\* #forget of several channels leaves a mirror for every other channel.
LEMMA ForgetAllGood ==
  ASSUME NEW E, NEW O, NEW K, NEW X, NEW v \in Views(E, O, K, X), NEW us, IsFiniteSet(us)
  PROVE  ForgetAll(v, us) \in Views(E, O, K \ us, X)
<1> DEFINE G == Views(E, O, K \ us, X)
<1>1. v \in G
  BY ViewsMonotone
<1>2. ASSUME NEW u \in us, NEW w \in G
      PROVE  Forget(w, u) \in G
  <2>1. Forget(w, u) \in Views(E, O, (K \ us) \ {u}, X)
    BY ForgetGood
  <2>2. (K \ us) \ {u} = K \ us
    OBVIOUS
  <2> QED BY <2>1, <2>2
<1> HIDE DEF G
<1>3. ForgetAll(v, us) \in G
  BY <1>1, <1>2, ForgetAllStays
<1> QED BY <1>3 DEF G

\* The client's own envelope settles its dispatch as it was committed, and earlier ones
\* as lost.
LEMMA EchoGood ==
  ASSUME NEW E \in SUBSET Envelopes, NEW O, NEW K, NEW X, NEW v \in Views(E, O, K, X),
         NEW e \in E, e.uri \in Known(v)
  PROVE  Echo(v, e) \in Views(E, O, K, X \cup {e.uri}) /\ Known(Echo(v, e)) = Known(v)
<1> DEFINE u == e.uri
           p == v.mirrors[u].pending
           earlier == {n \in Range(p) : n < e.n}
           w1 == SettleAll(v, earlier, "lost")
           w == SettleAll(w1, Range(p) \cap {e.n}, OutcomeOf(e))
           I == {i \in DOMAIN p : p[i] > e.n}
           m == [v.mirrors[u] EXCEPT !.pending = Selected(p, I)]
<1>1. w1 \in Views(E, O, K, X) /\ w1.mirrors = v.mirrors /\ Known(w1) = Known(v)
  <2>1. \A n : Witnessed(E, n, "lost")
    BY DEF Witnessed
  <2>2. "lost" \in Outcome \ {"open"}
    BY DEF Outcome
  <2>3. w1 \in Views(E, O \ earlier, K, X) /\ w1.mirrors = v.mirrors /\ Known(w1) = Known(v)
    BY <2>1, <2>2, SettleAllGood
  <2> HIDE DEF w1
  <2> QED BY <2>3, ViewsMonotone
<1> HIDE DEF w1
<1>2. w \in Views(E, O, K, X) /\ w.mirrors = v.mirrors /\ Known(w) = Known(v)
  <2>1. OutcomeOf(e) \in Outcome \ {"open"} /\ e.accepted = (OutcomeOf(e) = "confirmed")
    BY DEF Outcome, OutcomeOf, Envelopes
  <2>2. Witnessed(E, e.n, OutcomeOf(e))
    BY <2>1 DEF Witnessed
  <2> DEFINE ns == Range(p) \cap {e.n}
  <2>3. \A n \in ns \cap Numbers : Witnessed(E, n, OutcomeOf(e))
    BY <2>2
  <2> HIDE DEF ns
  <2>4. SettleAll(w1, ns, OutcomeOf(e)) \in Views(E, O \ ns, K, X)
          /\ SettleAll(w1, ns, OutcomeOf(e)).mirrors = w1.mirrors
          /\ Known(SettleAll(w1, ns, OutcomeOf(e))) = Known(w1)
    BY <1>1, <2>1, <2>3, SettleAllGood
  <2>5. SettleAll(w1, ns, OutcomeOf(e)) \in Views(E, O, K, X)
    BY <2>4, ViewsMonotone
  <2> QED BY <1>1, <2>4, <2>5 DEF ns
<1>3. v.mirrors[u] \in Mirrors(E) /\ v.mirrors[u].buffered \in Seq(For(E, u))
  <2>1. Parts(v, E, O, K, X)
    BY ViewParts
  <2> QED BY <2>1 DEF Parts
<1>4. Selected(p, I) \in Seq(Numbers)
  <2>1. p \in Seq(Numbers) /\ I \in SUBSET (DOMAIN p)
    BY <1>3 DEF Mirrors
  <2> HIDE DEF p, I
  <2> QED BY <2>1, SelectedTyped
<1>5. m \in Mirrors(E) /\ m.buffered \in Seq(For(E, u))
  <2> HIDE DEF I
  <2> QED BY <1>3, <1>4 DEF Mirrors
<1>6. Echo(v, e) = [w EXCEPT !.mirrors[u] = m]
  <2>1. w.mirrors[u] = v.mirrors[u]
    BY <1>2
  <2>2. Echo(v, e) = [w EXCEPT !.mirrors[u].pending =
                        Selected(w.mirrors[u].pending,
                          {i \in DOMAIN w.mirrors[u].pending : w.mirrors[u].pending[i] > e.n})]
    BY DEF Echo, w1
  <2> HIDE DEF w
  <2> QED BY <2>1, <2>2
<1> HIDE DEF w, m, u
<1>7. u \in Known(w) /\ X \ {u} \subseteq X \cup {u} /\ u \in X \cup {u}
  BY <1>2 DEF u
<1>8. [w EXCEPT !.mirrors[u] = m] \in Views(E, O, K, X \cup {u})
  BY <1>2, <1>5, <1>7, MirrorChanged
<1>9. Known([w EXCEPT !.mirrors[u] = m]) = Known(w)
  BY <1>2, <1>7, MirrorFrame
<1> QED BY <1>2, <1>6, <1>8, <1>9 DEF u

\* #see changes nothing but the sequence seen.
LEMMA SeeGood ==
  ASSUME NEW E, NEW O, NEW K, NEW X, NEW v \in Views(E, O, K, X), NEW n \in Nat
  PROVE  /\ See(v, n) \in Views(E, O, K, X)
         /\ See(v, n).mirrors = v.mirrors /\ Known(See(v, n)) = Known(v)
<1> DEFINE k == IF n > v.seen THEN n ELSE v.seen
<1>1. v.seen \in Nat
  <2>1. Parts(v, E, O, K, X)
    BY ViewParts
  <2> QED BY <2>1 DEF Parts
<1>2. k \in Nat /\ See(v, n) = [v EXCEPT !.seen = k]
  BY <1>1 DEF See
<1> HIDE DEF k
<1> QED BY <1>2, SeenChanged

\* An envelope is applied to the confirmed state, and the channel needs a restate.
LEMMA AdvanceGood ==
  ASSUME NEW E \in SUBSET Envelopes, NEW O, NEW K, NEW X, NEW v \in Views(E, O, K, X),
         NEW e \in E, e.uri \in Known(v)
  PROVE  Advance(v, e) \in Views(E, O, K, X \cup {e.uri}) /\ Known(Advance(v, e)) = Known(v)
<1> DEFINE u == e.uri
           w == See(v, e.seq)
           m == [v.mirrors[u] EXCEPT !.applied = e.seq,
                   !.confirmed = IF e.accepted THEN Append(v.mirrors[u].confirmed, Tag(e))
                                 ELSE v.mirrors[u].confirmed]
<1>1. e.seq \in Nat /\ e.n \in Nat
  BY ClientAssumption DEF Envelopes
<1>2. w \in Views(E, O, K, X) /\ w.mirrors = v.mirrors /\ Known(w) = Known(v)
  BY <1>1, SeeGood
<1>3. v.mirrors[u] \in Mirrors(E) /\ v.mirrors[u].buffered \in Seq(For(E, u))
  <2>1. Parts(v, E, O, K, X)
    BY ViewParts
  <2> QED BY <2>1 DEF Parts
<1>4. m \in Mirrors(E) /\ m.buffered \in Seq(For(E, u))
  <2>1. Tag(e) \in Int
    BY <1>1 DEF Tag
  <2>2. Append(v.mirrors[u].confirmed, Tag(e)) \in Seq(Int)
    BY <1>3, <2>1 DEF Mirrors
  <2> QED BY <1>1, <1>3, <2>2 DEF Mirrors
<1>5. Advance(v, e) = [w EXCEPT !.mirrors[u] = m]
  <2>1. Advance(v, e) = [w EXCEPT !.mirrors[u].applied = e.seq,
           !.mirrors[u].confirmed = IF e.accepted THEN Append(@, Tag(e)) ELSE @]
    BY DEF Advance
  <2>2. Parts(w, E, O, K, X) /\ u \in Known(w)
    BY <1>2, ViewParts
  <2> HIDE DEF w
  <2>3. u \in DOMAIN w.mirrors /\ w = [mirrors |-> w.mirrors, seen |-> w.seen, outcome |-> w.outcome]
    BY <2>2 DEF Parts, Known
  <2> HIDE DEF u
  <2> QED BY <1>2, <1>3, <2>1, <2>3 DEF Mirrors
<1> HIDE DEF w, m, u
<1>7. u \in Known(w) /\ X \ {u} \subseteq X \cup {u} /\ u \in X \cup {u}
  BY <1>2 DEF u
<1>8. [w EXCEPT !.mirrors[u] = m] \in Views(E, O, K, X \cup {u})
  BY <1>2, <1>4, <1>7, MirrorChanged
<1>9. Known([w EXCEPT !.mirrors[u] = m]) = Known(w)
  BY <1>2, <1>7, MirrorFrame
<1> QED BY <1>2, <1>5, <1>8, <1>9 DEF u

\* #reconcile of an envelope that was committed, with the restate at its end.
LEMMA ReconcileGood ==
  ASSUME NEW E \in SUBSET Envelopes, NEW O, NEW K, NEW X, NEW v \in Views(E, O, K, X),
         NEW e \in E, e.uri \in Known(v)
  PROVE  Reconcile(v, e) \in Views(E, O, K, X \ {e.uri})
<1> DEFINE Y == X \cup {e.uri}
           w == IF e.n > 0 THEN Echo(v, e) ELSE v
           x == IF e.seq <= w.mirrors[e.uri].applied THEN w ELSE Advance(w, e)
<1>1. w \in Views(E, O, K, Y) /\ Known(w) = Known(v)
  <2>1. v \in Views(E, O, K, Y)
    BY ViewsMonotone
  <2> QED BY <2>1, EchoGood
<1> HIDE DEF w
<1>2. Y \cup {e.uri} = Y /\ Y \ {e.uri} = X \ {e.uri}
  OBVIOUS
<1> HIDE DEF Y
<1>3. x \in Views(E, O, K, Y) /\ Known(x) = Known(v)
  <2>1. e.uri \in Known(w)
    BY <1>1
  <2>2. Advance(w, e) \in Views(E, O, K, Y \cup {e.uri}) /\ Known(Advance(w, e)) = Known(w)
    BY <1>1, <2>1, AdvanceGood
  <2> QED BY <1>1, <1>2, <2>2
<1> HIDE DEF x
<1>4. Restate(x, e.uri) \in Views(E, O, K, Y \ {e.uri})
  BY <1>3, RestateGood
<1> QED BY <1>2, <1>4 DEF Reconcile, w, x

\* An envelope that arrives is applied, or held back for a mirror that is not primed.
LEMMA InboundGood ==
  ASSUME NEW E \in SUBSET Envelopes, NEW O, NEW K, NEW X, NEW v \in Views(E, O, K, X),
         NEW e \in E
  PROVE  Inbound(v, e) \in Views(E, O, K, X)
<1>1. CASE e.uri \notin Known(v)
  BY <1>1 DEF Inbound
<1>2. CASE e.uri \in Known(v) /\ v.mirrors[e.uri].primed
  <2>1. Reconcile(v, e) \in Views(E, O, K, X \ {e.uri})
    BY <1>2, ReconcileGood
  <2>2. Reconcile(v, e) \in Views(E, O, K, X)
    BY <2>1, ViewsMonotone
  <2> QED BY <1>2, <2>2 DEF Inbound
<1>3. CASE e.uri \in Known(v) /\ ~v.mirrors[e.uri].primed
  <2> DEFINE u == e.uri
             m == [v.mirrors[u] EXCEPT !.buffered = Append(v.mirrors[u].buffered, e)]
  <2>1. Parts(v, E, O, K, X)
    BY ViewParts
  <2>2. v.mirrors[u] \in Mirrors(E) /\ v.mirrors[u].buffered \in Seq(For(E, u))
          /\ (u \in X \/ v.mirrors[u].optimistic = v.mirrors[u].confirmed \o v.mirrors[u].pending)
    BY <1>3, <2>1 DEF Parts
  <2>3. e \in For(E, u)
    BY DEF For
  <2>4. m \in Mirrors(E) /\ m.buffered \in Seq(For(E, u))
          /\ (u \in X \/ m.optimistic = m.confirmed \o m.pending)
    <3>1. Append(v.mirrors[u].buffered, e) \in Seq(For(E, u))
      BY <2>2, <2>3, AppendTyped
    <3>2. Append(v.mirrors[u].buffered, e) \in Seq(E)
      <4>1. v.mirrors[u].buffered \in Seq(E)
        BY <2>2 DEF Mirrors
      <4> QED BY <4>1, AppendTyped
    <3> QED BY <2>2, <3>1, <3>2 DEF Mirrors
  <2>5. Inbound(v, e) = [v EXCEPT !.mirrors[u] = m]
    <3>1. Inbound(v, e) = [v EXCEPT !.mirrors[u].buffered = Append(@, e)]
      BY <1>3 DEF Inbound
    <3> QED BY <3>1
  <2> HIDE DEF m, u
  <2>6. u \in Known(v) /\ X \ {u} \subseteq X
    BY <1>3 DEF u
  <2>7. [v EXCEPT !.mirrors[u] = m] \in Views(E, O, K, X)
    BY <2>4, <2>6, MirrorChanged
  <2> QED BY <2>5, <2>7
<1> QED BY <1>1, <1>2, <1>3

\* The same for several envelopes, one after the other.
LEMMA InboundAllGood ==
  ASSUME NEW E \in SUBSET Envelopes, NEW O, NEW K, NEW X, NEW v \in Views(E, O, K, X),
         NEW s \in Seq(E)
  PROVE  InboundAll(v, s) \in Views(E, O, K, X)
<1> DEFINE G == Views(E, O, K, X)
<1>1. \A e \in E, w \in G : Inbound(w, e) \in G
  BY InboundGood
<1> HIDE DEF G
<1>2. v \in G
  BY DEF G
<1>3. PICK h \in [0..Len(s) -> G] : h[Len(s)] = InboundAll(v, s)
  BY <1>1, <1>2, InboundAllSteps
<1>4. Len(s) \in 0..Len(s)
  OBVIOUS
<1> QED BY <1>3, <1>4 DEF G

\* What was held back is applied when the mirror is primed.
LEMMA DrainGood ==
  ASSUME NEW E \in SUBSET Envelopes, NEW O, NEW K, NEW X, NEW v \in Views(E, O, K, X),
         NEW u \in Known(v)
  PROVE  Drain(v, u) \in Views(E, O, Known(v), X)
<1> DEFINE G == Views(E, O, Known(v), X)
           B == For(E, u)
           s == v.mirrors[u].buffered
           m == [v.mirrors[u] EXCEPT !.buffered = << >>]
           w == [v EXCEPT !.mirrors[u] = m]
<1>1. v.mirrors[u] \in Mirrors(E) /\ s \in Seq(B)
        /\ (u \in X \/ v.mirrors[u].optimistic = v.mirrors[u].confirmed \o v.mirrors[u].pending)
  <2>1. Parts(v, E, O, K, X)
    BY ViewParts
  <2> QED BY <2>1 DEF Parts
<1>2. v \in G
  BY AllKnown
<1>3. m \in Mirrors(E) /\ m.buffered \in Seq(For(E, u))
        /\ (u \in X \/ m.optimistic = m.confirmed \o m.pending)
  <2>1. << >> \in Seq(E) /\ << >> \in Seq(For(E, u))
    OBVIOUS
  <2> QED BY <1>1, <2>1 DEF Mirrors
<1>4. w \in G
  <2> HIDE DEF m
  <2>1. X \ {u} \subseteq X
    OBVIOUS
  <2> QED BY <1>2, <1>3, <2>1, MirrorChanged
<1>5. Drain(v, u) = ReconcileAll(w, s)
  BY DEF Drain, ReconcileAll
<1>6. ASSUME NEW e \in B, NEW x \in G
      PROVE  Reconcile(x, e) \in G
  <2>1. e \in E /\ e.uri = u
    BY DEF For
  <2>2. u \in Known(x)
    BY DEF Views
  <2>3. Reconcile(x, e) \in Views(E, O, Known(v), X \ {e.uri})
    BY <2>1, <2>2, ReconcileGood
  <2> QED BY <2>3, ViewsMonotone
<1> HIDE DEF G, B, s, w
<1>7. PICK h \in [0..Len(s) -> G] : h[Len(s)] = ReconcileAll(w, s)
  BY <1>1, <1>4, <1>6, DrainSteps
<1>8. Len(s) \in 0..Len(s)
  BY <1>1
<1> QED BY <1>5, <1>7, <1>8 DEF G

\* A snapshot makes a mirror current, whatever state it was in.
LEMMA SnapshotRestates ==
  ASSUME NEW E \in SUBSET Envelopes, NEW O, NEW K, NEW X, NEW v \in Views(E, O, K, X),
         NEW s \in Snapshots, s.uri \in Known(v)
  PROVE  ApplySnapshot(v, s) \in Views(E, O, K, X \ {s.uri})
<1> DEFINE u == s.uri
             Y == X \cup {u}
             m == [v.mirrors[u] EXCEPT !.confirmed = s.state, !.applied = s.fromSeq,
                                       !.primed = TRUE]
             w == [v EXCEPT !.mirrors[u] = m]
<1>1. v.mirrors[u] \in Mirrors(E) /\ v.mirrors[u].buffered \in Seq(For(E, u))
  <2>1. Parts(v, E, O, K, X)
    BY ViewParts
  <2> QED BY <2>1 DEF Parts
<1>2. m \in Mirrors(E) /\ m.buffered \in Seq(For(E, u)) /\ s.fromSeq \in Nat
  BY <1>1 DEF Mirrors, Snapshots
<1> HIDE DEF m
<1>3. X \ {u} \subseteq Y /\ u \in Y /\ Y \ {u} = X \ {u}
    OBVIOUS
<1> HIDE DEF Y
<1>4. w \in Views(E, O, K, Y)
  BY <1>2, <1>3, MirrorChanged
<1>5. Known(w) = Known(v)
    BY MirrorFrame
<1>6. ApplySnapshot(v, s) = Restate(Drain(See(w, s.fromSeq), u), u)
    BY DEF ApplySnapshot, m
<1> HIDE DEF w, u
<1>7. See(w, s.fromSeq) \in Views(E, O, K, Y) /\ Known(See(w, s.fromSeq)) = Known(w)
  <2> DEFINE n == s.fromSeq
  <2>1. n \in Nat
  BY <1>2
  <2> HIDE DEF n
  <2>2. See(w, n) \in Views(E, O, K, Y) /\ Known(See(w, n)) = Known(w)
  BY <1>4, <2>1, SeeGood
  <2> QED BY <2>2 DEF n
<1> DEFINE x == See(w, s.fromSeq)
<1> HIDE DEF x
<1>8. x \in Views(E, O, K, Y) /\ u \in Known(x)
  BY <1>5, <1>7 DEF x, u
<1>9. Drain(x, u) \in Views(E, O, Known(x), Y)
  BY <1>8, DrainGood
<1>10. u \in Known(Drain(x, u)) /\ K \subseteq Known(x)
  BY <1>8, <1>9 DEF Views
<1>11. Restate(Drain(x, u), u) \in Views(E, O, Known(x), Y \ {u})
  BY <1>9, <1>10, RestateGood
<1>12. Restate(Drain(x, u), u) \in Views(E, O, K, X \ {u})
  BY <1>3, <1>10, <1>11, ViewsMonotone
<1> QED BY <1>6, <1>12 DEF x, u

\* #applySnapshot, also of a channel that has no mirror any more.
LEMMA ApplySnapshotGood ==
  ASSUME NEW E \in SUBSET Envelopes, NEW O, NEW K, NEW X, NEW v \in Views(E, O, K, X),
         NEW s \in Snapshots
  PROVE  ApplySnapshot(v, s) \in Views(E, O, K, X)
<1>1. CASE s.uri \notin Known(v)
  BY <1>1 DEF ApplySnapshot
<1>2. CASE s.uri \in Known(v)
  <2>1. ApplySnapshot(v, s) \in Views(E, O, K, X \ {s.uri})
    BY <1>2, SnapshotRestates
  <2> QED BY <2>1, ViewsMonotone
<1> QED BY <1>1, <1>2

\* A mirror that gets no snapshot is primed, and what it held back is applied.
LEMMA PrimeGood ==
  ASSUME NEW E \in SUBSET Envelopes, NEW O, NEW K, NEW X, NEW v \in Views(E, O, K, X),
         NEW u
  PROVE  PrimeWithoutSnapshot(v, u) \in Views(E, O, K, X)
<1>1. CASE u \notin Known(v) \/ v.mirrors[u].primed
  BY <1>1 DEF PrimeWithoutSnapshot
<1>2. CASE u \in Known(v) /\ ~v.mirrors[u].primed
  <2> DEFINE Y == X \cup {u}
             m == [v.mirrors[u] EXCEPT !.primed = TRUE]
             w == [v EXCEPT !.mirrors[u] = m]
  <2>1. v.mirrors[u] \in Mirrors(E) /\ v.mirrors[u].buffered \in Seq(For(E, u))
    <3>1. Parts(v, E, O, K, X)
      BY ViewParts
    <3> QED BY <1>2, <3>1 DEF Parts
  <2>2. m \in Mirrors(E) /\ m.buffered \in Seq(For(E, u))
    BY <2>1 DEF Mirrors
  <2>6. PrimeWithoutSnapshot(v, u) = Restate(Drain(w, u), u)
    <3>1. PrimeWithoutSnapshot(v, u) = Restate(Drain([v EXCEPT !.mirrors[u].primed = TRUE], u), u)
      BY <1>2 DEF PrimeWithoutSnapshot
    <3> QED BY <3>1
  <2> HIDE DEF m
  <2>3. X \ {u} \subseteq Y /\ u \in Y /\ Y \ {u} \subseteq X
    OBVIOUS
  <2> HIDE DEF Y
  <2>4. w \in Views(E, O, K, Y)
    BY <1>2, <2>2, <2>3, MirrorChanged
  <2>5. Known(w) = Known(v)
    BY <1>2, MirrorFrame
  <2> HIDE DEF w
  <2>9. Drain(w, u) \in Views(E, O, Known(w), Y)
    BY <1>2, <2>4, <2>5, DrainGood
  <2>10. u \in Known(Drain(w, u)) /\ K \subseteq Known(w)
    BY <1>2, <2>4, <2>5, <2>9 DEF Views
  <2>11. Restate(Drain(w, u), u) \in Views(E, O, Known(w), Y \ {u})
    BY <2>9, <2>10, RestateGood
  <2>12. Restate(Drain(w, u), u) \in Views(E, O, K, X)
    BY <2>3, <2>10, <2>11, ViewsMonotone
  <2> QED BY <2>6, <2>12
<1> QED BY <1>1, <1>2

\* The same for several channels.
LEMMA PrimeAllGood ==
  ASSUME NEW E \in SUBSET Envelopes, NEW O, NEW K, NEW X, NEW v \in Views(E, O, K, X),
         NEW us, IsFiniteSet(us)
  PROVE  PrimeAll(v, us) \in Views(E, O, K, X)
<1> DEFINE G == Views(E, O, K, X)
<1>1. \A u \in us, w \in G : PrimeWithoutSnapshot(w, u) \in G
  BY PrimeGood
<1> HIDE DEF G
<1>2. v \in G
  BY DEF G
<1>3. PrimeAll(v, us) \in G
  BY <1>1, <1>2, PrimeAllStays
<1> QED BY <1>3 DEF G

\* The snapshots of an answer, then the channels that get none.
LEMMA ApplyAllGood ==
  ASSUME NEW E \in SUBSET Envelopes, NEW O, NEW K, NEW X, NEW v \in Views(E, O, K, X),
         NEW ss \in SUBSET Snapshots, IsFiniteSet(ss), NEW us, IsFiniteSet(us)
  PROVE  ApplyAll(v, ss, us) \in Views(E, O, K, X)
<1> DEFINE G == Views(E, O, K, X)
<1>1. \A s \in ss, w \in G : ApplySnapshot(w, s) \in G
  BY ApplySnapshotGood
<1> HIDE DEF G
<1>2. v \in G
  BY DEF G
<1>3. ApplySnapshots(v, ss) \in G
  BY <1>1, <1>2, ApplySnapshotsStay
<1>4. ApplyAll(v, ss, us) = PrimeAll(ApplySnapshots(v, ss), us)
  BY DEF ApplyAll, PrimeAll, ApplySnapshots
<1> QED BY <1>3, <1>4, PrimeAllGood DEF G

\* The mirrors of a new handshake hold envelopes back again.
LEMMA UnprimeGood ==
  ASSUME NEW E, NEW O, NEW K, NEW X, NEW v \in Views(E, O, K, X), NEW us
  PROVE  Unprime(v, us) \in Views(E, O, K, X) /\ Known(Unprime(v, us)) = Known(v)
<1> DEFINE D == Known(v)
           ms == [u \in D |-> IF u \in us
                              THEN [v.mirrors[u] EXCEPT !.primed = FALSE, !.buffered = << >>]
                              ELSE v.mirrors[u]]
<1>1. Parts(v, E, O, K, X)
  BY ViewParts
<1>2. << >> \in Seq(E) /\ \A u : << >> \in Seq(For(E, u))
  OBVIOUS
<1>3. ASSUME NEW u \in D
      PROVE  /\ ms[u] \in Mirrors(E) /\ ms[u].buffered \in Seq(For(E, u))
             /\ u \notin X => ms[u].optimistic = ms[u].confirmed \o ms[u].pending
  BY <1>1, <1>2 DEF Parts, Mirrors
<1>4. Unprime(v, us) = [mirrors |-> ms, seen |-> v.seen, outcome |-> v.outcome]
  <2>1. v = [mirrors |-> v.mirrors, seen |-> v.seen, outcome |-> v.outcome]
    BY <1>1 DEF Parts
  <2>2. Unprime(v, us) = [v EXCEPT !.mirrors = ms]
    BY DEF Unprime
  <2> HIDE DEF ms
  <2> QED BY <2>1, <2>2
<1>5. ms \in [D -> Mirrors(E)] /\ D \in SUBSET Uris
  BY <1>1, <1>3 DEF Parts
<1> HIDE DEF ms
<1>6. /\ \A u \in D : ms[u].buffered \in Seq(For(E, u))
      /\ \A u \in D \ X : ms[u].optimistic = ms[u].confirmed \o ms[u].pending
  BY <1>3
<1>7. /\ v.seen \in Nat /\ v.outcome \in [Numbers -> Outcome]
      /\ \A n \in Numbers : Witnessed(E, n, v.outcome[n])
      /\ \A n \in Numbers : v.outcome[n] = "open" => n \in O
      /\ K \subseteq D
  BY <1>1 DEF Parts, Opens
<1>8. [mirrors |-> ms, seen |-> v.seen, outcome |-> v.outcome] \in Views(E, O, K, X)
  BY <1>5, <1>6, <1>7, ViewMade
<1>9. Known(Unprime(v, us)) = D
  BY <1>4, <1>5 DEF Known
<1> QED BY <1>4, <1>8, <1>9

\* A dispatch ends without an envelope: it is no longer open.
LEMMA DiscardGood ==
  ASSUME NEW E, NEW O, NEW K, NEW X, NEW v \in Views(E, O, K, X), NEW u,
         NEW n \in Numbers, NEW outcome \in Outcome \ {"open"}, Witnessed(E, n, outcome)
  PROVE  Discard(v, u, n, outcome) \in Views(E, O \ {n}, K, X)
<1>1. CASE u \notin Known(v)
  BY <1>1, SettleGood DEF Discard
<1>2. CASE u \in Known(v)
  <2> DEFINE Y == X \cup {u}
             p == v.mirrors[u].pending
             m == [v.mirrors[u] EXCEPT !.pending = Without(p, n)]
             w == [v EXCEPT !.mirrors[u] = m]
  <2>1. v.mirrors[u] \in Mirrors(E) /\ v.mirrors[u].buffered \in Seq(For(E, u))
    <3>1. Parts(v, E, O, K, X)
      BY ViewParts
    <3> QED BY <1>2, <3>1 DEF Parts
  <2>2. m \in Mirrors(E) /\ m.buffered \in Seq(For(E, u))
    <3>1. p \in Seq(Numbers)
      BY <2>1 DEF Mirrors
    <3>2. Without(p, n) \in Seq(Numbers)
      BY <3>1, SelectedTyped DEF Without
    <3> QED BY <2>1, <3>2 DEF Mirrors
  <2>3. Discard(v, u, n, outcome) = Restate(Settle(w, n, outcome), u)
    <3>1. Discard(v, u, n, outcome)
            = Restate(Settle([v EXCEPT !.mirrors[u].pending = Without(@, n)], n, outcome), u)
      BY <1>2 DEF Discard
    <3> QED BY <3>1
  <2> HIDE DEF m
  <2>4. X \ {u} \subseteq Y /\ u \in Y /\ Y \ {u} \subseteq X
    OBVIOUS
  <2> HIDE DEF Y
  <2>5. w \in Views(E, O, K, Y)
    BY <1>2, <2>2, <2>4, MirrorChanged
  <2>6. Known(w) = Known(v)
    BY <1>2, MirrorFrame
  <2> HIDE DEF w
  <2>7. Settle(w, n, outcome) \in Views(E, O \ {n}, K, Y)
          /\ Settle(w, n, outcome).mirrors = w.mirrors
    BY <2>5, SettleGood
  <2>8. u \in Known(Settle(w, n, outcome))
    BY <1>2, <2>6, <2>7 DEF Known
  <2>9. Restate(Settle(w, n, outcome), u) \in Views(E, O \ {n}, K, Y \ {u})
    BY <2>7, <2>8, RestateGood
  <2>10. Restate(Settle(w, n, outcome), u) \in Views(E, O \ {n}, K, X)
    BY <2>4, <2>9, ViewsMonotone
  <2> QED BY <2>3, <2>10
<1> QED BY <1>1, <1>2

\* A request that fails takes back the mirrors that it made.
LEMMA FailureGood ==
  ASSUME NEW E, NEW O, NEW K, NEW X, NEW v \in Views(E, O, K, X), NEW r \in Requests,
         NEW why
  PROVE  /\ Failure(v, r, why) \in Views(E, O, K \ r.created, X)
         /\ r.method = "dispatch" /\ why # "transport" =>
              Failure(v, r, why) \in Views(E, O \ {r.n}, K, X)
<1>1. CASE r.method # "dispatch"
  <2>1. IsFiniteSet(r.created)
    BY ClientAssumption, FS_Subset DEF Requests
  <2> QED BY <1>1, <2>1, ForgetAllGood DEF Failure
<1>2. CASE r.method = "dispatch" /\ why = "transport"
  BY <1>2, ViewsMonotone DEF Failure
<1>3. CASE r.method = "dispatch" /\ why # "transport"
  <2>1. r.n \in Numbers
    BY <1>3 DEF Requests
  <2>2. Witnessed(E, r.n, "lost") /\ "lost" \in Outcome \ {"open"}
    BY DEF Witnessed, Outcome
  <2>3. Failure(v, r, why) = Discard(v, r.uri, r.n, "lost")
    BY <1>3 DEF Failure
  <2>4. Failure(v, r, why) \in Views(E, O \ {r.n}, K, X)
    BY <2>1, <2>2, <2>3, DiscardGood
  <2> QED BY <1>3, <2>4, ViewsMonotone
<1> QED BY <1>1, <1>2, <1>3

\* The callers of several requests that fail take back the mirrors they made, and no
\* others.
LEMMA FailuresGood ==
  ASSUME NEW E, NEW O, NEW K, NEW X, NEW v \in Views(E, O, K, X),
         NEW rs \in SUBSET Requests, IsFiniteSet(rs), NEW why,
         \A r \in rs : r.created \cap K = {}
  PROVE  Failures(v, rs, why) \in Views(E, O, K, X)
<1> DEFINE G == Views(E, O, K, X)
<1>1. ASSUME NEW r \in rs, NEW w \in G
      PROVE  Failure(w, r, why) \in G
  <2>1. Failure(w, r, why) \in Views(E, O, K \ r.created, X)
    BY FailureGood
  <2>2. K \ r.created = K
    OBVIOUS
  <2> QED BY <2>1, <2>2
<1> HIDE DEF G
<1>2. v \in G
  BY DEF G
<1>3. Failures(v, rs, why) \in G
  BY <1>1, <1>2, FailuresStay
<1> QED BY <1>3 DEF G

\* Mirrors of channels that had none.
LEMMA MirrorsAdded ==
  ASSUME NEW E, NEW O, NEW K, NEW X, NEW v \in Views(E, O, K, X), NEW us \in SUBSET Uris
  PROVE  WithMirrors(v, us) \in Views(E, O, K \cup us, X)
           /\ Known(WithMirrors(v, us)) = Known(v) \cup us
<1> DEFINE D == Known(v) \cup us
           ms == [u \in D |-> IF u \in Known(v) THEN v.mirrors[u] ELSE NewMirror(FALSE)]
<1>1. Parts(v, E, O, K, X)
  BY ViewParts
<1>2. /\ NewMirror(FALSE) \in Mirrors(E)
      /\ \A u : NewMirror(FALSE).buffered \in Seq(For(E, u))
      /\ NewMirror(FALSE).optimistic = NewMirror(FALSE).confirmed \o NewMirror(FALSE).pending
  <2>1. \A A : << >> \in Seq(A)
    OBVIOUS
  <2>2. << >> \o << >> = << >>
    OBVIOUS
  <2> QED BY <2>1, <2>2 DEF NewMirror, Mirrors
<1>3. ASSUME NEW u \in D
      PROVE  /\ ms[u] \in Mirrors(E) /\ ms[u].buffered \in Seq(For(E, u))
             /\ u \notin X => ms[u].optimistic = ms[u].confirmed \o ms[u].pending
  BY <1>1, <1>2 DEF Parts
<1>5. WithMirrors(v, us) = [mirrors |-> ms, seen |-> v.seen, outcome |-> v.outcome]
  <2>1. v = [mirrors |-> v.mirrors, seen |-> v.seen, outcome |-> v.outcome]
    BY <1>1 DEF Parts
  <2>2. WithMirrors(v, us) = [v EXCEPT !.mirrors = ms]
    BY DEF WithMirrors
  <2> HIDE DEF ms
  <2> QED BY <2>1, <2>2
<1>6. ms \in [D -> Mirrors(E)] /\ D \in SUBSET Uris
  BY <1>1, <1>3 DEF Parts
<1> HIDE DEF ms
<1>7. /\ \A u \in D : ms[u].buffered \in Seq(For(E, u))
      /\ \A u \in D \ X : ms[u].optimistic = ms[u].confirmed \o ms[u].pending
  BY <1>3
<1>8. /\ v.seen \in Nat /\ v.outcome \in [Numbers -> Outcome]
      /\ \A n \in Numbers : Witnessed(E, n, v.outcome[n])
      /\ \A n \in Numbers : v.outcome[n] = "open" => n \in O
      /\ K \cup us \subseteq D
  BY <1>1 DEF Parts, Opens
<1>9. [mirrors |-> ms, seen |-> v.seen, outcome |-> v.outcome] \in Views(E, O, K \cup us, X)
  BY <1>6, <1>7, <1>8, ViewMade
<1>10. Known(WithMirrors(v, us)) = D
  BY <1>5, <1>6 DEF Known
<1> QED BY <1>5, <1>9, <1>10

-----------------------------------------------------------------------------
(* What a handshake makes of a view. *)

\* Every dispatch that is still open is lost.
LEMMA EndAllGood ==
  ASSUME NEW E, NEW O, NEW K, NEW X, NEW v \in Views(E, O, K, X)
  PROVE  /\ SettleAll(v, DOMAIN v.outcome, "lost") \in Views(E, {}, K, X)
         /\ SettleAll(v, DOMAIN v.outcome, "lost").mirrors = v.mirrors
<1> DEFINE D == DOMAIN v.outcome
<1>1. D = Numbers
  <2>1. Parts(v, E, O, K, X)
    BY ViewParts
  <2> QED BY <2>1 DEF Parts
<1>2. v \in Views(E, Numbers, K, X)
  BY DEF Views, Opens
<1>3. (\A n : Witnessed(E, n, "lost")) /\ "lost" \in Outcome \ {"open"} /\ Numbers \ Numbers = {}
  BY DEF Witnessed, Outcome
<1> HIDE DEF D
<1>4. /\ SettleAll(v, D, "lost") \in Views(E, Numbers \ D, K, X)
      /\ SettleAll(v, D, "lost").mirrors = v.mirrors
  BY <1>2, <1>3, SettleAllGood
<1>5. Numbers \ D = {}
  BY <1>1
<1> QED BY <1>4, <1>5 DEF D

\* After a replay every channel gives up what is pending.
LEMMA LoseAllGood ==
  ASSUME NEW E \in SUBSET Envelopes, NEW O, NEW K, NEW X, NEW v \in Views(E, O, K, X)
  PROVE  LoseAll(v, Known(v)) \in Views(E, O, K, X)
<1> DEFINE L == Known(v)
           G == Views(E, O, L, X)
<1>1. ASSUME NEW u \in L, NEW w \in G
      PROVE  Restate(Lose(Drain(w, u), u), u) \in G
  <2> DEFINE x == Drain(w, u)
  <2>1. u \in Known(w) /\ L \subseteq Known(w)
    BY DEF Views
  <2>2. x \in Views(E, O, Known(w), X)
    BY <2>1, DrainGood
  <2> HIDE DEF x
  <2>3. x \in G /\ u \in Known(x)
    <3>1. x \in G
      BY <2>1, <2>2, ViewsMonotone
    <3> QED BY <3>1 DEF Views
  <2> DEFINE y == Lose(x, u)
  <2>4. y \in Views(E, O, L, X \cup {u}) /\ Known(y) = Known(x)
    BY <2>3, LoseGood
  <2> HIDE DEF y
  <2>5. Restate(y, u) \in Views(E, O, L, (X \cup {u}) \ {u})
    BY <2>3, <2>4, RestateGood
  <2>6. (X \cup {u}) \ {u} \subseteq X
    OBVIOUS
  <2>7. Restate(y, u) \in G
    BY <2>5, <2>6, ViewsMonotone
  <2> QED BY <2>7 DEF x, y
<1>2. v \in G /\ K \subseteq L
  BY AllKnown
<1>3. IsFiniteSet(L)
  <2>1. Parts(v, E, O, K, X)
    BY ViewParts
  <2> QED BY <2>1, ClientAssumption, FS_Subset DEF Parts
<1> HIDE DEF G
<1>4. LoseAll(v, L) \in G
  BY <1>1, <1>2, <1>3, LoseAllStays
<1> QED BY <1>2, <1>4, ViewsMonotone DEF G

\* After a replay nothing is open.
LEMMA AfterReplayGood ==
  ASSUME NEW E \in SUBSET Envelopes, NEW O, NEW K, NEW X, NEW v \in Views(E, O, K, X)
  PROVE  AfterReplay(v) \in Views(E, {}, K, X)
<1> DEFINE w == LoseAll(v, Known(v))
<1>1. w \in Views(E, O, K, X)
  BY LoseAllGood
<1>2. AfterReplay(v) = SettleAll(w, DOMAIN w.outcome, "lost")
  BY DEF AfterReplay, LoseAll
<1> HIDE DEF w
<1> QED BY <1>1, <1>2, EndAllGood

\* The snapshots of a reconnect, each after its channel gave up what was pending.
LEMMA RestateAllGood ==
  ASSUME NEW E \in SUBSET Envelopes, NEW O, NEW K, NEW X, NEW v \in Views(E, O, K, X),
         NEW ss \in SUBSET Snapshots, IsFiniteSet(ss)
  PROVE  RestateAll(v, ss) \in Views(E, O, K, X)
<1> DEFINE G == Views(E, O, K, X)
<1>1. ASSUME NEW s \in ss, NEW w \in G
      PROVE  RestatedBy(w, s) \in G
  <2> DEFINE u == s.uri
  <2> SUFFICES ASSUME u \in Known(w)
               PROVE  ApplySnapshot(Lose(w, u), s) \in G
    BY DEF RestatedBy
  <2> DEFINE x == Lose(w, u)
  <2>1. x \in Views(E, O, K, X \cup {u}) /\ Known(x) = Known(w)
    BY LoseGood
  <2> HIDE DEF x
  <2>2. ApplySnapshot(x, s) \in Views(E, O, K, (X \cup {u}) \ {u})
    BY <2>1, SnapshotRestates
  <2>3. (X \cup {u}) \ {u} \subseteq X
    OBVIOUS
  <2>4. ApplySnapshot(x, s) \in Views(E, O, K, X)
    BY <2>2, <2>3, ViewsMonotone
  <2> QED BY <2>4 DEF x
<1> HIDE DEF G
<1>2. v \in G
  BY DEF G
<1>3. RestateAll(v, ss) \in G
  BY <1>1, <1>2, RestateAllStays
<1> QED BY <1>3 DEF G

\* Every mirror takes envelopes again.
LEMMA AllPrimedGood ==
  ASSUME NEW E, NEW O, NEW K, NEW X, NEW v \in Views(E, O, K, X)
  PROVE  [v EXCEPT !.mirrors = [u \in Known(v) |-> [@[u] EXCEPT !.primed = TRUE]]]
           \in Views(E, O, K, X)
<1> DEFINE D == Known(v)
           ms == [u \in D |-> [v.mirrors[u] EXCEPT !.primed = TRUE]]
<1>1. Parts(v, E, O, K, X)
  BY ViewParts
<1>3. ASSUME NEW u \in D
      PROVE  /\ ms[u] \in Mirrors(E) /\ ms[u].buffered \in Seq(For(E, u))
             /\ u \notin X => ms[u].optimistic = ms[u].confirmed \o ms[u].pending
  BY <1>1 DEF Parts, Mirrors
<1>4. [v EXCEPT !.mirrors = [u \in Known(v) |-> [@[u] EXCEPT !.primed = TRUE]]]
        = [mirrors |-> ms, seen |-> v.seen, outcome |-> v.outcome]
  <2>1. v = [mirrors |-> v.mirrors, seen |-> v.seen, outcome |-> v.outcome]
    BY <1>1 DEF Parts
  <2>2. [v EXCEPT !.mirrors = [u \in Known(v) |-> [@[u] EXCEPT !.primed = TRUE]]]
          = [v EXCEPT !.mirrors = ms]
    OBVIOUS
  <2> HIDE DEF ms
  <2> QED BY <2>1, <2>2
<1>5. ms \in [D -> Mirrors(E)] /\ D \in SUBSET Uris
  BY <1>1, <1>3 DEF Parts
<1> HIDE DEF ms
<1>6. /\ \A u \in D : ms[u].buffered \in Seq(For(E, u))
      /\ \A u \in D \ X : ms[u].optimistic = ms[u].confirmed \o ms[u].pending
  BY <1>3
<1>7. /\ v.seen \in Nat /\ v.outcome \in [Numbers -> Outcome]
      /\ \A n \in Numbers : Witnessed(E, n, v.outcome[n])
      /\ \A n \in Numbers : v.outcome[n] = "open" => n \in O
      /\ K \subseteq D
  BY <1>1 DEF Parts, Opens
<1>8. [mirrors |-> ms, seen |-> v.seen, outcome |-> v.outcome] \in Views(E, O, K, X)
  BY <1>5, <1>6, <1>7, ViewMade
<1> QED BY <1>4, <1>8

-----------------------------------------------------------------------------
(* What is good stays good while the log and the identifiers grow. *)

Grows ==
  /\ Told \subseteq Told' /\ nextId' \in Nat /\ nextId <= nextId'
  /\ \A r \in waiting' : r \in waiting \/ nextId <= r.id

\* A request keeps its identifier while the identifiers grow.
LEMMA IssuedGrows ==
  ASSUME Types, Grows
  PROVE  Issued \subseteq Issued'
<1> SUFFICES ASSUME NEW r \in Issued PROVE r \in Issued'
  OBVIOUS
<1>1. r \in Requests /\ r.id < nextId /\ \A q \in waiting : q.id = r.id => q = r
  BY DEF Issued
<1>2. r.id \in Nat /\ nextId \in Nat /\ nextId' \in Nat /\ nextId <= nextId'
  BY <1>1 DEF Requests, Grows, Types, ClientTypes
<1>3. r.id < nextId'
  BY <1>1, <1>2
<1>4. ASSUME NEW q \in waiting', q.id = r.id
      PROVE  q = r
  <2>1. q \in waiting
    BY <1>1, <1>2, <1>4 DEF Grows
  <2> QED BY <1>1, <1>4, <2>1
<1> QED BY <1>1, <1>3, <1>4 DEF Issued

\* A result remains one while the log grows.
LEMMA ResultsGrow ==
  ASSUME Told \subseteq Told'
  PROVE  Results \subseteq Results'
<1> DEFINE T == Told
           U == Told'
           R(V) == [type : {"error", "duplicate"}]
                     \cup [type : {"envelope"}, envelope : V]
                     \cup [type : {"hello"}, serverSeq : Nat, snapshots : SUBSET Snapshots]
                     \cup [type : {"subscribed"}, snapshots : SUBSET Snapshots]
                     \cup [type : {"replay"}, missing : SUBSET Uris, actions : Seq(V)]
                     \cup [type : {"snapshot"}, missing : SUBSET Uris, snapshots : SUBSET Snapshots]
<1>1. Results = R(T) /\ Results' = R(U)
  BY DEF Results, Snapshots
<1> HIDE DEF T, U
<1>2. Seq(T) \subseteq Seq(U) /\ T \subseteq U
  BY DEF T, U
<1>3. [type : {"envelope"}, envelope : T] \subseteq [type : {"envelope"}, envelope : U]
  BY <1>2
<1>4. [type : {"replay"}, missing : SUBSET Uris, actions : Seq(T)]
        \subseteq [type : {"replay"}, missing : SUBSET Uris, actions : Seq(U)]
  BY <1>2
<1> QED BY <1>1, <1>3, <1>4, Zenon

\* An answer on its way still fits the request that waits for it, if any.
LEMMA AnswersGrow ==
  ASSUME Types, Grows
  PROVE  Answers \subseteq Answers'
<1> SUFFICES ASSUME NEW f \in Answers PROVE f \in Answers'
  OBVIOUS
<1>1. f \in [kind : {"answer"}, id : Nat, result : Results] /\ f.id < nextId
        /\ \A q \in waiting : q.id = f.id => Fits(q, f.result)
  BY DEF Answers
<1>2. Results \subseteq Results'
  BY ResultsGrow DEF Grows
<1>3. f \in [kind : {"answer"}, id : Nat, result : Results']
  BY <1>1, <1>2
<1>4. f.id \in Nat /\ nextId \in Nat /\ nextId' \in Nat /\ nextId <= nextId'
  BY <1>1 DEF Grows, Types, ClientTypes
<1>5. f.id < nextId'
  BY <1>1, <1>4
<1>6. ASSUME NEW q \in waiting', q.id = f.id
      PROVE  Fits(q, f.result)
  <2>1. q \in waiting
    BY <1>1, <1>4, <1>6 DEF Grows
  <2> QED BY <1>1, <1>6, <2>1
<1>7. \A q \in waiting' : q.id = f.id => Fits(q, f.result)'
  BY <1>6 DEF Fits
<1> QED BY <1>3, <1>5, <1>7 DEF Answers, Fits

\* All of these, and the frames on the wire.
LEMMA FramesGrow ==
  ASSUME Types, Grows
  PROVE  /\ UpFrames \subseteq UpFrames' /\ DownFrames \subseteq DownFrames'
         /\ Told \subseteq Told' /\ Issued \subseteq Issued' /\ Results \subseteq Results'
         /\ Answers \subseteq Answers'
<1>1. Issued \subseteq Issued' /\ Answers \subseteq Answers' /\ Told \subseteq Told'
  BY IssuedGrows, AnswersGrow DEF Grows
<1>2. UpFrames \subseteq UpFrames'
  BY <1>1 DEF UpFrames
<1>3. DownFrames \subseteq DownFrames'
  BY <1>1 DEF DownFrames
<1> QED BY <1>1, <1>2, <1>3, ResultsGrow

\* What the hub is doing remains a job.
LEMMA JobsGrow ==
  ASSUME Types, Grows
  PROVE  Jobs \subseteq Jobs'
<1> SUFFICES ASSUME NEW j \in Jobs PROVE j \in Jobs'
  OBVIOUS
<1>1. Issued \subseteq Issued' /\ Results \subseteq Results'
  BY FramesGrow
<1>2. CASE j = Idle
  BY <1>2 DEF Jobs
<1>3. CASE j \in {i \in [stage : {"subscribing", "greeting", "resuming", "committing"},
                 request : Issued, todo : SUBSET Uris, missing : SUBSET Uris,
                 snapshots : SUBSET Snapshots] :
            /\ i.stage = "subscribing" => i.request.method \in {"hello", "subscribe"}
            /\ i.stage = "greeting" => i.request.method = "hello"
            /\ i.stage = "resuming" => i.request.method = "reconnect"
            /\ i.stage = "committing" => i.request.method = "dispatch"
            /\ IsFiniteSet(i.snapshots)}
  <2>1. j \in [stage : {"subscribing", "greeting", "resuming", "committing"},
                 request : Issued', todo : SUBSET Uris, missing : SUBSET Uris,
                 snapshots : SUBSET Snapshots]
    BY <1>1, <1>3
  <2> QED BY <1>3, <2>1 DEF Jobs, Snapshots
<1>4. CASE j \in {i \in [stage : {"answering"}, request : Issued, result : Results] :
                    Fits(i.request, i.result)}
  <2>1. j \in [stage : {"answering"}, request : Issued', result : Results']
    BY <1>1, <1>4
  <2> QED BY <1>4, <2>1 DEF Jobs, Fits
<1>5. CASE j \in {i \in [stage : {"writing"}, request : Issued, accepted : BOOLEAN] :
                    i.request.method = "dispatch"}
  <2>1. j \in [stage : {"writing"}, request : Issued', accepted : BOOLEAN]
    BY <1>1, <1>5
  <2> QED BY <1>5, <2>1 DEF Jobs
<1> QED BY <1>2, <1>3, <1>4, <1>5 DEF Jobs

\* What is in the log is an envelope.
LEMMA ToldAreEnvelopes ==
  ASSUME HubTypes
  PROVE  Told \in SUBSET Envelopes
<1>1. \A i \in DOMAIN log : log[i] \in Envelopes
  BY DEF HubTypes
<1> QED BY <1>1 DEF Told

\* A queue of good frames is a queue of those of a larger set.
LEMMA QueuesGrow ==
  ASSUME NEW A, NEW B, A \subseteq B, NEW q \in [Sockets -> Seq(A)]
  PROVE  q \in [Sockets -> Seq(B)]
<1>1. Seq(A) \subseteq Seq(B)
  OBVIOUS
<1> QED BY <1>1

\* The client's part, for a step of the hub.
LEMMA ClientFrame ==
  ASSUME Types, Told \subseteq Told', UNCHANGED clientVars
  PROVE  ClientTypes' /\ Grows
<1> USE DEF clientVars, linkState, shakeState, callState, saveState
<1>1. Grows
  BY DEF Grows, Types, ClientTypes
<1>2. early' \in Seq(Told')
  BY DEF Types, ClientTypes
<1>3. view' \in Views(Told', Numbers, {}, {})
  BY ViewsMonotone DEF Types, ClientTypes
<1>4. (view \in Views(Told, Numbers, {}, {}))'
  BY <1>3 DEF Views, ViewsOf, Sorted, Shown, Truthful, Opens
<1>5. Issued \subseteq Issued'
  BY <1>1, FramesGrow
<1> QED BY <1>1, <1>2, <1>4, <1>5 DEF Types, ClientTypes, Checkpoints, Flushes

\* The hub's part, for a step of the client.
LEMMA HubFrame ==
  ASSUME Types, Grows, UNCHANGED serverVars
  PROVE  HubTypes'
<1> USE DEF serverVars, hubVars, linkVars
<1>1. Told' = Told
  BY DEF Told
<1>2. job' \in [Sockets -> Jobs']
  <2>1. Jobs \subseteq Jobs'
    BY JobsGrow
  <2> QED BY <2>1 DEF Types, HubTypes
<1>3. ring' \in Seq(Told')
  BY <1>1 DEF Types, HubTypes
<1> QED BY <1>2, <1>3 DEF Types, HubTypes, Envelopes, Sockets

-----------------------------------------------------------------------------
(* The steps of the hub. *)

\* A frame is sent.
LEMMA SentTyped ==
  ASSUME NEW F, NEW q \in [Sockets -> Seq(F)], NEW s, NEW f \in F
  PROVE  SentUp(q, s, f) \in [Sockets -> Seq(F)] /\ SentDown(q, s, f) \in [Sockets -> Seq(F)]
<1> DEFINE p == [q EXCEPT ![s] = Append(q[s], f)]
<1>1. p \in [Sockets -> Seq(F)]
  <2>1. ASSUME s \in Sockets
        PROVE  Append(q[s], f) \in Seq(F)
    BY <2>1, AppendTyped
  <2> QED BY <2>1
<1>2. [q EXCEPT ![s] = Append(@, f)] = p
  OBVIOUS
<1> HIDE DEF p
<1> QED BY <1>1, <1>2 DEF SentUp, SentDown

\* The queues of sockets that end are emptied.
LEMMA DrainedTyped ==
  ASSUME NEW F, NEW q \in [Sockets -> Seq(F)], NEW S
  PROVE  Drained(q, S) \in [Sockets -> Seq(F)]
<1>1. << >> \in Seq(F)
  OBVIOUS
<1> QED BY <1>1 DEF Drained

\* A frame is taken from the head of its queue.
LEMMA TakenTyped ==
  ASSUME WireTypes, NEW s \in Sockets, up[s] # << >>
  PROVE  Taken(s) \in [Sockets -> Seq(UpFrames)] /\ Head(up[s]) \in UpFrames
<1>1. up[s] \in Seq(UpFrames)
  BY DEF WireTypes
<1>2. Tail(up[s]) \in Seq(UpFrames) /\ Head(up[s]) \in UpFrames
  BY <1>1
<1> QED BY <1>2 DEF Taken, WireTypes

\* The jobs of sockets that end.
LEMMA EndedTyped ==
  ASSUME NEW q \in [Sockets -> Jobs], NEW S
  PROVE  Ended(q, S) \in [Sockets -> Jobs]
BY DEF Ended, Jobs

\* What a job consists of.
LEMMA JobParts ==
  ASSUME NEW j \in Jobs, j # Idle
  PROVE  /\ j.request \in Issued /\ j.request \in Requests
         /\ j.stage \in {"subscribing", "greeting", "resuming", "committing", "answering",
                           "writing"}
         /\ j.stage \in {"subscribing", "greeting", "resuming", "committing"} =>
              /\ j.todo \in SUBSET Uris /\ j.missing \in SUBSET Uris
              /\ j.snapshots \in SUBSET Snapshots /\ IsFiniteSet(j.snapshots)
              /\ j = [stage |-> j.stage, request |-> j.request, todo |-> j.todo,
                      missing |-> j.missing, snapshots |-> j.snapshots]
         /\ j.stage = "subscribing" => j.request.method \in {"hello", "subscribe"}
         /\ j.stage = "greeting" => j.request.method = "hello"
         /\ j.stage = "resuming" => j.request.method = "reconnect"
         /\ j.stage = "committing" => j.request.method = "dispatch"
         /\ j.stage = "answering" => j.result \in Results /\ Fits(j.request, j.result)
         /\ j.stage = "writing" => j.request.method = "dispatch" /\ j.accepted \in BOOLEAN
<1>1. Issued \subseteq Requests
  BY DEF Issued
<1> QED BY <1>1 DEF Jobs

\* A job is put in place of another.
LEMMA JobsMade ==
  ASSUME NEW r \in Issued
  PROVE  /\ \A result \in Results : Fits(r, result) => Answering(r, result) \in Jobs
         /\ \A stage \in {"subscribing", "greeting", "resuming", "committing"} :
              \A todo, missing \in SUBSET Uris : \A ss \in SUBSET Snapshots :
                /\ stage = "subscribing" => r.method \in {"hello", "subscribe"}
                /\ stage = "greeting" => r.method = "hello"
                /\ stage = "resuming" => r.method = "reconnect"
                /\ stage = "committing" => r.method = "dispatch"
                /\ IsFiniteSet(ss)
                => [stage |-> stage, request |-> r, todo |-> todo, missing |-> missing,
                    snapshots |-> ss] \in Jobs
         /\ \A accepted \in BOOLEAN : r.method = "dispatch" =>
              [stage |-> "writing", request |-> r, accepted |-> accepted] \in Jobs
<1>1. ASSUME NEW result \in Results, Fits(r, result)
      PROVE  Answering(r, result) \in Jobs
  BY <1>1 DEF Answering, Jobs
<1>2. ASSUME NEW stage \in {"subscribing", "greeting", "resuming", "committing"},
             NEW todo \in SUBSET Uris, NEW missing \in SUBSET Uris, NEW ss \in SUBSET Snapshots,
             stage = "subscribing" => r.method \in {"hello", "subscribe"},
             stage = "greeting" => r.method = "hello",
             stage = "resuming" => r.method = "reconnect",
             stage = "committing" => r.method = "dispatch",
             IsFiniteSet(ss)
      PROVE  [stage |-> stage, request |-> r, todo |-> todo, missing |-> missing,
              snapshots |-> ss] \in Jobs
  BY <1>2 DEF Jobs
<1>3. ASSUME NEW accepted \in BOOLEAN, r.method = "dispatch"
      PROVE  [stage |-> "writing", request |-> r, accepted |-> accepted] \in Jobs
  BY <1>3 DEF Jobs
<1> QED BY <1>1, <1>2, <1>3

\* A refusal fits every request.
LEMMA Refused ==
  ASSUME NEW r \in Issued
  PROVE  Refusal(r) \in Jobs
<1>1. [type |-> "error"] \in Results /\ Fits(r, [type |-> "error"])
  BY DEF Results, Fits
<1> QED BY <1>1, JobsMade DEF Refusal

\* A job that has just begun.
LEMMA JobsBegun ==
  ASSUME NEW r \in Issued, NEW stage \in {"subscribing", "greeting", "resuming", "committing"},
         NEW todo \in SUBSET Uris,
         stage = "subscribing" => r.method \in {"hello", "subscribe"},
         stage = "greeting" => r.method = "hello",
         stage = "resuming" => r.method = "reconnect",
         stage = "committing" => r.method = "dispatch"
  PROVE  Job(stage, r, todo) \in Jobs
<1>1. IsFiniteSet({}) /\ {} \in SUBSET Uris /\ {} \in SUBSET Snapshots
  BY FS_EmptySet
<1> QED BY <1>1, JobsMade DEF Job

\* A step of the hub that commits nothing.
LEMMA NothingCommitted ==
  ASSUME UNCHANGED log, UNCHANGED clientVars
  PROVE  Told' = Told /\ Jobs' = Jobs /\ UpFrames' = UpFrames /\ DownFrames' = DownFrames
           /\ Issued' = Issued
<1> USE DEF clientVars, callState
<1>1. Told' = Told
  BY DEF Told
<1>2. Issued' = Issued
  BY DEF Issued, Requests, SomeUris
<1>3. Results' = Results
  BY <1>1 DEF Results, Snapshots
<1>4. UpFrames' = UpFrames
  BY <1>2 DEF UpFrames
<1>5. Answers' = Answers
  BY <1>3 DEF Answers, Fits
<1>6. DownFrames' = DownFrames
  BY <1>1, <1>5 DEF DownFrames
<1>7. Jobs' = Jobs
  BY <1>2, <1>3 DEF Jobs, Fits, Snapshots, Idle
<1> QED BY <1>1, <1>2, <1>4, <1>6, <1>7

\* The rest of the hub's part, and of the wire's, for such a step.
LEMMA Uncommitted ==
  ASSUME Types, UNCHANGED clientVars, UNCHANGED hubVars,
         job' \in [Sockets -> Jobs], up' \in [Sockets -> Seq(UpFrames)],
         down' \in [Sockets -> Seq(DownFrames)],
         link' \in 0..MaxSockets, subs' \subseteq Uris, watermark' \in Nat,
         reader' = reader, detached' \subseteq Sockets
  PROVE  Types'
<1>1. Told' = Told /\ Jobs' = Jobs /\ UpFrames' = UpFrames /\ DownFrames' = DownFrames
  BY NothingCommitted DEF hubVars
<1>2. ClientTypes'
  BY <1>1, ClientFrame
<1>3. WireTypes'
  BY <1>1 DEF Types, WireTypes, Sockets
<1>4. HubTypes'
  <2>1. ring' = ring /\ log' = log /\ gone' = gone
    BY DEF hubVars
  <2> QED BY <1>1, <2>1 DEF Types, HubTypes, Sockets, Envelopes
<1> QED BY <1>2, <1>3, <1>4 DEF Types

\* hello and reconnect, as the hub takes them from the wire.
LEMMA TakeHandshakeTyped ==
  ASSUME Types, NEW s \in Sockets, TakeHandshake(s), UNCHANGED clientVars
  PROVE  Types'
<1> DEFINE r == Head(up[s])
           replaced == {link} \ {0, s}
           stage == IF r.method = "reconnect" THEN "resuming"
                    ELSE IF r.uris = {} THEN "greeting" ELSE "subscribing"
<1>1. up[s] # << >> /\ r.method \in {"hello", "reconnect"}
  BY DEF TakeHandshake, FrameFor
<1>2. Taken(s) \in [Sockets -> Seq(UpFrames)] /\ r \in UpFrames
  BY <1>1, TakenTyped DEF Types
<1>3. r \in Issued /\ r.uris \in SUBSET Uris
  BY <1>1, <1>2 DEF UpFrames, Issued, Requests
<1>4. Job(stage, r, r.uris) \in Jobs
  <2> HIDE DEF r
  <2> QED BY <1>1, <1>3, JobsBegun
<1>5. job' = [Ended(job, replaced) EXCEPT ![s] = Job(stage, r, r.uris)]
        /\ up' = Drained(Taken(s), replaced) /\ link' = s /\ subs' = {} /\ watermark' = 0
        /\ detached' = detached \cup replaced /\ UNCHANGED <<hubVars, down, reader>>
  BY DEF TakeHandshake
<1> HIDE DEF r, stage
<1>6. Ended(job, replaced) \in [Sockets -> Jobs]
  BY EndedTyped DEF Types, HubTypes
<1>7. job' \in [Sockets -> Jobs]
  BY <1>4, <1>5, <1>6
<1>8. up' \in [Sockets -> Seq(UpFrames)]
  BY <1>2, <1>5, DrainedTyped
<1>9. replaced \subseteq Sockets /\ s \in 0..MaxSockets
  BY ServerAssumption DEF Types, HubTypes, Sockets
<1> QED BY <1>5, <1>7, <1>8, <1>9, Uncommitted DEF Types, HubTypes, WireTypes

\* subscribe, as the hub takes it from the wire.
LEMMA TakeSubscribeTyped ==
  ASSUME Types, NEW s \in Sockets, TakeSubscribe(s), UNCHANGED clientVars
  PROVE  Types'
<1> DEFINE r == Head(up[s])
           j == IF link = s THEN Job("subscribing", r, {r.uri}) ELSE Refusal(r)
<1>1. up[s] # << >> /\ r.method = "subscribe"
  BY DEF TakeSubscribe, FrameFor
<1>2. Taken(s) \in [Sockets -> Seq(UpFrames)] /\ r \in UpFrames
  BY <1>1, TakenTyped DEF Types
<1>3. r \in Issued /\ {r.uri} \in SUBSET Uris
  BY <1>1, <1>2 DEF UpFrames, Issued, Requests
<1>4. j \in Jobs
  <2> HIDE DEF r
  <2> QED BY <1>1, <1>3, JobsBegun, Refused
<1>5. job' = [job EXCEPT ![s] = j] /\ up' = Taken(s)
        /\ UNCHANGED <<hubVars, linkVars, down, reader, detached>>
  BY DEF TakeSubscribe
<1> HIDE DEF r, j
<1>6. job' \in [Sockets -> Jobs]
  BY <1>4, <1>5 DEF Types, HubTypes
<1> QED BY <1>2, <1>5, <1>6, Uncommitted DEF Types, HubTypes, WireTypes, linkVars

\* unsubscribe, as the hub takes it from the wire.
LEMMA TakeUnsubscribeTyped ==
  ASSUME Types, NEW s \in Sockets, TakeUnsubscribe(s), UNCHANGED clientVars
  PROVE  Types'
<1>1. up[s] # << >>
  BY DEF TakeUnsubscribe, FrameFor
<1>2. Taken(s) \in [Sockets -> Seq(UpFrames)]
  BY <1>1, TakenTyped DEF Types
<1>3. up' = Taken(s) /\ subs' \subseteq subs
        /\ UNCHANGED <<hubVars, link, watermark, job, down, reader, detached>>
  BY DEF TakeUnsubscribe
<1> QED BY <1>2, <1>3, Uncommitted DEF Types, HubTypes, WireTypes

\* dispatch, as the hub takes it from the wire.
LEMMA TakeDispatchTyped ==
  ASSUME Types, NEW s \in Sockets, TakeDispatch(s), UNCHANGED clientVars
  PROVE  Types'
<1> DEFINE r == Head(up[s])
<1>1. up[s] # << >> /\ r.method = "dispatch"
  BY DEF TakeDispatch, FrameFor
<1>2. Taken(s) \in [Sockets -> Seq(UpFrames)] /\ r \in UpFrames
  BY <1>1, TakenTyped DEF Types
<1>3. r \in Issued /\ r.n \in Nat
  <2>1. r \in Issued
    BY <1>1, <1>2 DEF UpFrames
  <2> QED BY <2>1, ClientAssumption DEF Issued, Requests
<1> HIDE DEF r
<1>4. Job("committing", r, {}) \in Jobs /\ Refusal(r) \in Jobs
  BY <1>1, <1>3, JobsBegun, Refused
<1>5. Answering(r, [type |-> "duplicate"]) \in Jobs
  <2>1. [type |-> "duplicate"] \in Results /\ Fits(r, [type |-> "duplicate"])
    BY <1>1 DEF Results, Fits
  <2> QED BY <1>3, <2>1, JobsMade
<1>6. /\ watermark' \in {watermark, r.n}
      /\ \E j \in {Job("committing", r, {}), Refusal(r), Answering(r, [type |-> "duplicate"])} :
           job' = [job EXCEPT ![s] = j]
      /\ up' = Taken(s) /\ UNCHANGED <<hubVars, link, subs, down, reader, detached>>
  BY DEF TakeDispatch, r
<1>7. job' \in [Sockets -> Jobs]
  BY <1>4, <1>5, <1>6 DEF Types, HubTypes
<1> QED BY <1>2, <1>3, <1>6, <1>7, Uncommitted DEF Types, HubTypes, WireTypes

\* A state is a sequence of tags.
LEMMA TagsTyped ==
  ASSUME NEW es \in Seq(Envelopes)
  PROVE  [i \in DOMAIN es |-> Tag(es[i])] \in Seq(Int)
<1>1. \A e \in Envelopes : Tag(e) \in Int
  BY ClientAssumption DEF Tag, Envelopes
<1> HIDE DEF Envelopes
<1>2. DOMAIN es = 1..Len(es) /\ Len(es) \in Nat /\ \A i \in DOMAIN es : es[i] \in Envelopes
  OBVIOUS
<1>3. \A i \in DOMAIN es : Tag(es[i]) \in Int
  BY <1>1, <1>2
<1> QED BY <1>2, <1>3

\* The state of a channel at some sequence is one.
LEMMA StateAtTyped ==
  ASSUME NEW l \in Seq(Envelopes), NEW u, NEW q
  PROVE  StateAt(l, u, q) \in Seq(Int)
<1> DEFINE I == {i \in DOMAIN l : l[i].uri = u /\ l[i].seq <= q}
           es == Selected(l, I)
           J == {i \in DOMAIN es : es[i].accepted}
           bs == Selected(es, J)
<1>1. es \in Seq(Envelopes)
  <2>1. I \in SUBSET (DOMAIN l)
    OBVIOUS
  <2> HIDE DEF I
  <2> QED BY <2>1, SelectedTyped
<1> HIDE DEF es
<1>2. bs \in Seq(Envelopes)
  <2>1. J \in SUBSET (DOMAIN es)
    OBVIOUS
  <2> HIDE DEF J
  <2> QED BY <1>1, <2>1, SelectedTyped
<1>3. StateAt(l, u, q) = Reduced(es)
  BY DEF StateAt, es
<1>4. Reduced(es) = [i \in DOMAIN bs |-> Tag(bs[i])]
  BY DEF Reduced
<1> HIDE DEF bs
<1> QED BY <1>2, <1>3, <1>4, TagsTyped

\* The snapshot the hub takes of a channel.
LEMMA SnapshotTyped ==
  ASSUME HubTypes, NEW u \in Uris
  PROVE  SnapshotOf(u) \in Snapshots
<1>1. log \in Seq(Envelopes) /\ Len(log) \in Nat
  BY DEF HubTypes
<1>2. StateAt(log, u, Len(log)) \in Seq(Int)
  BY <1>1, StateAtTyped
<1> QED BY <1>1, <1>2 DEF SnapshotOf, Snapshots

\* A job that goes on to its next channel.
LEMMA JobMoved ==
  ASSUME NEW j \in Jobs, j.stage \in {"subscribing", "resuming"},
         NEW todo \in SUBSET Uris, NEW missing \in SUBSET Uris,
         NEW ss \in SUBSET Snapshots, IsFiniteSet(ss)
  PROVE  /\ j.stage = "resuming" =>
              [j EXCEPT !.todo = todo, !.missing = missing] \in Jobs
         /\ j.stage = "subscribing" =>
              /\ [j EXCEPT !.todo = todo, !.snapshots = ss] \in Jobs
              /\ j.request.method = "hello" =>
                   [j EXCEPT !.todo = todo, !.snapshots = ss, !.stage = "greeting"] \in Jobs
<1> DEFINE S == [stage : {"subscribing", "greeting", "resuming", "committing"},
                 request : Issued, todo : SUBSET Uris, missing : SUBSET Uris,
                 snapshots : SUBSET Snapshots]
           x == [j EXCEPT !.todo = todo, !.missing = missing]
           y == [j EXCEPT !.todo = todo, !.snapshots = ss]
           z == [j EXCEPT !.todo = todo, !.snapshots = ss, !.stage = "greeting"]
<1>1. j \in S /\ IsFiniteSet(j.snapshots)
        /\ (j.stage = "resuming" => j.request.method = "reconnect")
        /\ (j.stage = "subscribing" => j.request.method \in {"hello", "subscribe"})
  BY DEF Jobs, Idle
<1>2. x \in S /\ x.stage = j.stage /\ x.request = j.request /\ x.snapshots = j.snapshots
  BY <1>1
<1>3. y \in S /\ y.stage = j.stage /\ y.request = j.request /\ y.snapshots = ss
  BY <1>1
<1>4. z \in S /\ z.stage = "greeting" /\ z.request = j.request /\ z.snapshots = ss
  BY <1>1
<1> HIDE DEF x, y, z
<1>5. \A i \in S : IsFiniteSet(i.snapshots)
        /\ (i.stage = "subscribing" => i.request.method \in {"hello", "subscribe"})
        /\ (i.stage = "greeting" => i.request.method = "hello")
        /\ (i.stage = "resuming" => i.request.method = "reconnect")
        /\ (i.stage = "committing" => i.request.method = "dispatch") => i \in Jobs
  BY DEF Jobs
<1> HIDE DEF S
<1>6. j.stage = "resuming" => x \in Jobs
  BY <1>1, <1>2, <1>5
<1>7. j.stage = "subscribing" => y \in Jobs
  BY <1>1, <1>3, <1>5
<1>8. j.request.method = "hello" => z \in Jobs
  BY <1>1, <1>4, <1>5
<1> QED BY <1>6, <1>7, <1>8 DEF x, y, z

\* The hub subscribes a link to one channel of a request.
LEMMA SubscribeOneTyped ==
  ASSUME Types, NEW s \in Sockets, NEW u \in Uris, SubscribeOne(s, u), UNCHANGED clientVars
  PROVE  Types'
<1> DEFINE r == job[s].request
           todo == job[s].todo \ {u}
           got == IF u \in Stateless THEN job[s].snapshots
                  ELSE job[s].snapshots \cup {SnapshotOf(u)}
           j1 == Answering(r, [type |-> "subscribed", snapshots |-> got])
           j2 == [job[s] EXCEPT !.todo = todo, !.snapshots = got,
                                !.stage = IF todo = {} THEN "greeting" ELSE "subscribing"]
<1>1. job[s] \in Jobs /\ job[s].stage = "subscribing"
  BY DEF SubscribeOne, Types, HubTypes
<1>2. job[s] # Idle
  BY <1>1 DEF Idle
<1>3. /\ r \in Issued /\ r \in Requests /\ r.method \in {"hello", "subscribe"}
      /\ job[s].todo \in SUBSET Uris /\ job[s].missing \in SUBSET Uris
      /\ job[s].snapshots \in SUBSET Snapshots /\ IsFiniteSet(job[s].snapshots)
      /\ job[s] = [stage |-> job[s].stage, request |-> job[s].request, todo |-> job[s].todo,
                   missing |-> job[s].missing, snapshots |-> job[s].snapshots]
  BY <1>1, <1>2, JobParts
<1>4. got \in SUBSET Snapshots /\ IsFiniteSet(got)
  <2>1. SnapshotOf(u) \in Snapshots
    BY SnapshotTyped DEF Types
  <2>2. IsFiniteSet(job[s].snapshots \cup {SnapshotOf(u)})
    BY <1>3, FS_AddElement
  <2> QED BY <1>3, <2>1, <2>2
<1>5. Refusal(r) \in Jobs
  BY <1>3, Refused
<1>6. CASE u \in gone
  <2>1. job' = [job EXCEPT ![s] = Refusal(r)] /\ UNCHANGED <<hubVars, up, down, reader, detached>>
          /\ link' \in {0, link} /\ subs' \subseteq subs /\ watermark' \in {0, watermark}
    BY <1>6 DEF SubscribeOne, Unlinked, linkVars
  <2>2. job' \in [Sockets -> Jobs]
    BY <1>5, <2>1 DEF Types, HubTypes
  <2>3. link' \in 0..MaxSockets
    BY <2>1, ServerAssumption DEF Types, HubTypes
  <2> QED BY <2>1, <2>2, <2>3, Uncommitted DEF Types, HubTypes, WireTypes
<1>7. CASE u \notin gone
  <2>1. job' = [job EXCEPT ![s] = IF r.method = "subscribe" THEN j1 ELSE j2]
    BY <1>7 DEF SubscribeOne
  <2>5. UNCHANGED <<hubVars, up, down, reader, detached>>
          /\ subs' = subs \cup {u} /\ UNCHANGED <<link, watermark>>
    BY <1>7 DEF SubscribeOne
  <2> HIDE DEF got
  <2>2. r.method = "subscribe" => j1 \in Jobs
    <3>1. [type |-> "subscribed", snapshots |-> got] \in Results
      BY <1>4 DEF Results
    <3>2. r.method = "subscribe" => Fits(r, [type |-> "subscribed", snapshots |-> got])
      BY <1>4 DEF Fits
    <3> HIDE DEF r
    <3> QED BY <1>3, <3>1, <3>2, JobsMade
  <2>3. r.method # "subscribe" => j2 \in Jobs
    <3>2. todo \in SUBSET Uris
      BY <1>3
    <3>1. CASE todo = {}
      <4>1. j2 = [job[s] EXCEPT !.todo = todo, !.snapshots = got, !.stage = "greeting"]
        BY <3>1
      <4> HIDE DEF j2, todo
      <4> QED BY <1>1, <1>3, <1>4, <3>2, <4>1, JobMoved
    <3>3. CASE todo # {}
      <4>1. j2 = [job[s] EXCEPT !.todo = todo, !.snapshots = got]
        BY <1>1, <3>3
      <4> HIDE DEF j2, todo
      <4> QED BY <1>1, <1>3, <1>4, <3>2, <4>1, JobMoved
    <3> QED BY <3>1, <3>3
  <2> HIDE DEF j1, j2, r
  <2>4. job' \in [Sockets -> Jobs]
    BY <2>1, <2>2, <2>3 DEF Types, HubTypes
  <2> QED BY <2>4, <2>5, Uncommitted DEF Types, HubTypes, WireTypes
<1> QED BY <1>6, <1>7

\* The hub has a hello answered.
LEMMA GreetTyped ==
  ASSUME Types, NEW s \in Sockets, Greet(s), UNCHANGED clientVars
  PROVE  Types'
<1> DEFINE r == job[s].request
           result == [type |-> "hello", serverSeq |-> Len(log), snapshots |-> job[s].snapshots]
<1>1. job[s] \in Jobs /\ job[s].stage = "greeting"
  BY DEF Greet, Types, HubTypes
<1>2. job[s] # Idle
  BY <1>1 DEF Idle
<1>3. /\ r \in Issued /\ r.method = "hello"
      /\ job[s].snapshots \in SUBSET Snapshots /\ IsFiniteSet(job[s].snapshots)
  BY <1>1, <1>2, JobParts
<1>4. job' = [job EXCEPT ![s] = Answering(r, result)]
        /\ UNCHANGED <<hubVars, linkVars, up, down, reader, detached>>
  BY DEF Greet
<1>5. result \in Results /\ Fits(r, result)
  <2>1. Len(log) \in Nat
    BY DEF Types, HubTypes
  <2> QED BY <1>3, <2>1 DEF Results, Fits
<1> HIDE DEF r, result
<1>6. job' \in [Sockets -> Jobs]
  BY <1>3, <1>4, <1>5, JobsMade DEF Types, HubTypes
<1> QED BY <1>4, <1>6, Uncommitted DEF Types, HubTypes, WireTypes, linkVars

\* The hub looks at one channel of a reconnect.
LEMMA ResumeOneTyped ==
  ASSUME Types, NEW s \in Sockets, NEW u \in Uris, ResumeOne(s, u), UNCHANGED clientVars
  PROVE  Types'
<1> DEFINE todo == job[s].todo \ {u}
           missing == IF u \in gone THEN job[s].missing \cup {u} ELSE job[s].missing
           j == [job[s] EXCEPT !.todo = todo, !.missing = missing]
<1>1. job[s] \in Jobs /\ job[s].stage = "resuming"
  BY DEF ResumeOne, Types, HubTypes
<1>2. job[s] # Idle
  BY <1>1 DEF Idle
<1>3. job[s].todo \in SUBSET Uris /\ job[s].missing \in SUBSET Uris
  BY <1>1, <1>2, JobParts
<1>4. job' = [job EXCEPT ![s] = j]
  <2>1. job' = [job EXCEPT ![s].todo = @ \ {u},
                           ![s].missing = IF u \in gone THEN @ \cup {u} ELSE @]
    BY DEF ResumeOne
  <2>2. job \in [Sockets -> Jobs]
    BY DEF Types, HubTypes
  <2>3. [job EXCEPT ![s].todo = @ \ {u},
                    ![s].missing = IF u \in gone THEN @ \cup {u} ELSE @]
          = [job EXCEPT ![s] = j]
    BY <2>2
  <2> QED BY <2>1, <2>3
<1>5. subs' \subseteq subs \cup {u}
        /\ UNCHANGED <<hubVars, link, watermark, up, down, reader, detached>>
  BY DEF ResumeOne
<1>6. j \in Jobs
  <2>1. todo \in SUBSET Uris /\ missing \in SUBSET Uris
    BY <1>3
  <2>2. {} \in SUBSET Snapshots /\ IsFiniteSet({})
    BY FS_EmptySet
  <2> HIDE DEF todo, missing
  <2> QED BY <1>1, <2>1, <2>2, JobMoved
<1> HIDE DEF j
<1>7. job' \in [Sockets -> Jobs]
  BY <1>4, <1>6 DEF Types, HubTypes
<1> QED BY <1>5, <1>7, Uncommitted DEF Types, HubTypes, WireTypes

\* The hub resumes a link, by replay or by snapshots.
LEMMA ResumeTyped ==
  ASSUME Types, NEW s \in Sockets, Resume(s), UNCHANGED clientVars
  PROVE  Types'
<1> DEFINE r == job[s].request
           missing == job[s].missing
           result == AnswerToResume(r, missing)
<1>1. job[s] \in Jobs /\ job[s].stage = "resuming"
  BY DEF Resume, Types, HubTypes
<1>2. job[s] # Idle
  BY <1>1 DEF Idle
<1>3. /\ r \in Issued /\ r \in Requests /\ r.method = "reconnect"
      /\ missing \in SUBSET Uris
  BY <1>1, <1>2, JobParts
<1>4. job' = [job EXCEPT ![s] = Answering(r, result)]
        /\ UNCHANGED <<hubVars, linkVars, up, down, reader, detached>>
  BY DEF Resume
<1> HIDE DEF r, missing
<1>5. result \in Results /\ Fits(r, result)
  <2>1. CASE result = Replay(r.seen, missing)
    <3> DEFINE I == {i \in DOMAIN ring : ring[i].seq > r.seen /\ ring[i].uri \in subs}
    <3>1. ring \in Seq(Told) /\ I \in SUBSET (DOMAIN ring)
      BY DEF Types, HubTypes
    <3>2. result = [type |-> "replay", missing |-> missing, actions |-> Selected(ring, I)]
      BY <2>1 DEF Replay
    <3> HIDE DEF I, result
    <3>3. Selected(ring, I) \in Seq(Told)
      BY <3>1, SelectedTyped
    <3> QED BY <1>3, <3>2, <3>3 DEF Results, Fits
  <2>2. CASE result # Replay(r.seen, missing)
    <3> DEFINE C == (r.uris \ missing) \ Stateless
               ss == {SnapshotOf(u) : u \in C}
    <3>1. result = [type |-> "snapshot", missing |-> missing, snapshots |-> ss]
      BY <2>2 DEF AnswerToResume
    <3>2. C \in SUBSET Uris
      BY <1>3 DEF Requests
    <3>3. IsFiniteSet(C)
      BY <3>2, ClientAssumption, FS_Subset
    <3>4. ss \in SUBSET Snapshots
      <4>1. \A u \in C : SnapshotOf(u) \in Snapshots
        BY <3>2, SnapshotTyped DEF Types
      <4> QED BY <4>1
    <3>5. IsFiniteSet(ss)
      <4> DEFINE f == [u \in C |-> SnapshotOf(u)]
      <4>1. f \in Surjection(C, ss)
        BY DEF Surjection
      <4> HIDE DEF f, ss
      <4> QED BY <3>3, <4>1, FS_Surjection
    <3> HIDE DEF ss, result
    <3> QED BY <1>3, <3>1, <3>4, <3>5 DEF Results, Fits
  <2> QED BY <2>1, <2>2
<1> HIDE DEF result
<1>6. job' \in [Sockets -> Jobs]
  BY <1>3, <1>4, <1>5, JobsMade DEF Types, HubTypes
<1> QED BY <1>4, <1>6, Uncommitted DEF Types, HubTypes, WireTypes, linkVars

\* The hub begins the commit of a dispatch.
LEMMA CommitTyped ==
  ASSUME Types, NEW s \in Sockets, Commit(s), UNCHANGED clientVars
  PROVE  Types'
<1> DEFINE r == job[s].request
<1>1. job[s] \in Jobs /\ job[s].stage = "committing"
  BY DEF Commit, Types, HubTypes
<1>2. job[s] # Idle
  BY <1>1 DEF Idle
<1>3. r \in Issued /\ r.method = "dispatch"
  BY <1>1, <1>2, JobParts
<1>4. PICK verdict \in Verdicts :
        job' = [job EXCEPT ![s] =
                  IF verdict = "throw" THEN Refusal(r)
                  ELSE [stage |-> "writing", request |-> r, accepted |-> verdict = "accept"]]
  BY DEF Commit
<1>5. UNCHANGED <<hubVars, linkVars, up, down, reader, detached>>
  BY DEF Commit
<1> HIDE DEF r
<1> DEFINE b == (verdict = "accept")
<1>6. b \in BOOLEAN
  OBVIOUS
<1> HIDE DEF b
<1>7. Refusal(r) \in Jobs /\ [stage |-> "writing", request |-> r, accepted |-> b] \in Jobs
  BY <1>3, <1>6, Refused, JobsMade
<1>8. job' \in [Sockets -> Jobs]
  BY <1>4, <1>7 DEF Types, HubTypes, b
<1> QED BY <1>5, <1>8, Uncommitted DEF Types, HubTypes, WireTypes, linkVars

\* The hub learns that a socket has gone.
LEMMA DetachTyped ==
  ASSUME Types, NEW s \in Sockets, Detach(s), UNCHANGED clientVars
  PROVE  Types'
<1>1. /\ detached' = detached \cup {s} /\ up' = Drained(up, {s}) /\ job' = Ended(job, {s})
      /\ link' \in {0, link} /\ subs' \subseteq subs /\ watermark' \in {0, watermark}
      /\ UNCHANGED <<hubVars, down, reader>>
  BY DEF Detach, Unlinked, linkVars
<1>2. up' \in [Sockets -> Seq(UpFrames)]
  BY <1>1, DrainedTyped DEF Types, WireTypes
<1>3. job' \in [Sockets -> Jobs]
  BY <1>1, EndedTyped DEF Types, HubTypes
<1>4. link' \in 0..MaxSockets /\ subs' \subseteq Uris /\ watermark' \in Nat
  BY <1>1, ServerAssumption DEF Types, HubTypes
<1>5. detached' \subseteq Sockets /\ down' \in [Sockets -> Seq(DownFrames)]
  BY <1>1 DEF Types, WireTypes
<1> QED BY <1>1, <1>2, <1>3, <1>4, <1>5, Uncommitted

\* An answer leaves.
LEMMA AnswerTyped ==
  ASSUME Types, NEW s \in Sockets, Answer(s), UNCHANGED clientVars
  PROVE  Types'
<1> DEFINE r == job[s].request
           f == [kind |-> "answer", id |-> r.id, result |-> job[s].result]
<1>1. job[s] \in Jobs /\ job[s].stage = "answering"
  BY DEF Answer, Types, HubTypes
<1>2. job[s] # Idle
  BY <1>1 DEF Idle
<1>3. r \in Issued /\ r \in Requests /\ job[s].result \in Results /\ Fits(r, job[s].result)
  BY <1>1, <1>2, JobParts
<1>4. f \in DownFrames
  <2>1. r.id < nextId /\ r.id \in Nat /\ \A q \in waiting : q.id = r.id => q = r
    BY <1>3 DEF Issued, Requests
  <2> QED BY <1>3, <2>1 DEF DownFrames, Answers
<1>5. down' = SentDown(down, s, f) /\ job' = [job EXCEPT ![s] = Idle]
        /\ UNCHANGED <<hubVars, linkVars, up, reader, detached>>
  BY DEF Answer
<1> HIDE DEF f
<1>6. down' \in [Sockets -> Seq(DownFrames)]
  BY <1>4, <1>5, SentTyped DEF Types, WireTypes
<1>7. job' \in [Sockets -> Jobs]
  BY <1>5 DEF Types, HubTypes, Jobs
<1> QED BY <1>5, <1>6, <1>7, Uncommitted DEF Types, HubTypes, WireTypes, linkVars

\* The host destroys a channel.
LEMMA DestroyTyped ==
  ASSUME Types, NEW u \in Uris, Destroy(u), UNCHANGED clientVars
  PROVE  Types'
<1>1. gone' \subseteq Mortal /\ subs' \subseteq Uris
        /\ UNCHANGED <<log, ring, link, watermark, job, up, down, reader, detached>>
  BY DEF Destroy, Types, HubTypes
<1>2. Told' = Told /\ Jobs' = Jobs /\ UpFrames' = UpFrames /\ DownFrames' = DownFrames
  BY <1>1, NothingCommitted
<1>3. ClientTypes'
  BY <1>2, ClientFrame
<1>4. WireTypes'
  BY <1>1, <1>2 DEF Types, WireTypes, Sockets
<1>5. HubTypes'
  BY <1>1, <1>2 DEF Types, HubTypes, Sockets, Envelopes
<1> QED BY <1>3, <1>4, <1>5 DEF Types

\* A step of the hub that commits an envelope.
LEMMA Committing ==
  ASSUME Types, UNCHANGED clientVars, NEW e \in Envelopes, log' = Append(log, e),
         e.seq = Len(log) + 1
  PROVE  /\ Told \subseteq Told' /\ e \in Told' /\ ClientTypes' /\ Grows
         /\ log' \in Seq(Envelopes) /\ \A i \in DOMAIN log' : log'[i].seq = i
<1>1. log \in Seq(Envelopes) /\ \A i \in DOMAIN log : log[i].seq = i
  BY DEF Types, HubTypes
<1>2. /\ log' \in Seq(Envelopes) /\ DOMAIN log' = 1..(Len(log) + 1) /\ DOMAIN log = 1..Len(log)
      /\ Len(log) \in Nat /\ log'[Len(log) + 1] = e
      /\ \A i \in DOMAIN log : log'[i] = log[i] /\ i \in DOMAIN log'
  BY <1>1
<1>3. Told \subseteq Told' /\ e \in Told'
  BY <1>2 DEF Told
<1>4. \A i \in DOMAIN log' : log'[i].seq = i
  BY <1>1, <1>2
<1> QED BY <1>2, <1>3, <1>4, ClientFrame

\* An envelope goes to the link that is subscribed to its channel.
LEMMA BroadcastTyped ==
  ASSUME Types, UNCHANGED clientVars, NEW e \in Envelopes, e.seq = Len(log) + 1, Broadcast(e),
         UNCHANGED <<linkVars, up, reader, detached>>, job' \in [Sockets -> Jobs']
  PROVE  Types'
<1>1. log' = Append(log, e) /\ ring' = Replayed!Push(ring, e) /\ gone' = gone
        /\ down' \in {down, SentDown(down, link, e)}
  BY DEF Broadcast
<1>2. /\ Told \subseteq Told' /\ e \in Told' /\ ClientTypes' /\ Grows
      /\ log' \in Seq(Envelopes) /\ \A i \in DOMAIN log' : log'[i].seq = i
  BY <1>1, Committing
<1>3. ring' \in Seq(Told') /\ Len(ring') <= ReplayLimit
  <2>1. ring \in Seq(Told') /\ Len(ring) <= ReplayLimit
    BY <1>2, SeqMonotone DEF Types, HubTypes
  <2>2. Append(ring, e) \in Seq(Told') /\ Len(Append(ring, e)) = Len(ring) + 1 /\ Len(ring) \in Nat
    BY <1>2, <2>1
  <2>3. CASE Len(ring) = ReplayLimit
    <3>1. ring # << >>
      BY <2>3, ServerAssumption
    <3>2. Tail(ring) \in Seq(Told') /\ Len(Tail(ring)) = Len(ring) - 1
      BY <2>1, <3>1
    <3>3. Append(Tail(ring), e) \in Seq(Told') /\ Len(Append(Tail(ring), e)) = Len(ring)
      BY <1>2, <2>2, <3>2
    <3> QED BY <1>1, <2>1, <2>3, <3>3 DEF Replayed!Push
  <2>4. CASE Len(ring) # ReplayLimit
    BY <1>1, <2>1, <2>2, <2>4, ServerAssumption DEF Replayed!Push
  <2> QED BY <2>3, <2>4
<1>4. HubTypes'
  BY <1>1, <1>2, <1>3 DEF Types, HubTypes, linkVars, Envelopes, Sockets
<1>5. UpFrames \subseteq UpFrames' /\ DownFrames \subseteq DownFrames'
  BY <1>2, FramesGrow
<1>6. up' \in [Sockets -> Seq(UpFrames')]
  BY <1>5, QueuesGrow DEF Types, WireTypes
<1>7. down' \in [Sockets -> Seq(DownFrames')]
  <2>1. down \in [Sockets -> Seq(DownFrames')]
    BY <1>5, QueuesGrow DEF Types, WireTypes
  <2>2. e \in DownFrames'
    BY <1>2 DEF DownFrames
  <2>3. SentDown(down, link, e) \in [Sockets -> Seq(DownFrames')]
    BY <2>1, <2>2, SentTyped
  <2> QED BY <1>1, <2>1, <2>3
<1>8. WireTypes'
  BY <1>6, <1>7 DEF Types, WireTypes, Sockets
<1> QED BY <1>2, <1>4, <1>8 DEF Types

\* The envelope of a commit.
LEMMA EnvelopeTyped ==
  ASSUME HubTypes, NEW u \in Uris, NEW n \in 0..MaxDispatch, NEW accepted \in BOOLEAN
  PROVE  Envelope(u, n, accepted) \in Envelopes /\ Envelope(u, n, accepted).seq = Len(log) + 1
           /\ Envelope(u, n, accepted).n = n /\ Envelope(u, n, accepted).uri = u
<1>1. Len(log) \in Nat
  BY DEF HubTypes
<1> QED BY <1>1 DEF Envelope, Envelopes

\* Somebody else commits.
LEMMA ForeignTyped ==
  ASSUME Types, NEW u \in Uris, Foreign(u), UNCHANGED clientVars
  PROVE  Types'
<1> DEFINE e == Envelope(u, 0, TRUE)
<1>1. e \in Envelopes /\ e.seq = Len(log) + 1
  <2>1. HubTypes /\ Len(log) \in Nat /\ 0 \in 0..MaxDispatch
    BY ClientAssumption DEF Types, HubTypes
  <2> QED BY <2>1 DEF Envelope, Envelopes
<1>2. Broadcast(e) /\ UNCHANGED <<linkVars, job, up, reader, detached>>
  BY DEF Foreign
<1> HIDE DEF e
<1>3. Grows
  BY <1>1, <1>2, Committing DEF Broadcast
<1>4. job' \in [Sockets -> Jobs']
  BY <1>2, <1>3, JobsGrow DEF Types, HubTypes
<1> QED BY <1>1, <1>2, <1>4, BroadcastTyped

\* A commit is written, kept for replays, and sent.
LEMMA PublishTyped ==
  ASSUME Types, NEW s \in Sockets, Publish(s), UNCHANGED clientVars
  PROVE  Types'
<1> DEFINE r == job[s].request
           e == Envelope(r.uri, r.n, job[s].accepted)
           result == [type |-> "envelope", envelope |-> e]
           j == IF s \in detached THEN Idle ELSE Answering(r, result)
<1>1. job[s] \in Jobs /\ job[s].stage = "writing"
  BY DEF Publish, Types, HubTypes
<1>2. job[s] # Idle
  BY <1>1 DEF Idle
<1>3. r \in Issued /\ r \in Requests /\ r.method = "dispatch" /\ job[s].accepted \in BOOLEAN
  BY <1>1, <1>2, JobParts
<1>4. r.uri \in Uris /\ r.n \in 0..MaxDispatch
  BY <1>3 DEF Requests, Stateful
<1>5. e \in Envelopes /\ e.seq = Len(log) + 1 /\ e.n = r.n /\ e.uri = r.uri
  BY <1>3, <1>4, EnvelopeTyped DEF Types
<1>6. Broadcast(e) /\ job' = [job EXCEPT ![s] = j] /\ UNCHANGED <<linkVars, up, reader, detached>>
  BY DEF Publish
<1> HIDE DEF e, r
<1>7. Grows /\ e \in Told'
  BY <1>5, <1>6, Committing DEF Broadcast
<1>8. job \in [Sockets -> Jobs'] /\ r \in Issued'
  BY <1>3, <1>7, JobsGrow, IssuedGrows DEF Types, HubTypes
<1>9. j \in Jobs'
  <2>1. result \in Results' /\ Fits(r, result)
    <3>1. result \in Results'
      BY <1>7 DEF Results
    <3> QED BY <1>3, <1>5, <3>1 DEF Fits
  <2>2. Answering(r, result) \in Jobs'
    <3>1. [stage |-> "answering", request |-> r, result |-> result]
            \in [stage : {"answering"}, request : Issued', result : Results']
      BY <1>8, <2>1
    <3>2. [stage |-> "answering", request |-> r, result |-> result] \in Jobs'
      BY <2>1, <3>1 DEF Jobs, Fits
    <3> QED BY <3>2 DEF Answering
  <2>3. Idle \in Jobs'
    BY DEF Jobs, Idle
  <2> QED BY <2>2, <2>3
<1> HIDE DEF j
<1>10. job' \in [Sockets -> Jobs']
  BY <1>6, <1>8, <1>9
<1> QED BY <1>5, <1>6, <1>10, BroadcastTyped

\* The hub restarts from its log.
LEMMA RestartTyped ==
  ASSUME Types, Restart(1..current), UNCHANGED clientVars
  PROVE  Types'
<1>1. /\ detached' = detached \cup 1..current /\ up' = Drained(up, 1..current)
      /\ job' = [s \in Sockets |-> Idle] /\ link' = 0 /\ subs' = {} /\ watermark' = 0
      /\ ring' = << >> /\ UNCHANGED <<gone, down, reader>>
  BY DEF Restart, Unlinked
<1>2. /\ Told \subseteq Told' /\ ClientTypes' /\ Grows
      /\ log' \in Seq(Envelopes) /\ \A i \in DOMAIN log' : log'[i].seq = i
  <2>1. CASE log' = log
    <3>1. Told' = Told
      BY <2>1, NothingCommitted
    <3> QED BY <2>1, <3>1, ClientFrame DEF Types, HubTypes
  <2>2. CASE log' # log
    <3>1. PICK s \in Writing :
            log' = Append(log, Envelope(job[s].request.uri, job[s].request.n, job[s].accepted))
      BY <2>2 DEF Restart
    <3> DEFINE r == job[s].request
               e == Envelope(r.uri, r.n, job[s].accepted)
    <3>2. job[s] \in Jobs /\ job[s].stage = "writing"
      BY DEF Writing, Types, HubTypes
    <3>3. job[s] # Idle
      BY <3>2 DEF Idle
    <3>4. r \in Requests /\ r.method = "dispatch" /\ job[s].accepted \in BOOLEAN
      BY <3>2, <3>3, JobParts
    <3>5. r.uri \in Uris /\ r.n \in 0..MaxDispatch
      BY <3>4 DEF Requests, Stateful
    <3>6. e \in Envelopes /\ e.seq = Len(log) + 1
      BY <3>4, <3>5, EnvelopeTyped DEF Types
    <3> HIDE DEF e
    <3> QED BY <3>1, <3>6, Committing DEF e
  <2> QED BY <2>1, <2>2
<1>3. HubTypes'
  <2>1. job' \in [Sockets -> Jobs']
    BY <1>1 DEF Jobs, Idle
  <2>2. ring' \in Seq(Told') /\ Len(ring') <= ReplayLimit
    BY <1>1, ServerAssumption
  <2>3. link' \in 0..MaxSockets
    BY <1>1, ServerAssumption
  <2> QED BY <1>1, <1>2, <2>1, <2>2, <2>3 DEF Types, HubTypes, Envelopes, Sockets
<1>4. WireTypes'
  <2>1. UpFrames \subseteq UpFrames' /\ DownFrames \subseteq DownFrames'
    BY <1>2, FramesGrow
  <2>2. up \in [Sockets -> Seq(UpFrames')] /\ down' \in [Sockets -> Seq(DownFrames')]
    BY <1>1, <2>1, QueuesGrow DEF Types, WireTypes
  <2>3. up' \in [Sockets -> Seq(UpFrames')]
    BY <1>1, <2>2, DrainedTyped
  <2>4. 1..current \subseteq Sockets
    BY ServerAssumption DEF Types, ClientTypes, Sockets
  <2> QED BY <1>1, <2>2, <2>3, <2>4 DEF Types, WireTypes, Sockets
<1> QED BY <1>2, <1>3, <1>4 DEF Types

-----------------------------------------------------------------------------
(* The steps of the client: what they make of the view. *)

\* Everything a client's step is about, for those that change only a part of it.
LEMMA ClientStep ==
  ASSUME Types, Grows, UNCHANGED serverVars,
         up' \in [Sockets -> Seq(UpFrames')], down' \in [Sockets -> Seq(DownFrames)],
         reader' \in 0..MaxSockets, detached' = detached,
         current' \in Sockets, done' \in BOOLEAN, initialized' \in BOOLEAN,
         ready' \in BOOLEAN, writable' \in BOOLEAN, failed' \in BOOLEAN,
         early' \in Seq(Told), view' \in Views(Told, Numbers, {}, {}),
         subscribed' \subseteq Uris, waiting' \subseteq Issued', IsFiniteSet(waiting'),
         nextSeq' \in 1..(MaxDispatch + 1), saves' \in Seq(Checkpoints),
         stored' \in Checkpoints \cup {None}, flushing' \in Seq(Flushes)
  PROVE  Types'
<1>1. HubTypes'
  BY HubFrame
<1>2. Told' = Told
  BY DEF Told, serverVars, hubVars
<1>3. WireTypes'
  <2>1. DownFrames \subseteq DownFrames'
    BY FramesGrow
  <2>2. down' \in [Sockets -> Seq(DownFrames')]
    BY <2>1, QueuesGrow
  <2> QED BY <2>2 DEF Types, WireTypes, Sockets
<1>4. (view \in Views(Told, Numbers, {}, {}))'
  BY <1>2 DEF Views, ViewsOf, Sorted, Shown, Truthful, Opens
<1>5. ClientTypes'
  <2>1. early' \in Seq(Told')
    BY <1>2
  <2> QED BY <1>4, <2>1 DEF ClientTypes, Grows, Sockets, Checkpoints, Flushes
<1> QED BY <1>1, <1>3, <1>5 DEF Types

\* Requests that end, and a request that is sent.
LEMMA FewerRequests ==
  ASSUME Types, UNCHANGED log, nextId' = nextId, waiting' \subseteq waiting
  PROVE  /\ Grows /\ waiting' \subseteq Issued' /\ IsFiniteSet(waiting')
         /\ Told' = Told /\ UpFrames \subseteq UpFrames'
<1>1. Told' = Told
  BY DEF Told
<1>2. Grows
  BY <1>1 DEF Grows, Types, ClientTypes
<1>3. IsFiniteSet(waiting')
  BY FS_Subset DEF Types, ClientTypes
<1>4. Issued \subseteq Issued' /\ UpFrames \subseteq UpFrames'
  BY <1>2, FramesGrow
<1> QED BY <1>1, <1>2, <1>3, <1>4 DEF Types, ClientTypes

\* A request that is sent has an identifier of its own.
LEMMA OneRequest ==
  ASSUME Types, UNCHANGED log, NEW r \in Requests, r.id = nextId, nextId' = nextId + 1,
         waiting' \subseteq waiting \cup {r}
  PROVE  /\ Grows /\ waiting' \subseteq Issued' /\ IsFiniteSet(waiting')
         /\ Told' = Told /\ UpFrames \subseteq UpFrames' /\ r \in UpFrames'
<1>1. Told' = Told
  BY DEF Told
<1>2. nextId \in Nat /\ waiting \subseteq Issued /\ IsFiniteSet(waiting)
  BY DEF Types, ClientTypes
<1>3. Grows
  BY <1>1, <1>2 DEF Grows
<1>4. IsFiniteSet(waiting')
  <2>1. IsFiniteSet(waiting \cup {r})
    BY <1>2, FS_AddElement
  <2> QED BY <2>1, FS_Subset
<1>5. Issued \subseteq Issued' /\ UpFrames \subseteq UpFrames'
  BY <1>3, FramesGrow
<1>6. r \in Issued'
  <2>1. \A q \in waiting : q.id < nextId /\ q.id \in Nat
    BY <1>2 DEF Issued, Requests
  <2>2. \A q \in waiting' : q.id = r.id => q = r
    BY <1>2, <2>1
  <2>3. r.id < nextId'
    BY <1>2
  <2>4. r \in Requests'
    BY DEF Requests, SomeUris, Stateful
  <2> QED BY <2>2, <2>3, <2>4 DEF Issued
<1>7. r \in UpFrames'
  BY <1>6 DEF UpFrames
<1> QED BY <1>1, <1>2, <1>3, <1>4, <1>5, <1>6, <1>7

\* What a handshake or a subscription asks for is a request.
LEMMA RequestTyped ==
  ASSUME nextId \in Nat, NEW uris \in SUBSET Uris, NEW created \in SUBSET uris
  PROVE  /\ \A method \in {"hello", "reconnect"} : Request(method, uris, created) \in Requests
         /\ \A seen \in Nat :
              [Request("reconnect", uris, created) EXCEPT !.seen = seen] \in Requests
         /\ \A u \in Uris : uris = {u} =>
              [Request("subscribe", uris, created) EXCEPT !.uri = u] \in Requests
         /\ \A method : Request(method, uris, created).id = nextId
<1> DEFINE c == CHOOSE u \in Uris : TRUE
<1>1. c \in SomeUris /\ Uris \subseteq SomeUris /\ 0 \in 0..MaxDispatch
  BY ClientAssumption DEF SomeUris
<1> HIDE DEF c
<1>2. \A method : Request(method, uris, created) =
        [id |-> nextId, method |-> method, uris |-> uris, uri |-> c,
         created |-> created, n |-> 0, seen |-> 0]
  BY DEF Request, c
<1>3. created \in SUBSET Uris
  OBVIOUS
<1> QED BY <1>1, <1>2, <1>3 DEF Requests

\* What a dispatch asks for is a request.
LEMMA DispatchTyped ==
  ASSUME NEW id \in Nat, NEW u \in Stateful, NEW n \in Numbers
  PROVE  DispatchRequest(id, u, n) \in Requests
<1>1. u \in SomeUris /\ {u} \in SUBSET Uris /\ n \in 0..MaxDispatch
  BY DEF SomeUris, Stateful, Numbers
<1> QED BY <1>1 DEF DispatchRequest, Requests

\* Checkpoints.
LEMMA CheckpointTyped ==
  ASSUME NEW E, NEW O, NEW K, NEW X, NEW v \in Views(E, O, K, X), NEW us \in SUBSET Uris,
         NEW seq \in 1..(MaxDispatch + 1)
  PROVE  Checkpoint(v, us, seq) \in Checkpoints
<1> DEFINE C == us \cap Known(v)
           R == [confirmed : Seq(Int), applied : Nat, pending : Seq(Numbers)]
           cs == [u \in C |-> [confirmed |-> v.mirrors[u].confirmed,
                               applied |-> v.mirrors[u].applied,
                               pending |-> v.mirrors[u].pending]]
<1>1. Parts(v, E, O, K, X)
  BY ViewParts
<1>2. \A u \in C : cs[u] \in R
  BY <1>1 DEF Parts, Mirrors
<1>3. cs \in [C -> R] /\ C \in SUBSET Uris /\ v.seen \in Nat
  BY <1>1, <1>2 DEF Parts
<1>4. Checkpoint(v, us, seq) = [nextSeq |-> seq, seen |-> v.seen, channels |-> cs]
  BY DEF Checkpoint
<1> HIDE DEF cs, C
<1>5. cs \in UNION {[D -> R] : D \in SUBSET Uris}
  BY <1>3
<1> QED BY <1>3, <1>4, <1>5 DEF Checkpoints

\* What a turn queues to be saved is a checkpoint.
LEMMA PersistTyped ==
  ASSUME Types, NEW must, Persist(must), view' \in Views(Told, Numbers, {}, {}),
         subscribed' \subseteq Uris, nextSeq' \in 1..(MaxDispatch + 1)
  PROVE  saves' \in Seq(Checkpoints)
<1> DEFINE c == Checkpoint(view', subscribed', nextSeq')
<1>1. c \in Checkpoints
  BY CheckpointTyped
<1>2. saves' \in {saves, Append(saves, c)}
  BY DEF Persist
<1> HIDE DEF c
<1>3. saves \in Seq(Checkpoints)
  BY DEF Types, ClientTypes
<1> QED BY <1>1, <1>2, <1>3, AppendTyped

-----------------------------------------------------------------------------

\* The answer to hello.
LEMMA WelcomeView ==
  ASSUME Types, NEW O, NEW K, view \in Views(Told, O, K, {}), NEW r \in Requests,
         NEW result \in Results, result.type = "hello", IsFiniteSet(result.snapshots),
         Welcome(r, result)
  PROVE  view' \in Views(Told, O, K, {})
<1> DEFINE n == result.serverSeq
           ss == result.snapshots
           us == r.uris
<1>1. n \in Nat /\ ss \in SUBSET Snapshots /\ IsFiniteSet(ss)
  BY DEF Results
<1>2. IsFiniteSet(us)
  BY ClientAssumption, FS_Subset DEF Requests
<1>3. Told \in SUBSET Envelopes /\ early \in Seq(Told)
  BY ToldAreEnvelopes DEF Types, ClientTypes
<1>4. view' = InboundAll(ApplyAll(See(view, n), ss, us), early)
  BY DEF Welcome, Finished
<1> HIDE DEF n, ss, us
<1>5. See(view, n) \in Views(Told, O, K, {})
  BY <1>1, SeeGood
<1>6. ApplyAll(See(view, n), ss, us) \in Views(Told, O, K, {})
  BY <1>1, <1>2, <1>3, <1>5, ApplyAllGood
<1> QED BY <1>3, <1>4, <1>6, InboundAllGood

\* The answer to reconnect that replays: nothing is open after it.
LEMMA ReplayView ==
  ASSUME Types, NEW O, NEW K, view \in Views(Told, O, K, {}),
         NEW result \in Results, result.type = "replay", ResumedByReplay(result)
  PROVE  view' \in Views(Told, {}, K \ result.missing, {})
<1> DEFINE us == result.missing
           fs == result.actions
           v == ForgetAll(view, us)
           w == [v EXCEPT !.mirrors = [u \in Known(v) |-> [@[u] EXCEPT !.primed = TRUE]]]
           L == K \ us
<1>1. us \in SUBSET Uris /\ fs \in Seq(Told)
  BY DEF Results
<1>2. IsFiniteSet(us)
  BY <1>1, ClientAssumption, FS_Subset
<1>3. Told \in SUBSET Envelopes /\ early \in Seq(Told)
  BY ToldAreEnvelopes DEF Types, ClientTypes
<1>4. view' = AfterReplay(InboundAll(InboundAll(w, fs), early))
  BY DEF ResumedByReplay, Finished
<1> HIDE DEF us, fs
<1>5. v \in Views(Told, O, L, {})
  BY <1>2, ForgetAllGood
<1> HIDE DEF v, L
<1>6. w \in Views(Told, O, L, {})
  BY <1>5, AllPrimedGood
<1> HIDE DEF w
<1>7. InboundAll(w, fs) \in Views(Told, O, L, {})
  BY <1>1, <1>3, <1>6, InboundAllGood
<1>8. InboundAll(InboundAll(w, fs), early) \in Views(Told, O, L, {})
  BY <1>3, <1>7, InboundAllGood
<1>9. view' \in Views(Told, {}, L, {})
  BY <1>3, <1>4, <1>8, AfterReplayGood
<1> QED BY <1>9 DEF L, us

\* The answer to reconnect that restates: nothing is open after it, and what is still
\* subscribed keeps its mirror.
LEMMA SnapshotView ==
  ASSUME Types, NEW O, NEW K, view \in Views(Told, O, K, {}),
         NEW result \in Results, result.type = "snapshot", IsFiniteSet(result.snapshots),
         ResumedBySnapshot(result)
  PROVE  view' \in Views(Told, {}, K \cap subscribed', {})
<1> DEFINE us == result.missing
           ss == result.snapshots
           v == ForgetAll(view, us)
           given == {t.uri : t \in ss} \cap Known(v)
           w == RestateAll(v, ss)
           dropped == (Known(v) \ given) \ Stateless
           others == (Known(v) \ given) \cap Stateless
           x == PrimeAll(w, others)
           y == InboundAll(ForgetAll(x, dropped), early)
           L == K \ us
           M == L \ dropped
<1>1. us \in SUBSET Uris /\ ss \in SUBSET Snapshots
  BY DEF Results
<1>2. IsFiniteSet(us) /\ IsFiniteSet(ss)
  BY <1>1, ClientAssumption, FS_Subset
<1>3. Told \in SUBSET Envelopes /\ early \in Seq(Told)
  BY ToldAreEnvelopes DEF Types, ClientTypes
<1>4. view' = SettleAll(y, DOMAIN y.outcome, "lost")
  BY DEF ResumedBySnapshot, Finished, RestateAll, RestatedBy, PrimeAll
<1>5. subscribed' = subscribed \ (us \cup dropped)
  BY DEF ResumedBySnapshot
<1> HIDE DEF us, ss
<1>6. v \in Views(Told, O, L, {})
  BY <1>2, ForgetAllGood
<1> HIDE DEF v
<1>7. IsFiniteSet(dropped) /\ IsFiniteSet(others)
  <2>1. Parts(v, Told, O, L, {})
    BY <1>6, ViewParts
  <2>2. dropped \subseteq Uris /\ others \subseteq Uris
    BY <2>1 DEF Parts
  <2> HIDE DEF dropped, others
  <2> QED BY <2>2, ClientAssumption, FS_Subset
<1> HIDE DEF L, dropped, others
<1>8. w \in Views(Told, O, L, {})
  BY <1>1, <1>2, <1>3, <1>6, RestateAllGood
<1> HIDE DEF w
<1>9. x \in Views(Told, O, L, {})
  BY <1>3, <1>7, <1>8, PrimeAllGood
<1> HIDE DEF x
<1>10. ForgetAll(x, dropped) \in Views(Told, O, M, {})
  BY <1>7, <1>9, ForgetAllGood
<1>11. y \in Views(Told, O, M, {})
  BY <1>3, <1>10, InboundAllGood
<1> HIDE DEF y
<1>12. view' \in Views(Told, {}, M, {})
  BY <1>4, <1>11, EndAllGood
<1>13. K \cap subscribed' \subseteq M
  BY <1>5 DEF L
<1> QED BY <1>12, <1>13, ViewsMonotone

\* The answer to subscribe.
LEMMA JoinedView ==
  ASSUME Types, NEW O, NEW K, view \in Views(Told, O, K, {}), NEW r \in Requests,
         NEW result \in Results, result.type = "subscribed", IsFiniteSet(result.snapshots),
         Joined(r, result)
  PROVE  view' \in Views(Told, O, K, {})
<1> DEFINE ss == result.snapshots
           us == IF ss = {} THEN {r.uri} ELSE {}
<1>1. ss \in SUBSET Snapshots /\ IsFiniteSet(ss)
  BY DEF Results
<1>2. IsFiniteSet(us)
  BY FS_Singleton, FS_EmptySet
<1>3. Told \in SUBSET Envelopes
  BY ToldAreEnvelopes DEF Types
<1>4. view' = ApplyAll(view, ss, us)
  BY DEF Joined
<1> HIDE DEF ss, us
<1> QED BY <1>1, <1>2, <1>3, <1>4, ApplyAllGood

\* The answer to a dispatch, which ends it.
LEMMA AnsweredView ==
  ASSUME Types, NEW O, NEW K, view \in Views(Told, O, K, {}), NEW r \in Requests,
         NEW result \in Results, result.type \in {"envelope", "duplicate"},
         Fits(r, result), Answered(r, result)
  PROVE  view' \in Views(Told, O \ {r.n}, K, {})
<1>1. r.n \in Numbers
  BY DEF Fits, Requests
<1>2. Told \in SUBSET Envelopes
  BY ToldAreEnvelopes DEF Types
<1>3. CASE result.type = "duplicate"
  <2>1. view' = Discard(view, r.uri, r.n, "duplicate")
    BY <1>3 DEF Answered
  <2>2. "duplicate" \in Outcome \ {"open"} /\ Witnessed(Told, r.n, "duplicate")
    BY DEF Outcome, Witnessed
  <2> QED BY <1>1, <2>1, <2>2, DiscardGood
<1>4. CASE result.type = "envelope"
  <2> DEFINE e == result.envelope
             v == Inbound(view, e)
  <2>1. e \in Told /\ e.n = r.n
    BY <1>4 DEF Results, Fits
  <2>2. view' = IF v.outcome[r.n] = "open" THEN Discard(v, r.uri, r.n, OutcomeOf(e)) ELSE v
    BY <1>4 DEF Answered
  <2> HIDE DEF e
  <2>3. v \in Views(Told, O, K, {})
    BY <1>2, <2>1, InboundGood
  <2> HIDE DEF v
  <2>4. CASE v.outcome[r.n] = "open"
    <3>1. OutcomeOf(e) \in Outcome \ {"open"} /\ e.accepted = (OutcomeOf(e) = "confirmed")
      BY <1>2, <2>1 DEF Outcome, OutcomeOf, Envelopes
    <3>2. Witnessed(Told, r.n, OutcomeOf(e))
      BY <2>1, <3>1 DEF Witnessed
    <3> QED BY <1>1, <2>2, <2>3, <2>4, <3>1, <3>2, DiscardGood
  <2>5. CASE v.outcome[r.n] # "open"
    <3>1. Opens(v) \subseteq O \ {r.n}
      BY <2>3, <2>5 DEF Views, Opens
    <3> QED BY <2>2, <2>3, <2>5, <3>1 DEF Views
  <2> QED BY <2>4, <2>5
<1> QED BY <1>3, <1>4

\* A dispatch opens its number, and no other.
LEMMA DispatchView ==
  ASSUME Types, NEW O, NEW K, view \in Views(Told, O, K, {}), NEW u, Dispatch(u)
  PROVE  view' \in Views(Told, O \cup {nextSeq}, K, {}) /\ nextSeq \in Numbers
<1> DEFINE n == nextSeq
           o == [view.outcome EXCEPT ![n] = "open"]
           v == [view EXCEPT !.outcome = o]
           p == v.mirrors[u].pending
           m == [v.mirrors[u] EXCEPT !.pending = Append(p, n)]
           w == [v EXCEPT !.mirrors[u] = m]
           P == O \cup {n}
<1>1. n \in Numbers
  BY ClientAssumption DEF Dispatch, Types, ClientTypes, Numbers
<1>2. v \in Views(Told, P, K, {})
  <2>1. Parts(view, Told, O, K, {})
    BY ViewParts
  <2>2. o \in [Numbers -> Outcome] /\ \A k \in Numbers : o[k] = "open" => k \in P
    BY <1>1, <2>1 DEF Parts, Opens, Outcome
  <2>3. \A k \in Numbers : o[k] # view.outcome[k] => Witnessed(Told, k, o[k])
    BY <1>1, <2>1 DEF Parts, Witnessed
  <2> HIDE DEF o
  <2> QED BY <2>2, <2>3, OutcomesChanged
<1>3. view' = IF u \in Known(v)
               THEN Restate([v EXCEPT !.mirrors[u].pending = Append(@, n)], u) ELSE v
  <2> DEFINE x == [view EXCEPT !.outcome[nextSeq] = "open"]
  <2>1. view' = IF u \in Known(x)
                THEN Restate([x EXCEPT !.mirrors[u].pending = Append(@, nextSeq)], u) ELSE x
    BY DEF Dispatch
  <2>2. x = v
    OBVIOUS
  <2> HIDE DEF v, x
  <2> QED BY <2>1, <2>2
<1> HIDE DEF v, P
<1>4. CASE u \in Known(v)
  <2>1. v.mirrors[u] \in Mirrors(Told) /\ v.mirrors[u].buffered \in Seq(For(Told, u))
    <3>1. Parts(v, Told, P, K, {})
      BY <1>2, ViewParts
    <3> QED BY <1>4, <3>1 DEF Parts
  <2>2. m \in Mirrors(Told) /\ m.buffered \in Seq(For(Told, u))
    <3>1. Append(p, n) \in Seq(Numbers)
      <4>1. p \in Seq(Numbers)
        BY <2>1 DEF Mirrors
      <4> QED BY <1>1, <4>1, AppendTyped
    <3> QED BY <2>1, <3>1 DEF Mirrors
  <2>3. view' = Restate(w, u)
    BY <1>3, <1>4
  <2> HIDE DEF m
  <2>4. {} \ {u} \subseteq {u} /\ u \in {u} /\ {u} \ {u} = {}
    OBVIOUS
  <2>5. w \in Views(Told, P, K, {u})
    BY <1>2, <1>4, <2>2, <2>4, MirrorChanged
  <2>6. Known(w) = Known(v)
    BY <1>2, <1>4, MirrorFrame
  <2> HIDE DEF w
  <2>7. Restate(w, u) \in Views(Told, P, K, {u} \ {u})
    BY <1>4, <2>5, <2>6, RestateGood
  <2> QED BY <1>1, <2>3, <2>4, <2>7 DEF P
<1>5. CASE u \notin Known(v)
  BY <1>1, <1>2, <1>3, <1>5 DEF P
<1> QED BY <1>4, <1>5

\* The view of a client that has shut down.
LEMMA TornDownView ==
  ASSUME Types, TearDown
  PROVE  view' \in Views(Told, {}, {}, {})
<1> DEFINE w == SettleAll(view, DOMAIN view.outcome, "lost")
<1>1. w \in Views(Told, {}, {}, {})
  BY EndAllGood DEF Types, ClientTypes
<1>2. view' = [w EXCEPT !.mirrors = << >>]
  BY DEF TearDown
<1> HIDE DEF w
<1>3. Parts(w, Told, {}, {}, {})
  BY <1>1, ViewParts
<1>4. view' = [mirrors |-> << >>, seen |-> w.seen, outcome |-> w.outcome]
  <2>1. w = [mirrors |-> w.mirrors, seen |-> w.seen, outcome |-> w.outcome]
    BY <1>3 DEF Parts
  <2> QED BY <1>2, <2>1
<1>5. << >> \in [{} -> Mirrors(Told)]
  OBVIOUS
<1>6. w.seen \in Nat /\ w.outcome \in [Numbers -> Outcome]
        /\ (\A n \in Numbers : Witnessed(Told, n, w.outcome[n]))
        /\ \A n \in Numbers : w.outcome[n] = "open" => n \in {}
  BY <1>3 DEF Parts, Opens
<1> QED BY <1>4, <1>5, <1>6, ViewMade

\* The view of a client that restores a checkpoint.
LEMMA RestoredView ==
  ASSUME Types, Restore
  PROVE  /\ view' \in Views(Told, Numbers, subscribed', {}) /\ subscribed' \subseteq Uris
         /\ nextSeq' \in 1..(MaxDispatch + 1)
<1> DEFINE us == DOMAIN stored.channels
           cs == stored.channels
           R == [confirmed : Seq(Int), applied : Nat, pending : Seq(Numbers)]
           open == UNION {Range(stored.channels[u].pending) : u \in us}
           mirror(c) == Restated([NewMirror(TRUE) EXCEPT
                          !.confirmed = c.confirmed, !.applied = c.applied,
                          !.pending = c.pending])
           ms == [u \in us |-> mirror(cs[u])]
           o == [n \in 1..MaxDispatch |->
                   IF n >= stored.nextSeq THEN "unused"
                   ELSE IF n \in open THEN "open"
                   ELSE IF view.outcome[n] = "open" THEN "lost" ELSE view.outcome[n]]
<1>1. view' = [mirrors |-> ms, seen |-> stored.seen, outcome |-> o]
        /\ subscribed' = us /\ nextSeq' = stored.nextSeq
  BY DEF Restore
<1>2. stored \in Checkpoints
  BY DEF Restore, Types, ClientTypes
<1>3. stored.nextSeq \in 1..(MaxDispatch + 1) /\ stored.seen \in Nat
        /\ cs \in UNION {[D -> R] : D \in SUBSET Uris}
  BY <1>2 DEF Checkpoints
<1>4. us \subseteq Uris /\ cs \in [us -> R]
  BY <1>3
<1>5. o \in [Numbers -> Outcome] /\ \A n \in Numbers : Witnessed(Told, n, o[n])
  <2>1. Parts(view, Told, Numbers, {}, {})
    BY ViewParts DEF Types, ClientTypes
  <2>2. ASSUME NEW n \in Numbers
        PROVE  o[n] \in Outcome /\ Witnessed(Told, n, o[n])
    <3>1. o[n] \in {"unused", "open", "lost"} \/ o[n] = view.outcome[n]
      BY DEF Numbers
    <3>2. view.outcome[n] \in Outcome /\ Witnessed(Told, n, view.outcome[n])
      BY <2>1 DEF Parts
    <3> HIDE DEF o
    <3> QED BY <3>1, <3>2 DEF Outcome, Witnessed
  <2> QED BY <2>2 DEF Numbers
<1>6. ASSUME NEW u \in us
      PROVE  /\ ms[u] \in Mirrors(Told) /\ ms[u].buffered \in Seq(For(Told, u))
             /\ ms[u].optimistic = ms[u].confirmed \o ms[u].pending
  <2> DEFINE c == cs[u]
             m == [NewMirror(TRUE) EXCEPT !.confirmed = c.confirmed, !.applied = c.applied,
                     !.pending = c.pending]
  <2>1. c \in R
    BY <1>4
  <2>2. << >> \in Seq(Int) /\ << >> \in Seq(Told) /\ << >> \in Seq(For(Told, u))
    OBVIOUS
  <2>3. m \in Mirrors(Told) /\ m.buffered = << >>
    BY <2>1, <2>2 DEF Mirrors, NewMirror
  <2>4. ms[u] = Restated(m)
    OBVIOUS
  <2> HIDE DEF ms, m
  <2> QED BY <2>2, <2>3, <2>4, RestatedTyped
<1>7. ms \in [us -> Mirrors(Told)]
  BY <1>6
<1> HIDE DEF ms, o, us
<1>8. \A n \in Numbers : o[n] = "open" => n \in Numbers
  OBVIOUS
<1>9. [mirrors |-> ms, seen |-> stored.seen, outcome |-> o] \in Views(Told, Numbers, us, {})
  BY <1>3, <1>4, <1>5, <1>6, <1>7, <1>8, ViewMade
<1> QED BY <1>1, <1>3, <1>4, <1>9

-----------------------------------------------------------------------------
(* The steps of the client. *)

\* The application calls hello.
LEMMA HelloTyped ==
  ASSUME Types, NEW us \in SUBSET Uris, Hello(us), UNCHANGED serverVars
  PROVE  Types'
<1> DEFINE r == Request("hello", us, us \ Known(view))
<1>1. r \in Requests /\ r.id = nextId
  BY RequestTyped DEF Types, ClientTypes
<1>2. /\ up' = SentUp(up, reader, r) /\ waiting' = waiting \cup {r} /\ nextId' = nextId + 1
      /\ ready' = FALSE /\ writable' = FALSE /\ early' = << >>
      /\ view' = WithMirrors(Unprime(view, us), us)
      /\ UNCHANGED <<down, reader, detached, linkState, subscribed, nextSeq, saveState>>
  BY DEF Hello, Ask, BeginHandshake
<1> HIDE DEF r
<1>3. log' = log
  BY DEF serverVars, hubVars
<1>4. /\ Grows /\ waiting' \subseteq Issued' /\ IsFiniteSet(waiting')
      /\ UpFrames \subseteq UpFrames' /\ r \in UpFrames'
  BY <1>1, <1>2, <1>3, OneRequest
<1>5. up' \in [Sockets -> Seq(UpFrames')]
  BY <1>2, <1>4, QueuesGrow, SentTyped DEF Types, WireTypes
<1>6. view' \in Views(Told, Numbers, {}, {})
  <2>1. Unprime(view, us) \in Views(Told, Numbers, {}, {})
    BY UnprimeGood DEF Types, ClientTypes
  <2>2. WithMirrors(Unprime(view, us), us) \in Views(Told, Numbers, {} \cup us, {})
    BY <2>1, MirrorsAdded
  <2> QED BY <1>2, <2>2, ViewsMonotone
<1>7. << >> \in Seq(Told)
  OBVIOUS
<1> QED BY <1>2, <1>4, <1>5, <1>6, <1>7, ClientStep
        DEF Types, ClientTypes, WireTypes, linkState, saveState

\* The frames on a socket that is left behind are lost.
LEMMA CutDown ==
  ASSUME Types, NEW s
  PROVE  [down EXCEPT ![s] = << >>] \in [Sockets -> Seq(DownFrames)]
         /\ down \in [Sockets -> Seq(DownFrames)]
<1>1. down \in [Sockets -> Seq(DownFrames)]
  BY DEF Types, WireTypes
<1>2. << >> \in Seq(DownFrames)
  OBVIOUS
<1> HIDE DEF DownFrames
<1> QED BY <1>1, <1>2

\* The application calls reconnect, on the link in use or on a fresh one.
LEMMA ReconnectTyped ==
  ASSUME Types, NEW s \in Sockets, Reconnect(s), UNCHANGED serverVars
  PROVE  Types'
<1> DEFINE r == [Request("reconnect", subscribed, {}) EXCEPT !.seen = view.seen]
           v == Unprime(view, Known(view))
           fresh == s # current
<1>0. view \in Views(Told, Numbers, {}, {}) /\ view.seen \in Nat /\ nextId \in Nat
        /\ subscribed \in SUBSET Uris
  <2>1. Parts(view, Told, Numbers, {}, {})
    BY ViewParts DEF Types, ClientTypes
  <2> QED BY <2>1 DEF Parts, Types, ClientTypes
<1>1. r \in Requests /\ r.id = nextId
  <2>1. r \in Requests
    BY <1>0, RequestTyped
  <2> QED BY <2>1 DEF Request
<1>2. /\ up' = SentUp(up, s, r) /\ nextId' = nextId + 1
      /\ waiting' = (IF fresh THEN {} ELSE waiting) \cup {r}
      /\ reader' = s /\ current' = s
      /\ down' = IF fresh THEN [down EXCEPT ![current] = << >>] ELSE down
      /\ ready' = FALSE /\ writable' = FALSE /\ early' = << >>
      /\ view' = IF fresh THEN Failures(v, waiting, "transport") ELSE v
      /\ UNCHANGED <<detached, done, initialized, subscribed, nextSeq, saveState>>
  BY DEF Reconnect, BeginHandshake
<1> HIDE DEF r
<1>3. log' = log /\ waiting' \subseteq waiting \cup {r}
  BY <1>2 DEF serverVars, hubVars
<1>4. /\ Grows /\ waiting' \subseteq Issued' /\ IsFiniteSet(waiting')
      /\ UpFrames \subseteq UpFrames' /\ r \in UpFrames'
  BY <1>1, <1>2, <1>3, OneRequest
<1>5. up' \in [Sockets -> Seq(UpFrames')]
  BY <1>2, <1>4, QueuesGrow, SentTyped DEF Types, WireTypes
<1>6. view' \in Views(Told, Numbers, {}, {})
  <2>1. v \in Views(Told, Numbers, {}, {})
    BY <1>0, UnprimeGood
  <2>2. waiting \in SUBSET Requests /\ IsFiniteSet(waiting)
    BY DEF Types, ClientTypes, Issued
  <2> HIDE DEF v
  <2>3. Failures(v, waiting, "transport") \in Views(Told, Numbers, {}, {})
    BY <2>1, <2>2, FailuresGood
  <2> QED BY <1>2, <2>1, <2>3
<1>7. << >> \in Seq(Told)
  OBVIOUS
<1>8. down' \in [Sockets -> Seq(DownFrames)]
  BY <1>2, CutDown
<1>9. reader' \in 0..MaxSockets /\ current' \in Sockets /\ detached' = detached
  BY <1>2, ServerAssumption DEF Sockets
<1> QED BY <1>2, <1>4, <1>5, <1>6, <1>7, <1>8, <1>9, ClientStep
        DEF Types, ClientTypes, saveState

\* The application calls subscribe.
LEMMA SubscribeTyped ==
  ASSUME Types, NEW u \in Uris, Subscribe(u), UNCHANGED serverVars
  PROVE  Types'
<1> DEFINE r == [Request("subscribe", {u}, {u} \ Known(view)) EXCEPT !.uri = u]
<1>1. r \in Requests /\ r.id = nextId
  <2>1. r \in Requests
    BY RequestTyped DEF Types, ClientTypes
  <2> QED BY <2>1 DEF Request
<1>2. /\ up' = SentUp(up, reader, r) /\ waiting' = waiting \cup {r} /\ nextId' = nextId + 1
      /\ view' = WithMirrors(view, {u})
      /\ UNCHANGED <<down, reader, detached, linkState, shakeState, subscribed, nextSeq,
                     writable, saveState>>
  BY DEF Subscribe, Ask
<1> HIDE DEF r
<1>3. log' = log
  BY DEF serverVars, hubVars
<1>4. /\ Grows /\ waiting' \subseteq Issued' /\ IsFiniteSet(waiting')
      /\ UpFrames \subseteq UpFrames' /\ r \in UpFrames'
  BY <1>1, <1>2, <1>3, OneRequest
<1>5. up' \in [Sockets -> Seq(UpFrames')]
  BY <1>2, <1>4, QueuesGrow, SentTyped DEF Types, WireTypes
<1>6. view' \in Views(Told, Numbers, {}, {})
  <2>1. WithMirrors(view, {u}) \in Views(Told, Numbers, {} \cup {u}, {})
    BY MirrorsAdded DEF Types, ClientTypes
  <2> QED BY <1>2, <2>1, ViewsMonotone
<1> QED BY <1>2, <1>4, <1>5, <1>6, ClientStep
        DEF Types, ClientTypes, WireTypes, linkState, shakeState, saveState

\* The application calls unsubscribe.
LEMMA UnsubscribeTyped ==
  ASSUME Types, NEW u \in Uris, Unsubscribe(u), UNCHANGED serverVars
  PROVE  Types'
<1> DEFINE f == [method |-> "unsubscribe", uri |-> u]
<1>1. /\ subscribed' = subscribed \ {u} /\ view' = Forget(view, u)
      /\ up' = IF Connected THEN SentUp(up, reader, f) ELSE up
      /\ UNCHANGED <<linkState, shakeState, callState, nextSeq, writable, failed, flushing,
                     stored, down, reader, detached>>
      /\ Persist(FALSE)
  BY DEF Unsubscribe
<1>2. log' = log /\ nextId' = nextId /\ waiting' = waiting
  BY <1>1 DEF serverVars, hubVars, callState
<1>3. /\ Grows /\ waiting' \subseteq Issued' /\ IsFiniteSet(waiting')
      /\ UpFrames \subseteq UpFrames'
  BY <1>2, FewerRequests
<1>4. f \in UpFrames'
  BY DEF UpFrames
<1> HIDE DEF f
<1>5. up' \in [Sockets -> Seq(UpFrames')]
  BY <1>1, <1>3, <1>4, QueuesGrow, SentTyped DEF Types, WireTypes
<1>6. view' \in Views(Told, Numbers, {}, {})
  <2>1. Forget(view, u) \in Views(Told, Numbers, {} \ {u}, {})
    BY ForgetGood DEF Types, ClientTypes
  <2> QED BY <1>1, <2>1, ViewsMonotone
<1>7. subscribed' \subseteq Uris /\ nextSeq' \in 1..(MaxDispatch + 1)
  BY <1>1 DEF Types, ClientTypes
<1>8. saves' \in Seq(Checkpoints)
  BY <1>1, <1>6, <1>7, PersistTyped
<1> QED BY <1>1, <1>3, <1>5, <1>6, <1>7, <1>8, ClientStep
        DEF Types, ClientTypes, WireTypes, linkState, shakeState

\* The application calls dispatch.
LEMMA DispatchStepTyped ==
  ASSUME Types, NEW u \in Uris, Dispatch(u), UNCHANGED serverVars
  PROVE  Types'
<1> DEFINE r == DispatchRequest(nextId, u, nextSeq)
           w == Flush(nextSeq, u)
<1>1. nextSeq \in Numbers /\ view' \in Views(Told, Numbers, {}, {})
  <2>1. view' \in Views(Told, Numbers \cup {nextSeq}, {}, {}) /\ nextSeq \in Numbers
    BY DispatchView DEF Types, ClientTypes
  <2>2. Numbers \cup {nextSeq} = Numbers
    BY <2>1
  <2> QED BY <2>1, <2>2
<1>2. /\ u \in Stateful /\ nextSeq' = nextSeq + 1
      /\ UNCHANGED <<linkState, shakeState, subscribed, writable, failed, stored, down, reader,
                     detached>>
      /\ Persist(TRUE)
      /\ \/ flushing' = Append(flushing, w) /\ UNCHANGED <<callState, up>>
         \/ /\ up' = SentUp(up, reader, r) /\ waiting' = waiting \cup {r}
            /\ nextId' = nextId + 1 /\ UNCHANGED flushing
  BY DEF Dispatch, Ask
<1>3. log' = log
  BY DEF serverVars, hubVars
<1>4. r \in Requests /\ r.id = nextId
  <2>1. nextId \in Nat
    BY DEF Types, ClientTypes
  <2>2. r \in Requests
    BY <1>1, <1>2, <2>1, DispatchTyped
  <2> QED BY <2>2 DEF DispatchRequest
<1>5. nextSeq' \in 1..(MaxDispatch + 1)
  BY <1>1, <1>2, ClientAssumption DEF Numbers
<1>6. subscribed' \subseteq Uris
  BY <1>2 DEF Types, ClientTypes
<1>7. saves' \in Seq(Checkpoints)
  BY <1>1, <1>2, <1>5, <1>6, PersistTyped
<1>8. w \in Flushes
  <2>1. nextSeq \in 0..MaxDispatch /\ u \in SomeUris /\ Len(saves') \in Nat
    BY <1>1, <1>7 DEF Numbers, SomeUris
  <2> QED BY <1>2, <2>1 DEF Flush, Flushes
<1> HIDE DEF r, w
<1>9. flushing' \in Seq(Flushes)
  BY <1>2, <1>8, AppendTyped DEF Types, ClientTypes
<1>10. /\ Grows /\ waiting' \subseteq Issued' /\ IsFiniteSet(waiting')
       /\ up' \in [Sockets -> Seq(UpFrames')]
  <2>1. CASE UNCHANGED <<callState, up>>
    <3>1. nextId' = nextId /\ waiting' = waiting /\ up' = up
      BY <2>1 DEF callState
    <3>2. /\ Grows /\ waiting' \subseteq Issued' /\ IsFiniteSet(waiting')
          /\ UpFrames \subseteq UpFrames'
      BY <1>3, <3>1, FewerRequests
    <3> QED BY <3>1, <3>2, QueuesGrow DEF Types, WireTypes
  <2>2. CASE /\ up' = SentUp(up, reader, r) /\ waiting' = waiting \cup {r}
             /\ nextId' = nextId + 1
    <3>1. /\ Grows /\ waiting' \subseteq Issued' /\ IsFiniteSet(waiting')
          /\ UpFrames \subseteq UpFrames' /\ r \in UpFrames'
      BY <1>3, <1>4, <2>2, OneRequest
    <3> QED BY <2>2, <3>1, QueuesGrow, SentTyped DEF Types, WireTypes
  <2> QED BY <1>2, <2>1, <2>2
<1> QED BY <1>1, <1>2, <1>5, <1>6, <1>7, <1>9, <1>10, ClientStep
        DEF Types, ClientTypes, WireTypes, linkState, shakeState

-----------------------------------------------------------------------------

\* The frame that the client reads next.
LEMMA IncomingTyped ==
  ASSUME Types, NEW kind, Incoming(kind)
  PROVE  /\ Head(down[reader]) \in DownFrames /\ down' \in [Sockets -> Seq(DownFrames)]
         /\ kind = "action" => Head(down[reader]) \in Told
         /\ kind = "answer" => Head(down[reader]) \in Answers
<1>1. reader \in Sockets
  BY DEF Incoming, Connected, Types, WireTypes, Sockets
<1>2. down[reader] \in Seq(DownFrames) /\ down[reader] # << >>
  BY <1>1 DEF Incoming, Types, WireTypes
<1>3. Head(down[reader]) \in DownFrames /\ Tail(down[reader]) \in Seq(DownFrames)
  BY <1>2
<1>4. Head(down[reader]).kind = kind /\ down' = [down EXCEPT ![reader] = Tail(down[reader])]
  BY DEF Incoming
<1>5. \A f \in Told : f.kind = "action"
  BY ToldAreEnvelopes DEF Types, Envelopes
<1>6. \A f \in Answers : f.kind = "answer"
  BY DEF Answers
<1>7. down' \in [Sockets -> Seq(DownFrames)]
  BY <1>3, <1>4 DEF Types, WireTypes
<1> QED BY <1>3, <1>4, <1>5, <1>6, <1>7 DEF DownFrames

\* A broadcast arrives.
LEMMA ReceivePushTyped ==
  ASSUME Types, ReceivePush, UNCHANGED serverVars
  PROVE  Types'
<1> DEFINE e == Head(down[reader])
<1>1. e \in Told /\ down' \in [Sockets -> Seq(DownFrames)]
  BY IncomingTyped DEF ReceivePush
<1>2. /\ \/ view' = Inbound(view, e) /\ UNCHANGED early
         \/ early' = Append(early, e) /\ UNCHANGED view
      /\ UNCHANGED <<linkState, ready, subscribed, callState, nextSeq, writable, failed,
                     flushing, stored, up, reader, detached>>
      /\ Persist(FALSE)
  BY DEF ReceivePush
<1> HIDE DEF e
<1>3. log' = log /\ nextId' = nextId /\ waiting' = waiting
  BY <1>2 DEF serverVars, hubVars, callState
<1>4. /\ Grows /\ waiting' \subseteq Issued' /\ IsFiniteSet(waiting')
      /\ UpFrames \subseteq UpFrames'
  BY <1>3, FewerRequests
<1>5. up' \in [Sockets -> Seq(UpFrames')]
  BY <1>2, <1>4, QueuesGrow DEF Types, WireTypes
<1>6. view' \in Views(Told, Numbers, {}, {})
  BY <1>1, <1>2, ToldAreEnvelopes, InboundGood DEF Types, ClientTypes
<1>7. early' \in Seq(Told)
  BY <1>1, <1>2, AppendTyped DEF Types, ClientTypes
<1>8. saves' \in Seq(Checkpoints)
  BY <1>2, <1>6, PersistTyped DEF Types, ClientTypes
<1> QED BY <1>1, <1>2, <1>4, <1>5, <1>6, <1>7, <1>8, ClientStep
        DEF Types, ClientTypes, WireTypes, linkState

\* What the client does with an answer, and with no answer.
LEMMA AnswerFor ==
  ASSUME Types, ReceiveAnswer
  PROVE  /\ down' \in [Sockets -> Seq(DownFrames)]
         /\ UNCHANGED <<current, done, nextId, nextSeq, failed, flushing, stored, up, reader,
                        detached>>
         /\ \E r \in waiting, result \in Results :
              /\ r \in Requests /\ Fits(r, result) /\ waiting' = waiting \ {r}
              /\ result = Head(down[reader]).result
              /\ \/ result.type = "hello" /\ Welcome(r, result)
                 \/ result.type \in {"replay", "snapshot"} /\ Resumed(result)
                 \/ result.type = "subscribed" /\ Joined(r, result)
                 \/ result.type \in {"envelope", "duplicate"} /\ Answered(r, result)
                 \/ /\ result.type = "error" /\ view' = Failure(view, r, "error")
                    /\ UNCHANGED <<shakeState, subscribed, writable, initialized>>
              /\ Persist(r.method \in {"hello", "reconnect"} /\ ready')
<1> DEFINE f == Head(down[reader])
<1>1. f \in Answers /\ down' \in [Sockets -> Seq(DownFrames)]
  BY IncomingTyped DEF ReceiveAnswer
<1>2. PICK r \in waiting :
              /\ r.id = f.id /\ waiting' = waiting \ {r}
              /\ \/ f.result.type = "hello" /\ Welcome(r, f.result)
                 \/ f.result.type \in {"replay", "snapshot"} /\ Resumed(f.result)
                 \/ f.result.type = "subscribed" /\ Joined(r, f.result)
                 \/ f.result.type \in {"envelope", "duplicate"} /\ Answered(r, f.result)
                 \/ /\ f.result.type = "error" /\ view' = Failure(view, r, "error")
                    /\ UNCHANGED <<shakeState, subscribed, writable, initialized>>
              /\ Persist(r.method \in {"hello", "reconnect"} /\ ready')
  BY DEF ReceiveAnswer
<1>3. f.result \in Results /\ Fits(r, f.result)
  BY <1>1, <1>2 DEF Answers
<1>4. r \in Requests
  BY DEF Types, ClientTypes, Issued
<1>5. UNCHANGED <<current, done, nextId, nextSeq, failed, flushing, stored, up, reader, detached>>
  BY DEF ReceiveAnswer
<1> HIDE DEF f
<1> QED BY <1>1, <1>2, <1>3, <1>4, <1>5 DEF f

\* An answer arrives.
LEMMA ReceiveAnswerTyped ==
  ASSUME Types, ReceiveAnswer, UNCHANGED serverVars
  PROVE  Types'
<1>1. PICK r \in waiting, result \in Results :
              /\ r \in Requests /\ Fits(r, result) /\ waiting' = waiting \ {r}
              /\ \/ result.type = "hello" /\ Welcome(r, result)
                 \/ result.type \in {"replay", "snapshot"} /\ Resumed(result)
                 \/ result.type = "subscribed" /\ Joined(r, result)
                 \/ result.type \in {"envelope", "duplicate"} /\ Answered(r, result)
                 \/ /\ result.type = "error" /\ view' = Failure(view, r, "error")
                    /\ UNCHANGED <<shakeState, subscribed, writable, initialized>>
              /\ Persist(r.method \in {"hello", "reconnect"} /\ ready')
  BY AnswerFor
<1>2. down' \in [Sockets -> Seq(DownFrames)]
        /\ UNCHANGED <<current, done, nextId, nextSeq, failed, flushing, stored, up, reader,
                       detached>>
  BY AnswerFor
<1>3. log' = log /\ waiting' \subseteq waiting
  BY <1>1 DEF serverVars, hubVars
<1>4. /\ Grows /\ waiting' \subseteq Issued' /\ IsFiniteSet(waiting')
      /\ UpFrames \subseteq UpFrames'
  BY <1>2, <1>3, FewerRequests
<1>5. up' \in [Sockets -> Seq(UpFrames')]
  BY <1>2, <1>4, QueuesGrow DEF Types, WireTypes
<1>6. view \in Views(Told, Numbers, {}, {}) /\ early \in Seq(Told) /\ << >> \in Seq(Told)
        /\ subscribed \subseteq Uris /\ ready \in BOOLEAN /\ writable \in BOOLEAN
        /\ initialized \in BOOLEAN
  BY DEF Types, ClientTypes
<1>7. /\ view' \in Views(Told, Numbers, {}, {}) /\ early' \in Seq(Told)
      /\ subscribed' \subseteq Uris
      /\ ready' \in BOOLEAN /\ writable' \in BOOLEAN /\ initialized' \in BOOLEAN
  <2>1. CASE result.type = "hello" /\ Welcome(r, result)
    <3>1. view' \in Views(Told, Numbers, {}, {})
      BY <1>1, <1>6, <2>1, WelcomeView DEF Fits
    <3> QED BY <1>1, <1>6, <2>1, <3>1 DEF Welcome, Requests
  <2>2. CASE result.type = "replay" /\ Resumed(result)
    <3>1. ResumedByReplay(result) /\ subscribed' \subseteq subscribed
      BY <2>2 DEF Resumed, ResumedByReplay
    <3>2. view' \in Views(Told, {}, {} \ result.missing, {})
      BY <1>6, <2>2, <3>1, ReplayView
    <3>3. view' \in Views(Told, Numbers, {}, {})
      BY <3>2, ViewsMonotone
    <3> QED BY <1>6, <2>2, <3>1, <3>3 DEF Resumed
  <2>3. CASE result.type = "snapshot" /\ Resumed(result)
    <3>1. ResumedBySnapshot(result) /\ subscribed' \subseteq subscribed
      BY <2>3 DEF Resumed, ResumedBySnapshot
    <3>2. view' \in Views(Told, {}, {} \cap subscribed', {})
      BY <1>1, <1>6, <2>3, <3>1, SnapshotView DEF Fits
    <3>3. view' \in Views(Told, Numbers, {}, {})
      BY <3>2, ViewsMonotone
    <3> QED BY <1>6, <2>3, <3>1, <3>3 DEF Resumed
  <2>4. CASE result.type = "subscribed" /\ Joined(r, result)
    <3>1. view' \in Views(Told, Numbers, {}, {})
      BY <1>1, <1>6, <2>4, JoinedView DEF Fits
    <3>2. r.uri \in Uris
      BY <1>1, <2>4 DEF Fits, Requests
    <3> QED BY <1>6, <2>4, <3>1, <3>2 DEF Joined, shakeState
  <2>5. CASE result.type \in {"envelope", "duplicate"} /\ Answered(r, result)
    <3>1. view' \in Views(Told, Numbers \ {r.n}, {}, {})
      BY <1>1, <1>6, <2>5, AnsweredView
    <3>2. view' \in Views(Told, Numbers, {}, {})
      BY <3>1, ViewsMonotone
    <3> QED BY <1>6, <2>5, <3>2 DEF Answered, shakeState
  <2>6. CASE view' = Failure(view, r, "error")
               /\ UNCHANGED <<shakeState, subscribed, writable, initialized>>
    <3>1. view' \in Views(Told, Numbers, {} \ r.created, {})
      BY <1>1, <1>6, <2>6, FailureGood
    <3>2. view' \in Views(Told, Numbers, {}, {})
      BY <3>1, ViewsMonotone
    <3> QED BY <1>6, <2>6, <3>2 DEF shakeState
  <2> QED BY <1>1, <2>1, <2>2, <2>3, <2>4, <2>5, <2>6
<1>8. saves' \in Seq(Checkpoints)
  BY <1>1, <1>2, <1>7, PersistTyped DEF Types, ClientTypes
<1> QED BY <1>2, <1>4, <1>5, <1>7, <1>8, ClientStep DEF Types, ClientTypes, WireTypes

\* An answer arrives that nobody waits for any more.
LEMMA ReceiveLateTyped ==
  ASSUME Types, ReceiveLate, UNCHANGED serverVars
  PROVE  Types'
<1>1. down' \in [Sockets -> Seq(DownFrames)]
  BY IncomingTyped DEF ReceiveLate
<1>2. UNCHANGED <<clientVars, up, reader, detached>>
  BY DEF ReceiveLate
<1>3. log' = log /\ nextId' = nextId /\ waiting' = waiting
  BY <1>2 DEF serverVars, hubVars, clientVars, callState
<1>4. /\ Grows /\ waiting' \subseteq Issued' /\ IsFiniteSet(waiting')
      /\ UpFrames \subseteq UpFrames'
  BY <1>3, FewerRequests
<1>5. up' \in [Sockets -> Seq(UpFrames')]
  BY <1>2, <1>4, QueuesGrow DEF Types, WireTypes
<1> QED BY <1>1, <1>2, <1>4, <1>5, ClientStep
        DEF Types, ClientTypes, WireTypes, clientVars, linkState, shakeState, saveState

\* A request times out.
LEMMA TimeoutTyped ==
  ASSUME Types, NEW r \in waiting, Timeout(r), UNCHANGED serverVars
  PROVE  Types'
<1>1. /\ waiting' = waiting \ {r} /\ view' = Failure(view, r, "timeout")
      /\ UNCHANGED <<linkState, shakeState, subscribed, nextId, nextSeq, writable, failed,
                     flushing, stored, up, down, reader, detached>>
      /\ Persist(FALSE)
  BY DEF Timeout
<1>2. log' = log /\ nextId' = nextId /\ waiting' \subseteq waiting
  BY <1>1 DEF serverVars, hubVars
<1>3. /\ Grows /\ waiting' \subseteq Issued' /\ IsFiniteSet(waiting')
      /\ UpFrames \subseteq UpFrames'
  BY <1>2, FewerRequests
<1>4. up' \in [Sockets -> Seq(UpFrames')]
  BY <1>1, <1>3, QueuesGrow DEF Types, WireTypes
<1>5. view' \in Views(Told, Numbers, {}, {})
  <2>1. r \in Requests
    BY DEF Types, ClientTypes, Issued
  <2>2. view' \in Views(Told, Numbers, {} \ r.created, {})
    BY <1>1, <2>1, FailureGood DEF Types, ClientTypes
  <2> QED BY <2>2, ViewsMonotone
<1>6. saves' \in Seq(Checkpoints)
  BY <1>1, <1>5, PersistTyped DEF Types, ClientTypes
<1> QED BY <1>1, <1>3, <1>4, <1>5, <1>6, ClientStep
        DEF Types, ClientTypes, WireTypes, linkState, shakeState

\* The link ends.
LEMMA EndOfStreamTyped ==
  ASSUME Types, EndOfStream, UNCHANGED serverVars
  PROVE  Types'
<1>1. /\ reader' = 0 /\ down' = [down EXCEPT ![reader] = << >>]
      /\ ready' = FALSE /\ early' = << >> /\ waiting' = {}
      /\ view' = Failures(view, waiting, "transport")
      /\ UNCHANGED <<linkState, subscribed, nextId, nextSeq, writable, failed, flushing, stored,
                     up, detached>>
      /\ Persist(FALSE)
  BY DEF EndOfStream
<1>2. log' = log /\ nextId' = nextId /\ waiting' \subseteq waiting
  BY <1>1 DEF serverVars, hubVars
<1>3. /\ Grows /\ waiting' \subseteq Issued' /\ IsFiniteSet(waiting')
      /\ UpFrames \subseteq UpFrames'
  BY <1>2, FewerRequests
<1>4. up' \in [Sockets -> Seq(UpFrames')]
  BY <1>1, <1>3, QueuesGrow DEF Types, WireTypes
<1>5. view' \in Views(Told, Numbers, {}, {})
  <2>1. waiting \in SUBSET Requests /\ IsFiniteSet(waiting)
    BY DEF Types, ClientTypes, Issued
  <2> QED BY <1>1, <2>1, FailuresGood DEF Types, ClientTypes
<1>6. saves' \in Seq(Checkpoints)
  BY <1>1, <1>5, PersistTyped DEF Types, ClientTypes
<1>7. << >> \in Seq(Told) /\ reader' \in 0..MaxSockets
  BY <1>1, ServerAssumption
<1>8. down' \in [Sockets -> Seq(DownFrames)]
  BY <1>1, CutDown
<1> QED BY <1>1, <1>3, <1>4, <1>5, <1>6, <1>7, <1>8, ClientStep
        DEF Types, ClientTypes, linkState

-----------------------------------------------------------------------------
(* The end of a save, and of the process. *)

\* Several requests sent at once, with consecutive identifiers.
LEMMA ManyRequests ==
  ASSUME Types, UNCHANGED log, NEW rs \in Seq(Requests),
         \A i \in DOMAIN rs : rs[i].id = nextId + i - 1, nextId' = nextId + Len(rs),
         waiting' \subseteq waiting \cup Range(rs)
  PROVE  /\ Grows /\ waiting' \subseteq Issued' /\ IsFiniteSet(waiting')
         /\ Told' = Told /\ UpFrames \subseteq UpFrames' /\ Range(rs) \subseteq UpFrames'
<1>1. Told' = Told
  BY DEF Told
<1>2. nextId \in Nat /\ waiting \subseteq Issued /\ IsFiniteSet(waiting)
  BY DEF Types, ClientTypes
<1>3. /\ DOMAIN rs = 1..Len(rs) /\ Len(rs) \in Nat
      /\ Range(rs) = {rs[i] : i \in DOMAIN rs} /\ Range(rs) \subseteq Requests
  BY DEF Range
<1>4. /\ \A i \in DOMAIN rs : nextId <= rs[i].id /\ rs[i].id < nextId'
      /\ \A i, j \in DOMAIN rs : rs[i].id = rs[j].id => i = j
      /\ nextId' \in Nat /\ nextId <= nextId'
  BY <1>2, <1>3
<1>5. Grows
  BY <1>1, <1>3, <1>4 DEF Grows
<1>6. IsFiniteSet(waiting')
  <2>1. IsFiniteSet(DOMAIN rs)
    BY <1>3, FS_Interval
  <2>2. rs \in Surjection(DOMAIN rs, Range(rs))
    BY <1>3 DEF Surjection
  <2>3. IsFiniteSet(Range(rs))
    BY <2>1, <2>2, FS_Surjection
  <2>4. IsFiniteSet(waiting \cup Range(rs))
    BY <1>2, <2>3, FS_Union
  <2> QED BY <2>4, FS_Subset
<1>7. Issued \subseteq Issued' /\ UpFrames \subseteq UpFrames'
  BY <1>5, FramesGrow
<1>8. ASSUME NEW i \in DOMAIN rs
      PROVE  rs[i] \in Issued'
  <2>1. \A q \in waiting : q.id < nextId /\ q.id \in Nat
    BY <1>2 DEF Issued, Requests
  <2>2. \A q \in waiting' : q.id = rs[i].id => q = rs[i]
    BY <1>2, <1>3, <1>4, <2>1
  <2>3. rs[i] \in Requests'
    BY <1>3 DEF Requests, SomeUris, Stateful
  <2> QED BY <1>4, <2>2, <2>3 DEF Issued
<1>9. Range(rs) \subseteq UpFrames'
  BY <1>3, <1>8 DEF UpFrames
<1> QED BY <1>1, <1>2, <1>3, <1>5, <1>6, <1>7, <1>8, <1>9

\* The requests of the dispatches that go on after a save.
LEMMA SentRequests ==
  ASSUME Types, NEW callers \in Seq(Flushes)
  PROVE  /\ Sent(callers) \in Seq(Requests)
         /\ \A i \in DOMAIN Sent(callers) : Sent(callers)[i].id = nextId + i - 1
<1> DEFINE I == {i \in DOMAIN callers : callers[i].n # 0}
           ds == IF failed' \/ ~Connected THEN << >> ELSE Selected(callers, I)
           rs == [i \in DOMAIN ds |-> DispatchRequest(nextId + i - 1, ds[i].uri, ds[i].n)]
<1>1. nextId \in Nat
  BY DEF Types, ClientTypes
<1>2. /\ ds \in Seq(Flushes) /\ \A i \in DOMAIN ds : ds[i] \in Flushes /\ ds[i].n # 0
  <2>1. I \in SUBSET (DOMAIN callers)
    OBVIOUS
  <2>2. \A i \in I : callers[i].n # 0 /\ callers[i] \in Flushes
    OBVIOUS
  <2> HIDE DEF I
  <2>3. /\ Selected(callers, I) \in Seq(Flushes)
        /\ \A k \in DOMAIN Selected(callers, I) :
             \E i \in I : Selected(callers, I)[k] = callers[i]
    BY <2>1, SelectedTyped
  <2> QED BY <2>2, <2>3
<1>3. Sent(callers) = rs
  BY DEF Sent
<1> HIDE DEF ds
<1>4. ASSUME NEW i \in DOMAIN ds
      PROVE  rs[i] \in Requests /\ rs[i].id = nextId + i - 1
  <2>1. i \in Nat \ {0} /\ nextId + i - 1 \in Nat
    BY <1>1, <1>2
  <2>2. ds[i].uri \in Stateful /\ ds[i].n \in Numbers
    BY <1>2, ClientAssumption DEF Flushes, Numbers
  <2>3. DispatchRequest(nextId + i - 1, ds[i].uri, ds[i].n) \in Requests
    BY <2>1, <2>2, DispatchTyped
  <2>4. DispatchRequest(nextId + i - 1, ds[i].uri, ds[i].n).id = nextId + i - 1
    BY DEF DispatchRequest
  <2> QED BY <2>3, <2>4
<1>5. DOMAIN ds = 1..Len(ds) /\ Len(ds) \in Nat
  BY <1>2
<1>6. rs \in [1..Len(ds) -> Requests] /\ DOMAIN rs = DOMAIN ds
  BY <1>4, <1>5
<1> HIDE DEF rs
<1>7. rs \in Seq(Requests)
  BY <1>5, <1>6
<1> QED BY <1>3, <1>4, <1>6, <1>7

\* Frames sent one after the other.
LEMMA SendSteps ==
  ASSUME NEW A, NEW v \in [Sockets -> Seq(A)], NEW s \in Seq(A), NEW t
  PROVE  \E h \in [0..Len(s) -> [Sockets -> Seq(A)]] :
           /\ h[0] = v /\ h[Len(s)] = SendFrames(v, t, s)
           /\ \A i \in 1..Len(s) : h[i] = SentUp(h[i - 1], t, s[i])
<1> DEFINE G == [Sockets -> Seq(A)]
<1>1. \A e \in A, w \in G : SentUp(w, t, e) \in G
  BY SentTyped
<1>2. v \in G
  OBVIOUS
<1> HIDE DEF G
<1> DEFINE l == Len(s)
           D == DOMAIN s
           pick == [T \in SUBSET D |-> Max(T)]
           step == [i \in D |-> [w \in G |-> SentUp(w, t, s[i])]]
           It(f) == f = [T \in SUBSET D |-> IF T = {} THEN v
                           ELSE LET x == Max(T) IN SentUp(f[T \ {x}], t, s[x])]
           g == CHOOSE f : It(f)
           h == [i \in 0..l |-> g[1..i]]
<1>3. l \in Nat /\ D = 1..l /\ IsFiniteSet(D) /\ \A i \in D : s[i] \in A
  <2>1. l \in Nat /\ D = 1..l
    OBVIOUS
  <2>2. IsFiniteSet(1..l)
    BY <2>1, FS_Interval
  <2>3. \A i \in D : s[i] \in A
    OBVIOUS
  <2> QED BY <2>1, <2>2, <2>3
<1>4. SendFrames(v, t, s) = g[D]
  BY DEF SendFrames, FoldLeft, MapThenFoldSet
<1> HIDE DEF l, D
<1>5. \A T \in SUBSET D : pick[T] = Max(T)
  OBVIOUS
<1>6. Picks(pick, D)
  BY <1>3, <1>5, MaxPicks DEF Picks
<1>7. step \in [D -> [G -> G]] /\ \A i \in D, w \in G : step[i][w] = SentUp(w, t, s[i])
  BY <1>1, <1>3
<1> HIDE DEF pick, step
<1>8. PICK f \in [SUBSET D -> G] : FoldedBy(f, v, pick, step, D)
  BY <1>3, <1>2, <1>6, <1>7, SetRecursion
<1>9. ASSUME NEW T \in SUBSET D
      PROVE  f[T] = IF T = {} THEN v ELSE SentUp(f[T \ {pick[T]}], t, s[pick[T]])
  <2>1. T # {} => pick[T] \in D /\ f[T \ {pick[T]}] \in G
    BY <1>6, <1>8 DEF Picks
  <2>2. f[T] = IF T = {} THEN v ELSE step[pick[T]][f[T \ {pick[T]}]]
    BY <1>8 DEF FoldedBy
  <2> QED BY <1>7, <2>1, <2>2
<1>10. It(f)
  BY <1>5, <1>8, <1>9
<1>11. It(g)
  BY <1>10
<1> HIDE DEF g
<1>12. \A T \in SUBSET D : g[T] = IF T = {} THEN v ELSE SentUp(g[T \ {pick[T]}], t, s[pick[T]])
  BY <1>5, <1>11
<1>13. ASSUME NEW T \in SUBSET D, T # {}, g[T \ {pick[T]}] \in G
       PROVE  g[T] \in G
  <2>1. pick[T] \in D
    BY <1>6, <1>13 DEF Picks
  <2>2. SentUp(g[T \ {pick[T]}], t, s[pick[T]]) \in G
    BY <1>1, <1>3, <1>13, <2>1
  <2> QED BY <1>12, <1>13, <2>2
<1>14. g[{}] = v
  <2>1. {} \in SUBSET D
    OBVIOUS
  <2> QED BY <1>12, <2>1
<1>15. \A T \in SUBSET D : g[T] \in G
  BY <1>3, <1>2, <1>6, <1>13, <1>14, FoldStays
<1>16. \A i \in 0..l : 1..i \in SUBSET D /\ h[i] = g[1..i]
  BY <1>3
<1>17. h \in [0..l -> G]
  BY <1>15, <1>16
<1>18. ASSUME NEW i \in 1..l
       PROVE  h[i] = SentUp(h[i - 1], t, s[i])
  <2>1. 1..i \in SUBSET D /\ 1..i # {} /\ Max(1..i) = i /\ (1..i) \ {i} = 1..(i - 1)
    <3>1. Max(1..i) = i /\ (1..i) \ {i} = 1..(i - 1)
      BY <1>3, MaxPicks
    <3>2. i \in 1..i /\ 1..i \in SUBSET D
      BY <1>3
    <3> QED BY <3>1, <3>2
  <2>2. pick[1..i] = i
    BY <1>5, <2>1
  <2>3. g[1..i] = SentUp(g[1..(i - 1)], t, s[i])
    BY <1>12, <2>1, <2>2
  <2>4. i \in 0..l /\ i - 1 \in 0..l
    BY <1>3
  <2> QED BY <1>16, <2>3, <2>4
<1>19. h[0] = v /\ h[l] = g[D]
  <2>1. 0 \in 0..l /\ l \in 0..l /\ 1..0 = {}
    BY <1>3
  <2> QED BY <1>3, <1>14, <1>16, <2>1
<1> HIDE DEF h
<1> QED BY <1>4, <1>17, <1>18, <1>19 DEF l, G

\* Frames sent one after the other are all on the wire.
LEMMA FramesSent ==
  ASSUME NEW F, NEW q \in [Sockets -> Seq(F)], NEW t, NEW rs \in Seq(F)
  PROVE  SendFrames(q, t, rs) \in [Sockets -> Seq(F)]
<1> DEFINE G == [Sockets -> Seq(F)]
<1>1. PICK h \in [0..Len(rs) -> G] : h[0] = q /\ h[Len(rs)] = SendFrames(q, t, rs)
  BY SendSteps
<1>2. Len(rs) \in 0..Len(rs)
  OBVIOUS
<1> HIDE DEF G
<1> QED BY <1>1, <1>2 DEF G

\* They leave on the link in use.
LEMMA SendAllTyped ==
  ASSUME NEW F, up \in [Sockets -> Seq(F)], NEW rs, rs \in Seq(F), SendAll(rs)
  PROVE  up' \in [Sockets -> Seq(F)] /\ nextId' = nextId + Len(rs)
<1>1. up' = SendFrames(up, reader, rs) /\ nextId' = nextId + Len(rs)
  BY DEF SendAll, SendFrames
<1> QED BY <1>1, FramesSent

\* What a dispatch leaves of the view when its flush returns.
LEMMA ReleasedView ==
  ASSUME NEW E, NEW O, NEW K, NEW X, NEW v \in Views(E, O, K, X), NEW w \in Flushes, w.n # 0
  PROVE  Released(w, v) \in Views(E, O, K, X)
<1>1. w.n \in Numbers
  BY ClientAssumption DEF Flushes, Numbers
<1>2. Discard(v, w.uri, w.n, "lost") \in Views(E, O \ {w.n}, K, X)
  BY <1>1, DiscardGood DEF Witnessed, Outcome
<1>3. Discard(v, w.uri, w.n, "lost") \in Views(E, O, K, X)
  BY <1>2, ViewsMonotone
<1> QED BY <1>3 DEF Released

\* The same for several dispatches, one after the other.
LEMMA ReleasedViews ==
  ASSUME NEW E, NEW O, NEW K, NEW X, NEW v \in Views(E, O, K, X), NEW s \in Seq(Flushes),
         \A i \in DOMAIN s : s[i].n # 0
  PROVE  ReleaseAll(v, s) \in Views(E, O, K, X)
<1> DEFINE G == Views(E, O, K, X)
           A == {w \in Flushes : w.n # 0}
<1>1. \A w \in A, x \in G : Released(w, x) \in G
  BY ReleasedView
<1>2. s \in Seq(A)
  OBVIOUS
<1>3. v \in G
  OBVIOUS
<1> HIDE DEF G, A
<1>4. PICK h \in [0..Len(s) -> G] : h[0] = v /\ h[Len(s)] = ReleaseAll(v, s)
  BY <1>1, <1>2, <1>3, ReleaseSteps
<1>5. Len(s) \in 0..Len(s)
  BY <1>2
<1> QED BY <1>4, <1>5 DEF G

\* A shutdown that is through leaves nothing of the session.
LEMMA TornDownTyped ==
  ASSUME Types, TearDown
  PROVE  /\ reader' \in 0..MaxSockets /\ down' \in [Sockets -> Seq(DownFrames)]
         /\ ready' \in BOOLEAN /\ done' \in BOOLEAN /\ early' \in Seq(Told)
         /\ view' \in Views(Told, Numbers, {}, {}) /\ subscribed' = {} /\ waiting' = {}
<1>1. /\ reader' = 0 /\ down' = [s \in Sockets |-> << >>] /\ ready' = FALSE
      /\ early' = << >> /\ done' = TRUE /\ waiting' = {} /\ subscribed' = {}
  BY DEF TearDown
<1>2. view' \in Views(Told, Numbers, {}, {})
  BY TornDownView, ViewsMonotone
<1>3. 0 \in 0..MaxSockets /\ << >> \in Seq(Told)
  BY ServerAssumption
<1>4. [s \in Sockets |-> << >>] \in [Sockets -> Seq(DownFrames)]
  <2>1. << >> \in Seq(DownFrames)
    OBVIOUS
  <2> HIDE DEF DownFrames
  <2> QED BY <2>1
<1> QED BY <1>1, <1>2, <1>3, <1>4

\* The application calls shutdown.
LEMMA ShutdownTyped ==
  ASSUME Types, Shutdown, UNCHANGED serverVars
  PROVE  Types'
<1> DEFINE waits == Durable /\ (writable \/ saves # << >>)
           c == CHOOSE u \in Uris : TRUE
<1>1. /\ waits => UNCHANGED <<reader, down, shakeState, done, waiting, subscribed, view>>
      /\ ~waits => TearDown
      /\ UNCHANGED <<current, initialized, nextId, nextSeq, writable, failed, stored, up,
                     detached>>
      /\ Persist(TRUE)
      /\ flushing' = IF waits THEN Append(flushing, Flush(0, c)) ELSE flushing
  BY DEF Shutdown
<1> HIDE DEF waits, c
<1>2. /\ reader' \in 0..MaxSockets /\ down' \in [Sockets -> Seq(DownFrames)]
      /\ ready' \in BOOLEAN /\ done' \in BOOLEAN /\ early' \in Seq(Told)
      /\ view' \in Views(Told, Numbers, {}, {}) /\ subscribed' \subseteq Uris
      /\ waiting' \subseteq waiting
  <2>1. CASE waits
    BY <1>1, <2>1 DEF Types, ClientTypes, WireTypes, shakeState
  <2>2. CASE ~waits
    BY <1>1, <2>2, TornDownTyped
  <2> QED BY <2>1, <2>2
<1>3. log' = log /\ nextId' = nextId
  BY <1>1 DEF serverVars, hubVars
<1>4. /\ Grows /\ waiting' \subseteq Issued' /\ IsFiniteSet(waiting')
      /\ UpFrames \subseteq UpFrames'
  BY <1>2, <1>3, FewerRequests
<1>5. up' \in [Sockets -> Seq(UpFrames')]
  BY <1>1, <1>4, QueuesGrow DEF Types, WireTypes
<1>6. saves' \in Seq(Checkpoints)
  BY <1>1, <1>2, PersistTyped DEF Types, ClientTypes
<1>7. flushing' \in Seq(Flushes)
  <2>1. Flush(0, c) \in Flushes
    BY <1>6, ClientAssumption DEF Flush, Flushes, SomeUris, c
  <2> HIDE DEF Flushes
  <2>2. flushing \in Seq(Flushes)
    BY DEF Types, ClientTypes
  <2> QED BY <1>1, <2>1, <2>2
<1>8. /\ current' \in Sockets /\ initialized' \in BOOLEAN /\ writable' \in BOOLEAN
      /\ failed' \in BOOLEAN /\ nextSeq' \in 1..(MaxDispatch + 1)
      /\ stored' \in Checkpoints \cup {None} /\ detached' = detached
  BY <1>1 DEF Types, ClientTypes
<1> QED BY <1>2, <1>4, <1>5, <1>6, <1>7, <1>8, ClientStep

\* The end of the last save.
LEMMA FlushedTyped ==
  ASSUME Types, Flushed, failed' \in BOOLEAN, UNCHANGED log
  PROVE  /\ Grows /\ waiting' \subseteq Issued' /\ IsFiniteSet(waiting')
         /\ up' \in [Sockets -> Seq(UpFrames')] /\ down' \in [Sockets -> Seq(DownFrames)]
         /\ reader' \in 0..MaxSockets /\ ready' \in BOOLEAN /\ done' \in BOOLEAN
         /\ early' \in Seq(Told) /\ view' \in Views(Told, Numbers, {}, {})
         /\ subscribed' \subseteq Uris /\ saves' \in Seq(Checkpoints)
         /\ flushing' \in Seq(Flushes)
<1> DEFINE closes == {i \in DOMAIN flushing : flushing[i].n = 0}
           m == CHOOSE i \in closes : TRUE
           before == SubSeq(flushing, 1, m - 1)
<1>1. flushing' = << >> /\ flushing \in Seq(Flushes) /\ << >> \in Seq(Flushes)
  <2>1. flushing' = << >>
    BY DEF Flushed
  <2>2. flushing \in Seq(Flushes)
    BY DEF Types, ClientTypes
  <2>3. << >> \in Seq(Flushes)
    OBVIOUS
  <2> QED BY <2>1, <2>2, <2>3
<1>2. CASE /\ closes # {} /\ SendAll(Sent(before)) /\ TearDown /\ saves' = << >>
  <2>1. m \in DOMAIN flushing
    BY <1>2
  <2> HIDE DEF m
  <2>2. before \in Seq(Flushes)
    <3> HIDE DEF Flushes
    <3> QED BY <1>1, <2>1
  <2> HIDE DEF before
  <2> DEFINE rs == Sent(before)
  <2>3. rs \in Seq(Requests) /\ \A i \in DOMAIN rs : rs[i].id = nextId + i - 1
    BY <2>2, SentRequests
  <2>4. SendAll(rs) /\ nextId' = nextId + Len(rs)
    BY <1>2 DEF SendAll
  <2> HIDE DEF rs
  <2>5. waiting' \subseteq waiting \cup Range(rs)
    BY <1>2, TornDownTyped
  <2>6. /\ Grows /\ waiting' \subseteq Issued' /\ IsFiniteSet(waiting')
        /\ UpFrames \subseteq UpFrames' /\ Range(rs) \subseteq UpFrames'
    BY <2>3, <2>4, <2>5, ManyRequests
  <2>7. up \in [Sockets -> Seq(UpFrames')] /\ rs \in Seq(UpFrames')
    <3>1. rs \in Seq(UpFrames')
      BY <2>3, <2>6 DEF Range
    <3> QED BY <2>6, <3>1, QueuesGrow DEF Types, WireTypes
  <2>8. up' \in [Sockets -> Seq(UpFrames')]
    BY <2>4, <2>7, SendAllTyped
  <2>9. saves' \in Seq(Checkpoints)
    BY <1>2
  <2> QED BY <1>1, <1>2, <2>6, <2>8, <2>9, TornDownTyped
<1>3. CASE /\ closes = {}
           /\ view' = FoldLeft(LAMBDA v, w : Released(w, v), view, flushing)
           /\ SendAll(Sent(flushing)) /\ waiting' = waiting \cup Range(Sent(flushing))
           /\ saves' = IF view' # view /\ writable
                       THEN <<Checkpoint(view', subscribed, nextSeq)>> ELSE << >>
           /\ UNCHANGED <<reader, down, shakeState, done, subscribed>>
  <2> DEFINE rs == Sent(flushing)
  <2>1. view' \in Views(Told, Numbers, {}, {})
    <3>1. \A i \in DOMAIN flushing : flushing[i].n # 0
      BY <1>3
    <3>2. view' = ReleaseAll(view, flushing)
      BY <1>3 DEF ReleaseAll
    <3>3. view \in Views(Told, Numbers, {}, {})
      BY DEF Types, ClientTypes
    <3> QED BY <1>1, <3>1, <3>2, <3>3, ReleasedViews
  <2>3. rs \in Seq(Requests) /\ \A i \in DOMAIN rs : rs[i].id = nextId + i - 1
    BY <1>1, SentRequests
  <2>4. SendAll(rs) /\ nextId' = nextId + Len(rs) /\ waiting' = waiting \cup Range(rs)
    BY <1>3 DEF SendAll
  <2> HIDE DEF rs
  <2>6. /\ Grows /\ waiting' \subseteq Issued' /\ IsFiniteSet(waiting')
        /\ UpFrames \subseteq UpFrames' /\ Range(rs) \subseteq UpFrames'
    BY <2>3, <2>4, ManyRequests
  <2>7. up \in [Sockets -> Seq(UpFrames')] /\ rs \in Seq(UpFrames')
    <3>1. rs \in Seq(UpFrames')
      BY <2>3, <2>6 DEF Range
    <3> QED BY <2>6, <3>1, QueuesGrow DEF Types, WireTypes
  <2>8. up' \in [Sockets -> Seq(UpFrames')]
    BY <2>4, <2>7, SendAllTyped
  <2>9. saves' \in Seq(Checkpoints)
    <3>1. Checkpoint(view', subscribed, nextSeq) \in Checkpoints
      BY <2>1, CheckpointTyped DEF Types, ClientTypes
    <3>2. saves' = << >> \/ saves' = <<Checkpoint(view', subscribed, nextSeq)>>
      BY <1>3, Zenon
    <3>3. << >> \in Seq(Checkpoints)
      OBVIOUS
    <3> HIDE DEF Checkpoints
    <3>4. <<Checkpoint(view', subscribed, nextSeq)>> \in Seq(Checkpoints)
      BY <3>1
    <3> QED BY <3>2, <3>3, <3>4
  <2>10. /\ down' \in [Sockets -> Seq(DownFrames)] /\ reader' \in 0..MaxSockets
         /\ ready' \in BOOLEAN /\ done' \in BOOLEAN /\ early' \in Seq(Told)
         /\ subscribed' \subseteq Uris
    BY <1>3 DEF Types, ClientTypes, WireTypes, shakeState
  <2> QED BY <1>1, <2>1, <2>6, <2>8, <2>9, <2>10
<1> QED BY <1>2, <1>3 DEF Flushed

\* The callers that wait for a later save.
LEMMA WaitAgainTyped ==
  ASSUME Types, Len(saves) > 1
  PROVE  WaitAgain \in Seq(Flushes)
<1> DEFINE I == {i \in DOMAIN flushing : flushing[i].behind > 1}
           J == {i \in DOMAIN flushing : flushing[i].behind <= 1}
           later == Selected(flushing, I)
           woken == Selected(flushing, J)
           p == [i \in DOMAIN later |-> [later[i] EXCEPT !.behind = @ - 1]]
           q == [i \in DOMAIN woken |-> [woken[i] EXCEPT !.behind = Len(saves) - 1]]
<1>1. flushing \in Seq(Flushes) /\ Len(saves) - 1 \in Nat
  BY DEF Types, ClientTypes
<1>2. WaitAgain = p \o q
  BY DEF WaitAgain
<1>3. \A i \in I : flushing[i].behind > 1
  OBVIOUS
<1>4. I \in SUBSET (DOMAIN flushing) /\ J \in SUBSET (DOMAIN flushing)
  OBVIOUS
<1> HIDE DEF I, J
<1>5. /\ later \in Seq(Flushes)
      /\ \A k \in DOMAIN later : \E i \in I : later[k] = flushing[i]
  BY <1>1, <1>4, SelectedTyped
<1>6. woken \in Seq(Flushes)
  BY <1>1, <1>4, SelectedTyped
<1> HIDE DEF later, woken
<1>7. p \in Seq(Flushes)
  <2>1. ASSUME NEW i \in DOMAIN later
        PROVE  [later[i] EXCEPT !.behind = @ - 1] \in Flushes
    <3>1. later[i] \in Flushes /\ later[i].behind > 1
      BY <1>3, <1>5
    <3>2. later[i].behind - 1 \in Nat
      BY <3>1 DEF Flushes
    <3> QED BY <3>1, <3>2 DEF Flushes
  <2>2. DOMAIN later = 1..Len(later) /\ Len(later) \in Nat
    BY <1>5
  <2> HIDE DEF Flushes
  <2> QED BY <2>1, <2>2
<1>8. q \in Seq(Flushes)
  <2>1. ASSUME NEW i \in DOMAIN woken
        PROVE  [woken[i] EXCEPT !.behind = Len(saves) - 1] \in Flushes
    <3>1. woken[i] \in Flushes
      BY <1>6
    <3> QED BY <1>1, <3>1 DEF Flushes
  <2>2. DOMAIN woken = 1..Len(woken) /\ Len(woken) \in Nat
    BY <1>6
  <2> HIDE DEF Flushes
  <2> QED BY <2>1, <2>2
<1> HIDE DEF p, q, Flushes
<1> QED BY <1>2, <1>7, <1>8

\* A save has ended, well or not.
LEMMA SaveEndsTyped ==
  ASSUME Types, NEW ok \in BOOLEAN, SaveEnds(ok), UNCHANGED serverVars
  PROVE  Types'
<1>1. /\ saves # << >> /\ failed' = ~ok
      /\ stored' = IF ok THEN Head(saves) ELSE stored
      /\ UNCHANGED <<current, initialized, nextSeq, writable, detached>>
  BY DEF SaveEnds
<1>2. /\ current' \in Sockets /\ initialized' \in BOOLEAN /\ writable' \in BOOLEAN
      /\ failed' \in BOOLEAN /\ nextSeq' \in 1..(MaxDispatch + 1) /\ detached' = detached
  BY <1>1 DEF Types, ClientTypes
<1>3. stored' \in Checkpoints \cup {None}
  <2>1. saves \in Seq(Checkpoints) /\ stored \in Checkpoints \cup {None}
    BY DEF Types, ClientTypes
  <2> HIDE DEF Checkpoints
  <2> QED BY <1>1, <2>1
<1>4. log' = log
  BY DEF serverVars, hubVars
<1>5. CASE Len(saves) = 1 /\ Flushed
  BY <1>2, <1>3, <1>4, <1>5, FlushedTyped, ClientStep
<1>6. CASE /\ Len(saves) > 1
           /\ flushing' = WaitAgain /\ saves' = Tail(saves)
           /\ UNCHANGED <<reader, down, up, shakeState, done, waiting, nextId, subscribed,
                          view>>
  <2>1. /\ Grows /\ waiting' \subseteq Issued' /\ IsFiniteSet(waiting')
        /\ UpFrames \subseteq UpFrames'
    BY <1>4, <1>6, FewerRequests
  <2>2. up' \in [Sockets -> Seq(UpFrames')]
    BY <1>6, <2>1, QueuesGrow DEF Types, WireTypes
  <2>3. flushing' \in Seq(Flushes)
    BY <1>6, WaitAgainTyped
  <2>4. saves' \in Seq(Checkpoints)
    <3>1. saves \in Seq(Checkpoints)
      BY DEF Types, ClientTypes
    <3> HIDE DEF Checkpoints
    <3> QED BY <1>1, <1>6, <3>1
  <2>5. /\ down' \in [Sockets -> Seq(DownFrames)] /\ reader' \in 0..MaxSockets
        /\ ready' \in BOOLEAN /\ done' \in BOOLEAN /\ early' \in Seq(Told)
        /\ subscribed' \subseteq Uris /\ view' \in Views(Told, Numbers, {}, {})
    BY <1>6 DEF Types, ClientTypes, WireTypes, shakeState
  <2> QED BY <1>2, <1>3, <2>1, <2>2, <2>3, <2>4, <2>5, ClientStep
<1> QED BY <1>5, <1>6 DEF SaveEnds

\* A new process restores the last checkpoint.
LEMMA RestoreTyped ==
  ASSUME Types, Restore, UNCHANGED serverVars
  PROVE  Types'
<1>1. /\ reader' = 0 /\ down' = [s \in Sockets |-> << >>]
      /\ done' = FALSE /\ initialized' = TRUE /\ ready' = FALSE /\ early' = << >>
      /\ waiting' = {} /\ writable' = TRUE /\ failed' = FALSE
      /\ saves' = << >> /\ flushing' = << >>
      /\ UNCHANGED <<current, nextId, stored, up, detached>>
  BY DEF Restore
<1>2. /\ view' \in Views(Told, Numbers, {}, {}) /\ subscribed' \subseteq Uris
      /\ nextSeq' \in 1..(MaxDispatch + 1)
  BY RestoredView, ViewsMonotone
<1>3. log' = log /\ nextId' = nextId /\ waiting' \subseteq waiting
  BY <1>1 DEF serverVars, hubVars
<1>4. /\ Grows /\ waiting' \subseteq Issued' /\ IsFiniteSet(waiting')
      /\ UpFrames \subseteq UpFrames'
  BY <1>3, FewerRequests
<1>5. up' \in [Sockets -> Seq(UpFrames')]
  BY <1>1, <1>4, QueuesGrow DEF Types, WireTypes
<1>6. down' \in [Sockets -> Seq(DownFrames)]
  <2>1. << >> \in Seq(DownFrames)
    OBVIOUS
  <2> HIDE DEF DownFrames
  <2> QED BY <1>1, <2>1
<1>7. /\ reader' \in 0..MaxSockets /\ early' \in Seq(Told) /\ saves' \in Seq(Checkpoints)
      /\ flushing' \in Seq(Flushes)
  BY <1>1, ServerAssumption
<1>8. /\ current' \in Sockets /\ stored' \in Checkpoints \cup {None} /\ detached' = detached
      /\ done' \in BOOLEAN /\ initialized' \in BOOLEAN /\ ready' \in BOOLEAN
      /\ writable' \in BOOLEAN /\ failed' \in BOOLEAN
  BY <1>1 DEF Types, ClientTypes
<1> QED BY <1>2, <1>4, <1>5, <1>6, <1>7, <1>8, ClientStep

-----------------------------------------------------------------------------
(* The invariant. *)

\* At the start everything is what it should be.
LEMMA InitTyped ==
  ASSUME Init
  PROVE  Types
<1>1. HubTypes
  <2>1. << >> \in Seq(Envelopes) /\ << >> \in Seq(Told) /\ Len(<< >>) = 0 /\ DOMAIN << >> = {}
    OBVIOUS
  <2>2. Idle \in Jobs
    BY DEF Jobs
  <2> HIDE DEF Jobs, Envelopes, Told
  <2> QED BY <2>1, <2>2, ServerAssumption DEF Init, ServerInit, HubTypes
<1>2. WireTypes
  <2>1. << >> \in Seq(UpFrames) /\ << >> \in Seq(DownFrames)
    OBVIOUS
  <2> HIDE DEF UpFrames, DownFrames
  <2> QED BY <2>1, ServerAssumption DEF Init, WireInit, WireTypes
<1>3. view \in Views(Told, Numbers, {}, {})
  <2> DEFINE o == [n \in 1..MaxDispatch |-> "unused"]
  <2>1. view = [mirrors |-> << >>, seen |-> 0, outcome |-> o]
    BY DEF Init, ClientInit
  <2>2. << >> \in [{} -> Mirrors(Told)]
    OBVIOUS
  <2>3. /\ o \in [Numbers -> Outcome] /\ \A n \in Numbers : Witnessed(Told, n, o[n])
        /\ \A n \in Numbers : o[n] = "open" => n \in Numbers
    BY DEF Outcome, Numbers, Witnessed
  <2> HIDE DEF o
  <2> QED BY <2>1, <2>2, <2>3, ViewMade
<1>4. ClientTypes
  <2>1. << >> \in Seq(Told) /\ << >> \in Seq(Checkpoints) /\ << >> \in Seq(Flushes)
    OBVIOUS
  <2>2. IsFiniteSet({}) /\ 1 \in 1..(MaxDispatch + 1) /\ 1 \in Sockets
    BY FS_EmptySet, ClientAssumption, ServerAssumption DEF Sockets
  <2> HIDE DEF Checkpoints, Flushes, Told, Issued
  <2> QED BY <1>3, <2>1, <2>2 DEF Init, ClientInit, ClientTypes
<1> QED BY <1>1, <1>2, <1>4 DEF Types

\* Every step of either of the two keeps it.
LEMMA StepTyped ==
  ASSUME Types, [Next]_vars
  PROVE  Types'
<1>1. CASE \E s \in 1..current :
              \/ TakeHandshake(s) /\ UNCHANGED clientVars
              \/ TakeSubscribe(s) /\ UNCHANGED clientVars
              \/ TakeUnsubscribe(s) /\ UNCHANGED clientVars
              \/ TakeDispatch(s) /\ UNCHANGED clientVars
              \/ \E u \in Uris : SubscribeOne(s, u) /\ UNCHANGED clientVars
              \/ Greet(s) /\ UNCHANGED clientVars
              \/ \E u \in Uris : ResumeOne(s, u) /\ UNCHANGED clientVars
              \/ Resume(s) /\ UNCHANGED clientVars
              \/ Commit(s) /\ UNCHANGED clientVars
              \/ Publish(s) /\ UNCHANGED clientVars
              \/ Answer(s) /\ UNCHANGED clientVars
              \/ Detach(s) /\ UNCHANGED clientVars
  <2>1. PICK s \in 1..current :
              \/ TakeHandshake(s) /\ UNCHANGED clientVars
              \/ TakeSubscribe(s) /\ UNCHANGED clientVars
              \/ TakeUnsubscribe(s) /\ UNCHANGED clientVars
              \/ TakeDispatch(s) /\ UNCHANGED clientVars
              \/ \E u \in Uris : SubscribeOne(s, u) /\ UNCHANGED clientVars
              \/ Greet(s) /\ UNCHANGED clientVars
              \/ \E u \in Uris : ResumeOne(s, u) /\ UNCHANGED clientVars
              \/ Resume(s) /\ UNCHANGED clientVars
              \/ Commit(s) /\ UNCHANGED clientVars
              \/ Publish(s) /\ UNCHANGED clientVars
              \/ Answer(s) /\ UNCHANGED clientVars
              \/ Detach(s) /\ UNCHANGED clientVars
    BY <1>1
  <2>2. s \in Sockets
    BY ServerAssumption DEF Types, ClientTypes, Sockets
  <2> QED BY <2>1, <2>2, TakeHandshakeTyped, TakeSubscribeTyped, TakeUnsubscribeTyped,
             TakeDispatchTyped, SubscribeOneTyped, GreetTyped, ResumeOneTyped, ResumeTyped,
             CommitTyped, PublishTyped, AnswerTyped, DetachTyped
<1>2. CASE \/ \E u \in Uris : Foreign(u) /\ UNCHANGED clientVars
           \/ \E u \in Uris : Destroy(u) /\ UNCHANGED clientVars
           \/ Restart(1..current) /\ UNCHANGED clientVars
  <2>1. 1..current \subseteq Sockets
    BY ServerAssumption DEF Types, ClientTypes, Sockets
  <2> QED BY <1>2, <2>1, ForeignTyped, DestroyTyped, RestartTyped
<1>3. CASE \/ \E us \in SUBSET Uris : Hello(us) /\ UNCHANGED serverVars
           \/ \E s \in Sockets : Reconnect(s) /\ UNCHANGED serverVars
           \/ \E u \in Uris : Subscribe(u) /\ UNCHANGED serverVars
           \/ \E u \in Uris : Unsubscribe(u) /\ UNCHANGED serverVars
           \/ \E u \in Uris : Dispatch(u) /\ UNCHANGED serverVars
           \/ Shutdown /\ UNCHANGED serverVars
  BY <1>3, HelloTyped, ReconnectTyped, SubscribeTyped, UnsubscribeTyped, DispatchStepTyped,
     ShutdownTyped
<1>4. CASE \/ ReceivePush /\ UNCHANGED serverVars
           \/ ReceiveAnswer /\ UNCHANGED serverVars
           \/ ReceiveLate /\ UNCHANGED serverVars
           \/ EndOfStream /\ UNCHANGED serverVars
           \/ \E r \in waiting : Timeout(r) /\ UNCHANGED serverVars
           \/ \E ok \in BOOLEAN : SaveEnds(ok) /\ UNCHANGED serverVars
           \/ Restore /\ UNCHANGED serverVars
  BY <1>4, ReceivePushTyped, ReceiveAnswerTyped, ReceiveLateTyped, EndOfStreamTyped,
     TimeoutTyped, SaveEndsTyped, RestoreTyped
<1>5. CASE UNCHANGED vars
  <2>1. UNCHANGED <<up, down, reader, detached, serverVars, clientVars>>
    BY <1>5 DEF vars
  <2>2. log' = log /\ Told' = Told
    BY <2>1 DEF Told, serverVars, hubVars
  <2>3. ClientTypes' /\ Grows
    BY <2>1, <2>2, ClientFrame
  <2>4. HubTypes'
    BY <2>1, <2>3, HubFrame
  <2>5. WireTypes'
    <3>1. UpFrames \subseteq UpFrames' /\ DownFrames \subseteq DownFrames'
      BY <2>3, FramesGrow
    <3>2. up' \in [Sockets -> Seq(UpFrames')] /\ down' \in [Sockets -> Seq(DownFrames')]
      BY <2>1, <3>1, QueuesGrow DEF Types, WireTypes
    <3> QED BY <2>1, <3>2 DEF Types, WireTypes, Sockets
  <2> QED BY <2>3, <2>4, <2>5 DEF Types
<1> QED BY <1>1, <1>2, <1>3, <1>4, <1>5 DEF Next

-----------------------------------------------------------------------------
(* The theorems. *)

\* Every part of the session is what it should be, whatever the constants.
THEOREM SessionInvariance == Spec => []Types
<1>1. Init => Types
  BY InitTyped
<1>2. Types /\ [Next]_vars => Types'
  BY StepTyped
<1> QED BY <1>1, <1>2, PTL DEF Spec

\* The type invariant of the runs.
THEOREM SessionTyped == Spec => []TypeOK
<1>1. Types => TypeOK
  <2> SUFFICES ASSUME Types PROVE TypeOK
    OBVIOUS
  <2>1. Parts(view, Told, Numbers, {}, {})
    BY ViewParts DEF Types, ClientTypes
  <2>2. Known(view) \subseteq Uris /\ view.seen \in Nat
        /\ view.outcome \in [1..MaxDispatch -> Outcome]
    BY <2>1 DEF Parts, Numbers
  <2> QED BY <2>2 DEF Types, HubTypes, WireTypes, ClientTypes, TypeOK
<1> QED BY <1>1, SessionInvariance, PTL

\* Whatever happened to a pending action (it was confirmed, rejected, lost, timed out,
\* restored from a checkpoint), what is rendered is the confirmed state with what is
\* still pending on top: no way out of pending forgets the #restate.
THEOREM OptimisticShown == Spec => []OptimisticIsCurrent
<1>1. Types => OptimisticIsCurrent
  BY DEF Types, ClientTypes, Views, Shown, OptimisticIsCurrent
<1> QED BY <1>1, SessionInvariance, PTL

\* A dispatch that settled as confirmed or rejected is in the log, as that: no answer,
\* broadcast, replay, snapshot, timeout or restart tells a caller what the hub has not
\* committed.
THEOREM OutcomesTrue == Spec => []OutcomesAreTrue
<1>1. Types => OutcomesAreTrue
  <2> SUFFICES ASSUME Types, NEW n \in 1..MaxDispatch,
                      view.outcome[n] \in {"confirmed", "rejected"}
               PROVE  \E e \in Committed(n) : e.accepted = (view.outcome[n] = "confirmed")
    BY DEF OutcomesAreTrue
  <2>1. Witnessed(Told, n, view.outcome[n])
    BY DEF Types, ClientTypes, Views, Truthful, Numbers
  <2>2. PICK e \in Told : e.n = n /\ e.accepted = (view.outcome[n] = "confirmed")
    BY <2>1 DEF Witnessed
  <2>3. e \in Committed(n)
    BY <2>2 DEF Told, Committed
  <2> QED BY <2>2, <2>3
<1> QED BY <1>1, SessionInvariance, PTL

-----------------------------------------------------------------------------
(* What is subscribed has a mirror. *)

\* Nothing is subscribed in addition, no mirror is taken away, and no request is sent but
\* dispatches.
LEMMA MirrorsStay ==
  ASSUME Types, MirrorsKept, subscribed' \subseteq subscribed,
         Known(view) \subseteq Known(view'),
         \A r \in waiting' : r \in waiting \/ (r.method = "dispatch" /\ r.created = {})
  PROVE  MirrorsKept'
BY DEF MirrorsKept, Restates

\* The mirrors that failed requests take back are of no channel that is subscribed.
LEMMA FailuresKeepMirrors ==
  ASSUME Types, MirrorsKept, NEW rs \in SUBSET waiting, NEW why
  PROVE  subscribed \subseteq Known(Failures(view, rs, why))
<1>1. view \in Views(Told, Numbers, subscribed, {})
  BY AllKnown, ViewsMonotone DEF MirrorsKept, Types, ClientTypes
<1>2. rs \in SUBSET Requests /\ IsFiniteSet(rs) /\ \A r \in rs : r.created \cap subscribed = {}
  BY FS_Subset DEF MirrorsKept, Types, ClientTypes, Issued
<1>3. Failures(view, rs, why) \in Views(Told, Numbers, subscribed, {})
  BY <1>1, <1>2, FailuresGood
<1> QED BY <1>3, AllKnown

\* One request fails: its caller takes its own mirrors back.
LEMMA FailureKeepsMirrors ==
  ASSUME Types, MirrorsKept, NEW r \in waiting, NEW why,
         view' = Failure(view, r, why), waiting' = waiting \ {r}, subscribed' = subscribed
  PROVE  MirrorsKept'
<1>1. view \in Views(Told, Numbers, Known(view), {}) /\ r \in Requests
  BY AllKnown DEF Types, ClientTypes, Issued
<1>2. view' \in Views(Told, Numbers, Known(view) \ r.created, {})
  BY <1>1, FailureGood
<1>3. Known(view) \ r.created \subseteq Known(view')
  BY <1>2, AllKnown
<1>4. subscribed \subseteq Known(view) \ r.created
  BY DEF MirrorsKept
<1>5. r.created # {} => Restates(r)
  BY <1>1 DEF Requests, Restates
<1>6. ASSUME NEW q \in waiting', q.method \in {"hello", "subscribe"}
      PROVE  q.uris \subseteq Known(view')
  <2>1. q \in waiting /\ q # r /\ Restates(q)
    BY <1>6 DEF Restates
  <2>2. q.uris \cap r.created = {}
    BY <1>1, <1>5, <2>1 DEF MirrorsKept, Requests
  <2> QED BY <1>3, <1>6, <2>1, <2>2 DEF MirrorsKept
<1> QED BY <1>3, <1>4, <1>6 DEF MirrorsKept

\* Without overlapping calls, what restates a channel is alone in it.
LEMMA Alone ==
  ASSUME MirrorsKept, NEW us, Restating(us) = {}
  PROVE  \A r \in waiting : Restates(r) => r.method # "reconnect" /\ r.uris \cap us = {}
BY DEF Restating, Restates

\* Calls of the application.
LEMMA CallsKeepMirrors ==
  ASSUME Types, MirrorsKept, "overlap" \notin Habits,
         \/ \E us \in SUBSET Uris : Hello(us)
         \/ \E s \in Sockets : Reconnect(s)
         \/ \E u \in Uris : Subscribe(u)
         \/ \E u \in Uris : Unsubscribe(u)
         \/ \E u \in Uris : Dispatch(u)
         \/ Shutdown
  PROVE  MirrorsKept'
<1>0. /\ view \in Views(Told, Numbers, {}, {}) /\ view \in Views(Told, Numbers, Known(view), {})
      /\ Known(view) \subseteq Uris /\ subscribed \subseteq Known(view)
      /\ \A r \in waiting : Restates(r) => r.uris \subseteq Uris
  <2>1. view \in Views(Told, Numbers, Known(view), {})
    BY AllKnown DEF Types, ClientTypes
  <2>2. Parts(view, Told, Numbers, Known(view), {})
    BY <2>1, ViewParts
  <2> QED BY <2>1, <2>2 DEF Types, ClientTypes, Issued, Requests, MirrorsKept, Parts
<1>1. ASSUME NEW us \in SUBSET Uris, Hello(us)
      PROVE  MirrorsKept'
  <2> DEFINE r == Request("hello", us, us \ Known(view))
  <2>1. /\ Restating(Uris) = {} /\ waiting' = waiting \cup {r} /\ subscribed' = subscribed
        /\ view' = WithMirrors(Unprime(view, us), us)
    BY <1>1 DEF Hello, Ask
  <2>2. r.method = "hello" /\ r.uris = us /\ r.created = us \ Known(view)
    BY DEF Request
  <2> HIDE DEF r
  <2>3. Known(view') = Known(view) \cup us
    <3>1. /\ Unprime(view, us) \in Views(Told, Numbers, {}, {})
          /\ Known(Unprime(view, us)) = Known(view)
      BY <1>0, UnprimeGood
    <3>2. /\ WithMirrors(Unprime(view, us), us) \in Views(Told, Numbers, {} \cup us, {})
          /\ Known(WithMirrors(Unprime(view, us), us)) = Known(Unprime(view, us)) \cup us
      BY <3>1, MirrorsAdded
    <3> QED BY <2>1, <3>1, <3>2
  <2>4. \A q \in waiting : Restates(q) => q.method # "reconnect" /\ q.uris = {}
    BY <1>0, <2>1, Alone
  <2> QED BY <1>0, <2>1, <2>2, <2>3, <2>4 DEF MirrorsKept, Restates
<1>2. ASSUME NEW s \in Sockets, Reconnect(s)
      PROVE  MirrorsKept'
  <2> DEFINE v == Unprime(view, Known(view))
             r == [Request("reconnect", subscribed, {}) EXCEPT !.seen = view.seen]
             fresh == s # current
  <2>1. /\ waiting' = (IF fresh THEN {} ELSE waiting) \cup {r} /\ subscribed' = subscribed
        /\ view' = IF fresh THEN Failures(v, waiting, "transport") ELSE v
        /\ ~fresh => Restating(Uris) = {}
    <3>1. ~fresh => Restating(Uris) = {}
      BY <1>2, ServerAssumption DEF Reconnect, Types, ClientTypes, Sockets
    <3> QED BY <1>2, <3>1 DEF Reconnect
  <2>2. r.method = "reconnect" /\ r.created = {}
    BY DEF Request
  <2> HIDE DEF r
  <2>3. subscribed \subseteq Known(view')
    <3>1. v \in Views(Told, Numbers, subscribed, {}) /\ Known(v) = Known(view)
      <4>1. view \in Views(Told, Numbers, subscribed, {})
        BY <1>0, ViewsMonotone
      <4> QED BY <4>1, UnprimeGood
    <3>2. waiting \in SUBSET Requests /\ IsFiniteSet(waiting)
            /\ \A q \in waiting : q.created \cap subscribed = {}
      BY DEF MirrorsKept, Types, ClientTypes, Issued
    <3> HIDE DEF v
    <3>3. Failures(v, waiting, "transport") \in Views(Told, Numbers, subscribed, {})
      BY <3>1, <3>2, FailuresGood
    <3> QED BY <1>0, <2>1, <3>1, <3>3, AllKnown
  <2>4. CASE fresh
    BY <2>1, <2>2, <2>3, <2>4 DEF MirrorsKept
  <2>5. CASE ~fresh
    <3>1. Known(view') = Known(view)
      BY <1>0, <2>1, <2>5, UnprimeGood
    <3>2. \A q \in waiting : Restates(q) => q.method # "reconnect" /\ q.uris = {}
      BY <1>0, <2>1, <2>5, Alone
    <3> QED BY <1>0, <2>1, <2>2, <2>5, <3>1, <3>2 DEF MirrorsKept, Restates
  <2> QED BY <2>4, <2>5
<1>3. ASSUME NEW u \in Uris, Subscribe(u)
      PROVE  MirrorsKept'
  <2> DEFINE r == [Request("subscribe", {u}, {u} \ Known(view)) EXCEPT !.uri = u]
  <2>1. /\ Restating({u}) = {} /\ waiting' = waiting \cup {r} /\ subscribed' = subscribed
        /\ view' = WithMirrors(view, {u})
    BY <1>3 DEF Subscribe, Ask
  <2>2. r.method = "subscribe" /\ r.uris = {u} /\ r.created = {u} \ Known(view)
    BY DEF Request
  <2> HIDE DEF r
  <2>3. Known(view') = Known(view) \cup {u}
    BY <1>0, <2>1, MirrorsAdded
  <2>4. \A q \in waiting : Restates(q) => q.method # "reconnect" /\ q.uris \cap {u} = {}
    BY <2>1, Alone
  <2> QED BY <1>0, <2>1, <2>2, <2>3, <2>4 DEF MirrorsKept, Restates
<1>4. ASSUME NEW u \in Uris, Unsubscribe(u)
      PROVE  MirrorsKept'
  <2>1. /\ Restating({u}) = {} /\ waiting' = waiting /\ subscribed' = subscribed \ {u}
        /\ view' = Forget(view, u)
    BY <1>4 DEF Unsubscribe, callState
  <2>2. Known(view) \ {u} \subseteq Known(view')
    <3>1. view' \in Views(Told, Numbers, Known(view) \ {u}, {})
      BY <1>0, <2>1, ForgetGood
    <3> QED BY <3>1, AllKnown
  <2>3. \A q \in waiting : Restates(q) => q.method # "reconnect" /\ q.uris \cap {u} = {}
    BY <2>1, Alone
  <2>4. \A q \in waiting : q.method \in {"hello", "subscribe"} => u \notin q.uris
    BY <2>3 DEF Restates
  <2> QED BY <1>0, <2>1, <2>2, <2>3, <2>4 DEF MirrorsKept
<1>5. ASSUME NEW u \in Uris, Dispatch(u)
      PROVE  MirrorsKept'
  <2>1. Known(view) \subseteq Known(view')
    <3>1. view' \in Views(Told, Numbers \cup {nextSeq}, Known(view), {})
      BY <1>0, <1>5, DispatchView
    <3> QED BY <3>1, AllKnown
  <2>2. subscribed' = subscribed
        /\ (waiting' = waiting \/ waiting' = waiting \cup {DispatchRequest(nextId, u, nextSeq)})
    BY <1>5 DEF Dispatch, Ask, callState
  <2> QED BY <2>1, <2>2, MirrorsStay DEF DispatchRequest
<1>6. ASSUME Shutdown
      PROVE  MirrorsKept'
  <2>1. \/ UNCHANGED <<waiting, subscribed, view>>
        \/ waiting' = {} /\ subscribed' = {}
    BY <1>6 DEF Shutdown, TearDown
  <2> QED BY <2>1 DEF MirrorsKept, Restates
<1> QED BY <1>1, <1>2, <1>3, <1>4, <1>5, <1>6

\* Answers.
LEMMA AnswersKeepMirrors ==
  ASSUME Types, MirrorsKept, ReceiveAnswer
  PROVE  MirrorsKept'
<1>1. PICK r \in waiting, result \in Results :
              /\ r \in Requests /\ Fits(r, result) /\ waiting' = waiting \ {r}
              /\ \/ result.type = "hello" /\ Welcome(r, result)
                 \/ result.type \in {"replay", "snapshot"} /\ Resumed(result)
                 \/ result.type = "subscribed" /\ Joined(r, result)
                 \/ result.type \in {"envelope", "duplicate"} /\ Answered(r, result)
                 \/ /\ result.type = "error" /\ view' = Failure(view, r, "error")
                    /\ UNCHANGED <<shakeState, subscribed, writable, initialized>>
  BY AnswerFor
<1>2. view \in Views(Told, Numbers, Known(view), {}) /\ subscribed \subseteq Known(view)
  BY AllKnown DEF MirrorsKept, Types, ClientTypes
<1>3. CASE result.type = "hello" /\ Welcome(r, result)
  <2>1. Known(view) \subseteq Known(view')
    <3>1. view' \in Views(Told, Numbers, Known(view), {})
      BY <1>1, <1>2, <1>3, WelcomeView DEF Fits
    <3> QED BY <3>1, AllKnown
  <2>2. subscribed' = subscribed \cup r.uris /\ r.method = "hello"
    BY <1>1, <1>3 DEF Welcome, Fits
  <2>3. \A q \in waiting' : q.created \cap r.uris = {}
    BY <1>1, <2>2 DEF MirrorsKept, Restates, Requests, Types, ClientTypes, Issued
  <2> QED BY <1>1, <2>1, <2>2, <2>3 DEF MirrorsKept
<1>4. CASE result.type \in {"replay", "snapshot"} /\ Resumed(result)
  <2>1. r.method = "reconnect"
    BY <1>1, <1>4 DEF Fits
  <2>2. \A q \in waiting' : Restates(q) => q.uris = {}
    BY <1>1, <2>1 DEF MirrorsKept, Restates
  <2>3. subscribed' \subseteq subscribed /\ subscribed' \subseteq Known(view')
    <3>1. CASE result.type = "replay" /\ ResumedByReplay(result)
      <4>1. subscribed' = subscribed \ result.missing
        BY <3>1 DEF ResumedByReplay
      <4>2. view' \in Views(Told, {}, Known(view) \ result.missing, {})
        BY <1>2, <3>1, ReplayView
      <4> QED BY <1>2, <4>1, <4>2, AllKnown
    <3>2. CASE result.type = "snapshot" /\ ResumedBySnapshot(result)
      <4>1. subscribed' \subseteq subscribed
        BY <3>2 DEF ResumedBySnapshot
      <4>2. view' \in Views(Told, {}, Known(view) \cap subscribed', {})
        BY <1>1, <1>2, <3>2, SnapshotView DEF Fits
      <4> QED BY <1>2, <4>1, <4>2, AllKnown
    <3> QED BY <1>4, <3>1, <3>2 DEF Resumed
  <2> QED BY <1>1, <2>2, <2>3 DEF MirrorsKept, Restates
<1>5. CASE result.type = "subscribed" /\ Joined(r, result)
  <2>1. Known(view) \subseteq Known(view')
    <3>1. view' \in Views(Told, Numbers, Known(view), {})
      BY <1>1, <1>2, <1>5, JoinedView DEF Fits
    <3> QED BY <3>1, AllKnown
  <2>2. /\ subscribed' = subscribed \cup {r.uri} /\ r.method = "subscribe"
        /\ r.uris = {r.uri}
    BY <1>1, <1>5 DEF Joined, Fits, Requests
  <2>3. \A q \in waiting' : q.created \cap r.uris = {}
    BY <1>1, <2>2 DEF MirrorsKept, Restates, Requests, Types, ClientTypes, Issued
  <2> QED BY <1>1, <2>1, <2>2, <2>3 DEF MirrorsKept
<1>6. CASE result.type \in {"envelope", "duplicate"} /\ Answered(r, result)
  <2>1. Known(view) \subseteq Known(view')
    <3>1. view' \in Views(Told, Numbers \ {r.n}, Known(view), {})
      BY <1>1, <1>2, <1>6, AnsweredView
    <3> QED BY <3>1, AllKnown
  <2>2. subscribed' = subscribed
    BY <1>6 DEF Answered
  <2> QED BY <1>1, <2>1, <2>2, MirrorsStay
<1>7. CASE view' = Failure(view, r, "error")
             /\ UNCHANGED <<shakeState, subscribed, writable, initialized>>
  BY <1>1, <1>7, FailureKeepsMirrors
<1> QED BY <1>1, <1>3, <1>4, <1>5, <1>6, <1>7

\* The end of a save.
LEMMA SavesKeepMirrors ==
  ASSUME Types, MirrorsKept, NEW ok \in BOOLEAN, SaveEnds(ok)
  PROVE  MirrorsKept'
<1>1. CASE UNCHANGED <<waiting, subscribed, view>>
  BY <1>1 DEF MirrorsKept, Restates
<1>2. CASE waiting' = {} /\ subscribed' = {}
  BY <1>2 DEF MirrorsKept
<1>3. CASE /\ \A i \in DOMAIN flushing : flushing[i].n # 0
           /\ view' = ReleaseAll(view, flushing)
           /\ waiting' = waiting \cup Range(Sent(flushing))
           /\ subscribed' = subscribed
  <2>1. flushing \in Seq(Flushes) /\ view \in Views(Told, Numbers, Known(view), {})
    BY AllKnown DEF Types, ClientTypes
  <2>2. view' \in Views(Told, Numbers, Known(view), {})
    BY <1>3, <2>1, ReleasedViews
  <2>3. Known(view) \subseteq Known(view')
    BY <2>2, AllKnown
  <2>4. \A i \in DOMAIN Sent(flushing) :
          Sent(flushing)[i].method = "dispatch" /\ Sent(flushing)[i].created = {}
    BY DEF Sent, DispatchRequest
  <2>5. \A r \in Range(Sent(flushing)) : r.method = "dispatch" /\ r.created = {}
    BY <2>4 DEF Range
  <2> QED BY <1>3, <2>3, <2>5, MirrorsStay
<1>4. \/ UNCHANGED <<waiting, subscribed, view>>
      \/ waiting' = {} /\ subscribed' = {}
      \/ /\ \A i \in DOMAIN flushing : flushing[i].n # 0
         /\ view' = ReleaseAll(view, flushing)
         /\ waiting' = waiting \cup Range(Sent(flushing))
         /\ subscribed' = subscribed
  BY DEF SaveEnds, Flushed, TearDown, ReleaseAll
<1> QED BY <1>1, <1>2, <1>3, <1>4

\* Every step keeps the mirrors of what is subscribed.
LEMMA StepKeepsMirrors ==
  ASSUME Types, MirrorsKept, "overlap" \notin Habits, [Next]_vars
  PROVE  MirrorsKept'
<1>1. CASE UNCHANGED clientVars
  BY <1>1 DEF clientVars, callState, MirrorsKept, Restates
<1>2. CASE \/ \E us \in SUBSET Uris : Hello(us)
           \/ \E s \in Sockets : Reconnect(s)
           \/ \E u \in Uris : Subscribe(u)
           \/ \E u \in Uris : Unsubscribe(u)
           \/ \E u \in Uris : Dispatch(u)
           \/ Shutdown
  BY <1>2, CallsKeepMirrors
<1>3. CASE ReceivePush
  <2> DEFINE e == Head(down[reader])
  <2>1. e \in Told /\ Told \in SUBSET Envelopes
    BY <1>3, IncomingTyped, ToldAreEnvelopes DEF ReceivePush, Types
  <2>2. /\ view' = Inbound(view, e) \/ view' = view
        /\ waiting' = waiting /\ subscribed' = subscribed
    BY <1>3 DEF ReceivePush, callState
  <2> HIDE DEF e
  <2>3. view \in Views(Told, Numbers, Known(view), {})
    BY AllKnown DEF Types, ClientTypes
  <2>4. Inbound(view, e) \in Views(Told, Numbers, Known(view), {})
    BY <2>1, <2>3, InboundGood
  <2>5. Known(view) \subseteq Known(view')
    BY <2>2, <2>3, <2>4, AllKnown
  <2> QED BY <2>2, <2>5, MirrorsStay
<1>4. CASE ReceiveAnswer
  BY <1>4, AnswersKeepMirrors
<1>5. CASE EndOfStream
  <2>1. /\ waiting' = {} /\ view' = Failures(view, waiting, "transport")
        /\ subscribed' = subscribed
    BY <1>5 DEF EndOfStream
  <2>2. subscribed' \subseteq Known(view')
    BY <2>1, FailuresKeepMirrors
  <2> QED BY <2>1, <2>2 DEF MirrorsKept
<1>6. ASSUME NEW r \in waiting, Timeout(r)
      PROVE  MirrorsKept'
  BY <1>6, FailureKeepsMirrors DEF Timeout
<1>7. ASSUME NEW ok \in BOOLEAN, SaveEnds(ok)
      PROVE  MirrorsKept'
  BY <1>7, SavesKeepMirrors
<1>8. CASE Restore
  <2>1. view' \in Views(Told, Numbers, subscribed', {})
    BY <1>8, RestoredView
  <2>2. waiting' = {}
    BY <1>8 DEF Restore
  <2> QED BY <2>1, <2>2, AllKnown DEF MirrorsKept
<1>9. CASE ReceiveLate
  BY <1>1, <1>9 DEF ReceiveLate
<1> QED BY <1>1, <1>2, <1>3, <1>4, <1>5, <1>6, <1>7, <1>8, <1>9 DEF Next, vars

\* What is subscribed has a mirror, in which #persist finds what to save of it, as long as
\* the application makes one call at a time for a channel: no answer, failure, timeout or
\* restart leaves a subscription without its mirror.
THEOREM SubscribedMirrored ==
  ASSUME "overlap" \notin Habits
  PROVE  Spec => []SubscribedHasMirror
<1>1. Init => MirrorsKept
  BY DEF Init, ClientInit, MirrorsKept
<1>2. Types /\ MirrorsKept /\ [Next]_vars => MirrorsKept'
  BY StepKeepsMirrors
<1>3. MirrorsKept => SubscribedHasMirror
  BY DEF MirrorsKept, SubscribedHasMirror
<1> QED BY <1>1, <1>2, <1>3, SessionInvariance, PTL DEF Spec

-----------------------------------------------------------------------------
(* Somebody waits for what is open. *)

\* Views with at most these dispatches open have no others open.
LEMMA OpenOnly ==
  ASSUME NEW E, NEW O, NEW K, NEW X, NEW v \in Views(E, O, K, X)
  PROVE  Opens(v) \subseteq O
BY DEF Views

\* Every good view is one with only its own dispatches open.
LEMMA OwnOpens ==
  ASSUME NEW E, NEW O, NEW K, NEW X, NEW v \in Views(E, O, K, X)
  PROVE  v \in Views(E, Opens(v), K, X)
BY DEF Views

\* The link stays as it is, nothing is opened, and whoever waited for a dispatch waits on.
LEMMA StillAwaited ==
  ASSUME OpensAwaited, UNCHANGED <<ready, initialized>>,
         Opens(view') \subseteq Opens(view), Opens(view') \cap Awaited \subseteq Awaited',
         \A r \in waiting' : r.method = "hello" => r \in waiting
  PROVE  OpensAwaited'
BY DEF OpensAwaited, Opens

\* A link that ends leaves nobody to wait for an answer.
LEMMA NobodyAwaits ==
  ASSUME OpensAwaited, ready' = FALSE, initialized' = initialized,
         Opens(view') \subseteq Opens(view), \A r \in waiting' : r.method # "hello"
  PROVE  OpensAwaited'
BY DEF OpensAwaited, Opens

\* Nothing is open.
LEMMA NothingOpen ==
  ASSUME ready' => initialized', Opens(view') = {}
  PROVE  OpensAwaited'
BY DEF OpensAwaited, Opens

\* Calls of the application.
LEMMA CallsAwaited ==
  ASSUME Types, OpensAwaited, "rehello" \notin Habits,
         \/ \E us \in SUBSET Uris : Hello(us)
         \/ \E s \in Sockets : Reconnect(s)
         \/ \E u \in Uris : Subscribe(u)
         \/ \E u \in Uris : Unsubscribe(u)
         \/ \E u \in Uris : Dispatch(u)
         \/ Shutdown
  PROVE  OpensAwaited'
<1>0. view \in Views(Told, Opens(view), {}, {})
  BY OwnOpens DEF Types, ClientTypes
<1>1. ASSUME NEW us \in SUBSET Uris, Hello(us)
      PROVE  OpensAwaited'
  <2>1. /\ ~initialized /\ ready' = FALSE /\ initialized' = initialized
        /\ view' = WithMirrors(Unprime(view, us), us)
    BY <1>1 DEF Hello, BeginHandshake, linkState
  <2>2. view' \in Views(Told, Opens(view), {} \cup us, {})
    <3>1. Unprime(view, us) \in Views(Told, Opens(view), {}, {})
      BY <1>0, UnprimeGood
    <3>2. WithMirrors(Unprime(view, us), us) \in Views(Told, Opens(view), {} \cup us, {})
      BY <3>1, MirrorsAdded
    <3> QED BY <2>1, <3>2
  <2>3. Opens(view') \subseteq Opens(view)
    BY <2>2, OpenOnly
  <2>4. Opens(view') = {}
    BY <2>1, <2>3 DEF OpensAwaited
  <2> QED BY <2>1, <2>4, NothingOpen
<1>2. ASSUME NEW s \in Sockets, Reconnect(s)
      PROVE  OpensAwaited'
  <2> DEFINE v == Unprime(view, Known(view))
             r == [Request("reconnect", subscribed, {}) EXCEPT !.seen = view.seen]
             fresh == s # current
  <2>1. /\ waiting' = (IF fresh THEN {} ELSE waiting) \cup {r}
        /\ view' = IF fresh THEN Failures(v, waiting, "transport") ELSE v
        /\ ready' = FALSE /\ initialized' = initialized /\ flushing' = flushing
    BY <1>2 DEF Reconnect, BeginHandshake, saveState
  <2>2. r.method = "reconnect"
    BY DEF Request
  <2> HIDE DEF r
  <2>3. v \in Views(Told, Opens(view), {}, {})
    BY <1>0, UnprimeGood
  <2> HIDE DEF v
  <2>4. Opens(view') \subseteq Opens(view)
    <3>1. waiting \in SUBSET Requests /\ IsFiniteSet(waiting)
      BY DEF Types, ClientTypes, Issued
    <3>2. Failures(v, waiting, "transport") \in Views(Told, Opens(view), {}, {})
      BY <2>3, <3>1, FailuresGood
    <3> QED BY <2>1, <2>3, <3>2, OpenOnly
  <2>5. CASE fresh
    BY <2>1, <2>2, <2>4, <2>5, NobodyAwaits
  <2>6. CASE ~fresh
    <3>1. Awaited \subseteq Awaited'
      BY <2>1, <2>6 DEF Awaited
    <3>2. \A q \in waiting' : q.method = "hello" => q \in waiting
      BY <2>1, <2>2, <2>6
    <3> QED BY <2>1, <2>4, <3>1, <3>2 DEF OpensAwaited, Opens
  <2> QED BY <2>5, <2>6
<1>3. ASSUME NEW u \in Uris, Subscribe(u)
      PROVE  OpensAwaited'
  <2> DEFINE r == [Request("subscribe", {u}, {u} \ Known(view)) EXCEPT !.uri = u]
  <2>1. /\ waiting' = waiting \cup {r} /\ view' = WithMirrors(view, {u})
        /\ UNCHANGED <<ready, initialized, flushing>>
    BY <1>3 DEF Subscribe, Ask, linkState, shakeState, saveState
  <2>2. r.method = "subscribe"
    BY DEF Request
  <2> HIDE DEF r
  <2>3. WithMirrors(view, {u}) \in Views(Told, Opens(view), {} \cup {u}, {})
    BY <1>0, MirrorsAdded
  <2>4. Opens(view') \subseteq Opens(view)
    BY <2>1, <2>3, OpenOnly
  <2>5. Awaited \subseteq Awaited'
    BY <2>1 DEF Awaited
  <2> QED BY <2>1, <2>2, <2>4, <2>5, StillAwaited
<1>4. ASSUME NEW u \in Uris, Unsubscribe(u)
      PROVE  OpensAwaited'
  <2>1. /\ waiting' = waiting /\ view' = Forget(view, u)
        /\ UNCHANGED <<ready, initialized, flushing>>
    BY <1>4 DEF Unsubscribe, callState, linkState, shakeState
  <2>2. Forget(view, u) \in Views(Told, Opens(view), {} \ {u}, {})
    BY <1>0, ForgetGood
  <2>3. Opens(view') \subseteq Opens(view)
    BY <2>1, <2>2, OpenOnly
  <2>4. Awaited' = Awaited
    BY <2>1 DEF Awaited
  <2> QED BY <2>1, <2>3, <2>4, StillAwaited
<1>5. ASSUME NEW u \in Uris, Dispatch(u)
      PROVE  OpensAwaited'
  <2> DEFINE r == DispatchRequest(nextId, u, nextSeq)
             w == Flush(nextSeq, u)
  <2>1. /\ ready /\ UNCHANGED <<ready, initialized>>
        /\ \/ flushing' = Append(flushing, w) /\ waiting' = waiting
           \/ flushing' = flushing /\ waiting' = waiting \cup {r}
    BY <1>5 DEF Dispatch, Ask, callState, linkState, shakeState
  <2>2. r.method = "dispatch" /\ r.n = nextSeq /\ w.n = nextSeq
    BY DEF DispatchRequest, Flush
  <2> HIDE DEF r, w
  <2>3. Opens(view') \subseteq Opens(view) \cup {nextSeq}
    <3>1. view' \in Views(Told, Opens(view) \cup {nextSeq}, {}, {})
      BY <1>0, <1>5, DispatchView
    <3> QED BY <3>1, OpenOnly
  <2>4. Awaited \cup {nextSeq} \subseteq Awaited'
    <3>1. CASE flushing' = Append(flushing, w) /\ waiting' = waiting
      <4>1. flushing \in Seq(Flushes)
        BY DEF Types, ClientTypes
      <4> HIDE DEF Flushes
      <4>2. /\ DOMAIN flushing' = 1..(Len(flushing) + 1) /\ flushing'[Len(flushing) + 1] = w
            /\ DOMAIN flushing = 1..Len(flushing) /\ Len(flushing) \in Nat
            /\ \A i \in DOMAIN flushing : flushing'[i] = flushing[i]
        BY <3>1, <4>1
      <4>3. \A i \in DOMAIN flushing : i \in DOMAIN flushing'
        BY <4>2
      <4>4. Len(flushing) + 1 \in DOMAIN flushing'
        BY <4>2
      <4> QED BY <2>2, <3>1, <4>2, <4>3, <4>4 DEF Awaited
    <3>2. CASE flushing' = flushing /\ waiting' = waiting \cup {r}
      BY <2>2, <3>2 DEF Awaited
    <3> QED BY <2>1, <3>1, <3>2
  <2> QED BY <2>1, <2>3, <2>4 DEF OpensAwaited, Opens
<1>6. ASSUME Shutdown
      PROVE  OpensAwaited'
  <2>1. CASE TearDown
    <3>1. Opens(view') = {}
      BY <2>1, TornDownView, OpenOnly
    <3> QED BY <2>1, <3>1, NothingOpen DEF TearDown
  <2>2. CASE /\ UNCHANGED <<reader, down, shakeState, done, waiting, subscribed, view>>
             /\ initialized' = initialized
             /\ flushing' = Append(flushing, Flush(0, CHOOSE u \in Uris : TRUE))
    <3> DEFINE w == Flush(0, CHOOSE u \in Uris : TRUE)
    <3>1. flushing \in Seq(Flushes)
      BY DEF Types, ClientTypes
    <3> HIDE DEF Flushes, w
    <3>2. /\ DOMAIN flushing \subseteq DOMAIN flushing'
          /\ \A i \in DOMAIN flushing : flushing'[i] = flushing[i]
      BY <2>2, <3>1 DEF w
    <3>3. Awaited \subseteq Awaited'
      BY <2>2, <3>2 DEF Awaited
    <3> QED BY <2>2, <3>3, StillAwaited DEF shakeState
  <2> QED BY <1>6, <2>1, <2>2 DEF Shutdown
<1> QED BY <1>1, <1>2, <1>3, <1>4, <1>5, <1>6

\* One request that is not answered: a dispatch ends with it.
LEMMA FailureAwaited ==
  ASSUME Types, OpensAwaited, NEW r \in waiting, NEW why, why # "transport",
         view' = Failure(view, r, why), waiting' = waiting \ {r},
         UNCHANGED <<ready, initialized, flushing>>
  PROVE  OpensAwaited'
<1>1. view \in Views(Told, Opens(view), {}, {}) /\ r \in Requests
  BY OwnOpens DEF Types, ClientTypes, Issued
<1>2. view' \in Views(Told, Opens(view), {} \ r.created, {})
        /\ (r.method = "dispatch" => view' \in Views(Told, Opens(view) \ {r.n}, {}, {}))
  BY <1>1, FailureGood
<1>3. Opens(view') \subseteq Opens(view)
  BY <1>2, OpenOnly
<1>4. r.method = "dispatch" => Opens(view') \subseteq Opens(view) \ {r.n}
  BY <1>2, OpenOnly
<1>5. Opens(view') \cap Awaited \subseteq Awaited'
  BY <1>4 DEF Awaited
<1> QED BY <1>3, <1>5, StillAwaited

\* Answers.
LEMMA AnswersAwaited ==
  ASSUME Types, OpensAwaited, ReceiveAnswer
  PROVE  OpensAwaited'
<1>1. PICK r \in waiting, result \in Results :
              /\ r \in Requests /\ Fits(r, result) /\ waiting' = waiting \ {r}
              /\ \/ result.type = "hello" /\ Welcome(r, result)
                 \/ result.type \in {"replay", "snapshot"} /\ Resumed(result)
                 \/ result.type = "subscribed" /\ Joined(r, result)
                 \/ result.type \in {"envelope", "duplicate"} /\ Answered(r, result)
                 \/ /\ result.type = "error" /\ view' = Failure(view, r, "error")
                    /\ UNCHANGED <<shakeState, subscribed, writable, initialized>>
  BY AnswerFor
<1>2. flushing' = flushing /\ view \in Views(Told, Opens(view), {}, {})
  BY AnswerFor, OwnOpens DEF Types, ClientTypes
<1>3. CASE result.type = "hello" /\ Welcome(r, result)
  <2>1. Opens(view') \subseteq Opens(view)
    <3>1. view' \in Views(Told, Opens(view), {}, {})
      BY <1>1, <1>2, <1>3, WelcomeView DEF Fits
    <3> QED BY <3>1, OpenOnly
  <2>2. r.method = "hello" /\ ready' = TRUE /\ initialized' = TRUE
    BY <1>1, <1>3 DEF Welcome, Fits
  <2>3. Awaited' = Awaited
    BY <1>1, <1>2, <2>2 DEF Awaited
  <2> QED BY <2>1, <2>2, <2>3 DEF OpensAwaited, Opens
<1>4. CASE result.type \in {"replay", "snapshot"} /\ Resumed(result)
  <2>1. Opens(view') = {}
    <3>1. CASE result.type = "replay" /\ ResumedByReplay(result)
      <4>1. view' \in Views(Told, {}, {} \ result.missing, {})
        BY <1>2, <3>1, ReplayView
      <4> QED BY <4>1, OpenOnly
    <3>2. CASE result.type = "snapshot" /\ ResumedBySnapshot(result)
      <4>1. view' \in Views(Told, {}, {} \cap subscribed', {})
        BY <1>1, <1>2, <3>2, SnapshotView DEF Fits
      <4> QED BY <4>1, OpenOnly
    <3> QED BY <1>4, <3>1, <3>2 DEF Resumed
  <2>2. ready' = TRUE /\ initialized' = TRUE
    BY <1>4 DEF Resumed
  <2> QED BY <2>1, <2>2, NothingOpen
<1>5. CASE result.type = "subscribed" /\ Joined(r, result)
  <2>1. Opens(view') \subseteq Opens(view)
    <3>1. view' \in Views(Told, Opens(view), {}, {})
      BY <1>1, <1>2, <1>5, JoinedView DEF Fits
    <3> QED BY <3>1, OpenOnly
  <2>2. r.method = "subscribe" /\ UNCHANGED <<ready, initialized>>
    BY <1>1, <1>5 DEF Joined, Fits, shakeState
  <2>3. Awaited' = Awaited
    BY <1>1, <1>2, <2>2 DEF Awaited
  <2> QED BY <1>1, <2>1, <2>2, <2>3, StillAwaited
<1>6. CASE result.type \in {"envelope", "duplicate"} /\ Answered(r, result)
  <2>1. Opens(view') \subseteq Opens(view) \ {r.n}
    <3>1. view' \in Views(Told, Opens(view) \ {r.n}, {}, {})
      BY <1>1, <1>2, <1>6, AnsweredView
    <3> QED BY <3>1, OpenOnly
  <2>2. UNCHANGED <<ready, initialized>>
    BY <1>6 DEF Answered, shakeState
  <2>3. Opens(view') \cap Awaited \subseteq Awaited'
    BY <1>1, <1>2, <2>1 DEF Awaited
  <2> QED BY <1>1, <2>1, <2>2, <2>3, StillAwaited
<1>7. CASE view' = Failure(view, r, "error")
             /\ UNCHANGED <<shakeState, subscribed, writable, initialized>>
  BY <1>1, <1>2, <1>7, FailureAwaited DEF shakeState
<1> QED BY <1>1, <1>3, <1>4, <1>5, <1>6, <1>7

\* When the save has failed, or the link has gone, every dispatch that waited ends.
LEMMA ReleasedEnd ==
  ASSUME failed' \/ ~Connected,
         NEW E, NEW O, NEW K, NEW X, NEW v \in Views(E, O, K, X), NEW s \in Seq(Flushes),
         \A i \in DOMAIN s : s[i].n # 0
  PROVE  ReleaseAll(v, s) \in Views(E, O \ {s[i].n : i \in DOMAIN s}, K, X)
<1> DEFINE G == Views(E, O, K, X)
           A == {w \in Flushes : w.n # 0}
           Done(i) == {s[j].n : j \in 1..i}
<1>1. \A w \in A, x \in G : Released(w, x) \in G
  BY ReleasedView
<1>2. s \in Seq(A) /\ v \in G /\ \A i \in DOMAIN s : s[i] \in Flushes /\ s[i].n # 0
  OBVIOUS
<1> HIDE DEF G, A
<1>3. PICK h \in [0..Len(s) -> G] :
        /\ h[0] = v /\ h[Len(s)] = ReleaseAll(v, s)
        /\ \A i \in 1..Len(s) : h[i] = Released(s[i], h[i - 1])
  BY <1>1, <1>2, ReleaseSteps
<1>4. Len(s) \in Nat /\ DOMAIN s = 1..Len(s)
  OBVIOUS
<1> DEFINE S == {i \in Nat : i <= Len(s) => h[i] \in Views(E, O \ Done(i), K, X)}
<1>5. 0 \in S
  <2>1. O \ Done(0) = O
    OBVIOUS
  <2> QED BY <1>3, <2>1
<1>6. ASSUME NEW i \in Nat, i \in S
      PROVE  i + 1 \in S
  <2> SUFFICES ASSUME i + 1 <= Len(s)
               PROVE  h[i + 1] \in Views(E, O \ Done(i + 1), K, X)
    OBVIOUS
  <2> DEFINE w == s[i + 1]
             x == h[i]
             P == O \ Done(i)
  <2>1. i + 1 \in 1..Len(s) /\ i + 1 - 1 = i /\ w \in Flushes /\ w.n # 0
    BY <1>2, <1>4
  <2>2. x \in Views(E, P, K, X)
    BY <1>4, <1>6
  <2>3. h[i + 1] = Released(w, x)
    BY <1>3, <2>1
  <2>4. Done(i + 1) = Done(i) \cup {w.n}
    <3>1. 1..(i + 1) = (1..i) \cup {i + 1}
      OBVIOUS
    <3> QED BY <3>1
  <2>5. P \ {w.n} = O \ Done(i + 1)
    BY <2>4
  <2>6. w.n \in Numbers
    BY <2>1, ClientAssumption DEF Flushes, Numbers
  <2> HIDE DEF w, x, P, Done
  <2>7. Discard(x, w.uri, w.n, "lost") \in Views(E, P \ {w.n}, K, X)
    BY <2>2, <2>6, DiscardGood DEF Witnessed, Outcome
  <2> QED BY <2>3, <2>5, <2>7 DEF Released
<1>7. Len(s) \in S
  <2> HIDE DEF S
  <2> QED BY <1>4, <1>5, <1>6, Induction
<1>8. Done(Len(s)) = {s[i].n : i \in DOMAIN s}
  BY <1>4
<1>9. h[Len(s)] \in Views(E, O \ Done(Len(s)), K, X)
  BY <1>4, <1>7
<1> HIDE DEF Done
<1> QED BY <1>3, <1>8, <1>9

\* Otherwise each of them is sent.
LEMMA AllSent ==
  ASSUME ~(failed' \/ ~Connected), NEW s \in Seq(Flushes), \A i \in DOMAIN s : s[i].n # 0
  PROVE  \A i \in DOMAIN s : \E r \in Range(Sent(s)) : r.method = "dispatch" /\ r.n = s[i].n
<1> DEFINE I == {i \in DOMAIN s : s[i].n # 0}
           ds == Selected(s, I)
           rs == [i \in DOMAIN ds |-> DispatchRequest(nextId + i - 1, ds[i].uri, ds[i].n)]
<1>1. Sent(s) = rs
  BY DEF Sent
<1>2. I = DOMAIN s
  OBVIOUS
<1>3. I \in SUBSET (DOMAIN s)
  OBVIOUS
<1> HIDE DEF I
<1>4. \A i \in I : \E k \in DOMAIN ds : ds[k] = s[i]
  BY <1>3, SelectedTyped
<1> HIDE DEF ds
<1>5. \A k \in DOMAIN ds : rs[k] \in Range(rs)
  BY DEF Range
<1>6. \A k \in DOMAIN ds : rs[k].method = "dispatch" /\ rs[k].n = ds[k].n
  BY DEF DispatchRequest
<1> HIDE DEF rs
<1> QED BY <1>1, <1>2, <1>4, <1>5, <1>6

\* Those who wait for a later save are the same as before.
LEMMA SameCallers ==
  ASSUME Types, Len(saves) > 1
  PROVE  \A i \in DOMAIN flushing : \E k \in DOMAIN WaitAgain : WaitAgain[k].n = flushing[i].n
<1> DEFINE I == {i \in DOMAIN flushing : flushing[i].behind > 1}
           J == {i \in DOMAIN flushing : flushing[i].behind <= 1}
           later == Selected(flushing, I)
           woken == Selected(flushing, J)
           p == [i \in DOMAIN later |-> [later[i] EXCEPT !.behind = @ - 1]]
           q == [i \in DOMAIN woken |-> [woken[i] EXCEPT !.behind = Len(saves) - 1]]
<1>1. flushing \in Seq(Flushes)
  BY DEF Types, ClientTypes
<1>2. WaitAgain = p \o q
  BY DEF WaitAgain
<1>3. \A i \in DOMAIN flushing : i \in I \/ i \in J
  <2>1. \A i \in DOMAIN flushing : flushing[i].behind \in Nat
    BY <1>1 DEF Flushes
  <2> QED BY <2>1
<1>4. I \in SUBSET (DOMAIN flushing) /\ J \in SUBSET (DOMAIN flushing)
  OBVIOUS
<1> HIDE DEF I, J
<1>5. /\ later \in Seq(Flushes)
      /\ \A i \in I : \E k \in DOMAIN later : later[k] = flushing[i]
  BY <1>1, <1>4, SelectedTyped
<1>6. /\ woken \in Seq(Flushes)
      /\ \A i \in J : \E k \in DOMAIN woken : woken[k] = flushing[i]
  BY <1>1, <1>4, SelectedTyped
<1> HIDE DEF later, woken
<1>7. /\ p \in Seq([n : Int, uri : SomeUris, behind : Int]) /\ Len(p) = Len(later)
      /\ \A k \in DOMAIN later : p[k].n = later[k].n
  <2>1. DOMAIN later = 1..Len(later) /\ Len(later) \in Nat
    BY <1>5
  <2>2. \A k \in DOMAIN later : later[k] \in Flushes
    BY <1>5
  <2>3. \A k \in DOMAIN later :
          [later[k] EXCEPT !.behind = @ - 1] \in [n : Int, uri : SomeUris, behind : Int]
    BY <2>2, ClientAssumption DEF Flushes
  <2>4. \A k \in DOMAIN later : [later[k] EXCEPT !.behind = @ - 1].n = later[k].n
    BY <2>2 DEF Flushes
  <2> QED BY <2>1, <2>3, <2>4
<1>8. /\ q \in Seq([n : Int, uri : SomeUris, behind : Int]) /\ Len(q) = Len(woken)
      /\ \A k \in DOMAIN woken : q[k].n = woken[k].n
  <2>0. Len(saves) - 1 \in Int
    BY DEF Types, ClientTypes
  <2>1. DOMAIN woken = 1..Len(woken) /\ Len(woken) \in Nat
    BY <1>6
  <2>2. \A k \in DOMAIN woken : woken[k] \in Flushes
    BY <1>6
  <2>3. \A k \in DOMAIN woken : [woken[k] EXCEPT !.behind = Len(saves) - 1]
                                  \in [n : Int, uri : SomeUris, behind : Int]
    BY <2>0, <2>2, ClientAssumption DEF Flushes
  <2>4. \A k \in DOMAIN woken : [woken[k] EXCEPT !.behind = Len(saves) - 1].n = woken[k].n
    BY <2>2 DEF Flushes
  <2> QED BY <2>1, <2>3, <2>4
<1> HIDE DEF p, q
<1> DEFINE c == p \o q
<1>9. /\ \A k \in DOMAIN later : k \in DOMAIN c /\ c[k].n = later[k].n
      /\ \A k \in DOMAIN woken :
           Len(p) + k \in DOMAIN c /\ c[Len(p) + k].n = woken[k].n
  BY <1>5, <1>6, <1>7, <1>8
<1>10. WaitAgain = c
  BY <1>2
<1> HIDE DEF c
<1>11. ASSUME NEW i \in DOMAIN flushing
       PROVE  \E k \in DOMAIN c : c[k].n = flushing[i].n
  <2>1. CASE i \in I
    BY <1>5, <1>9, <2>1
  <2>2. CASE i \in J
    BY <1>6, <1>9, <2>2
  <2> QED BY <1>3, <2>1, <2>2
<1> QED BY <1>10, <1>11

\* The end of a save.
LEMMA SavesAwaited ==
  ASSUME Types, OpensAwaited, NEW ok \in BOOLEAN, SaveEnds(ok)
  PROVE  OpensAwaited'
<1>0. flushing \in Seq(Flushes) /\ view \in Views(Told, Opens(view), {}, {})
        /\ initialized' = initialized
  BY OwnOpens DEF Types, ClientTypes, SaveEnds
<1>1. CASE TearDown
  <2>1. Opens(view') = {}
    BY <1>1, TornDownView, OpenOnly
  <2> QED BY <1>1, <2>1, NothingOpen DEF TearDown
<1>2. CASE /\ \A i \in DOMAIN flushing : flushing[i].n # 0
           /\ view' = ReleaseAll(view, flushing)
           /\ waiting' = waiting \cup Range(Sent(flushing))
           /\ ready' = ready
  <2>1. \A r \in Range(Sent(flushing)) : r.method = "dispatch"
    <3>1. \A i \in DOMAIN Sent(flushing) : Sent(flushing)[i].method = "dispatch"
      BY DEF Sent, DispatchRequest
    <3> QED BY <3>1 DEF Range
  <2>2. Opens(view') \subseteq Opens(view)
    <3>1. view' \in Views(Told, Opens(view), {}, {})
      BY <1>0, <1>2, ReleasedViews
    <3> QED BY <3>1, OpenOnly
  <2>3. Opens(view') \cap Awaited \subseteq Awaited'
    <3>1. CASE failed' \/ ~Connected
      <4>1. view' \in Views(Told, Opens(view) \ {flushing[i].n : i \in DOMAIN flushing}, {}, {})
        BY <1>0, <1>2, <3>1, ReleasedEnd
      <4>2. Opens(view') \cap {flushing[i].n : i \in DOMAIN flushing} = {}
        BY <4>1, OpenOnly
      <4> QED BY <1>2, <4>2 DEF Awaited
    <3>2. CASE ~(failed' \/ ~Connected)
      <4>1. \A i \in DOMAIN flushing :
              \E r \in waiting' : r.method = "dispatch" /\ r.n = flushing[i].n
        BY <1>0, <1>2, <3>2, AllSent
      <4> QED BY <1>2, <4>1 DEF Awaited
    <3> QED BY <3>1, <3>2
  <2> QED BY <1>0, <1>2, <2>1, <2>2, <2>3, StillAwaited
<1>3. CASE /\ Len(saves) > 1 /\ flushing' = WaitAgain
           /\ UNCHANGED <<shakeState, waiting, view>>
  <2>1. Awaited \subseteq Awaited'
    <3>1. \A i \in DOMAIN flushing : \E k \in DOMAIN flushing' : flushing'[k].n = flushing[i].n
      BY <1>3, SameCallers
    <3> QED BY <1>3, <3>1 DEF Awaited
  <2> QED BY <1>0, <1>3, <2>1, StillAwaited DEF shakeState
<1>4. \/ TearDown
      \/ /\ \A i \in DOMAIN flushing : flushing[i].n # 0
         /\ view' = ReleaseAll(view, flushing)
         /\ waiting' = waiting \cup Range(Sent(flushing))
         /\ ready' = ready
      \/ /\ Len(saves) > 1 /\ flushing' = WaitAgain
         /\ UNCHANGED <<shakeState, waiting, view>>
  BY DEF SaveEnds, Flushed, ReleaseAll, shakeState
<1> QED BY <1>1, <1>2, <1>3, <1>4

\* Every step leaves somebody waiting for what is open.
LEMMA StepAwaited ==
  ASSUME Types, OpensAwaited, "rehello" \notin Habits, [Next]_vars
  PROVE  OpensAwaited'
<1>1. CASE UNCHANGED clientVars
  BY <1>1 DEF clientVars, callState, linkState, shakeState, saveState, OpensAwaited, Opens,
              Awaited
<1>2. CASE \/ \E us \in SUBSET Uris : Hello(us)
           \/ \E s \in Sockets : Reconnect(s)
           \/ \E u \in Uris : Subscribe(u)
           \/ \E u \in Uris : Unsubscribe(u)
           \/ \E u \in Uris : Dispatch(u)
           \/ Shutdown
  BY <1>2, CallsAwaited
<1>3. CASE ReceivePush
  <2> DEFINE e == Head(down[reader])
  <2>1. e \in Told /\ Told \in SUBSET Envelopes
    BY <1>3, IncomingTyped, ToldAreEnvelopes DEF ReceivePush, Types
  <2>2. /\ view' = Inbound(view, e) \/ view' = view
        /\ waiting' = waiting /\ UNCHANGED <<ready, initialized, flushing>>
    BY <1>3 DEF ReceivePush, callState, linkState
  <2> HIDE DEF e
  <2>3. view \in Views(Told, Opens(view), {}, {})
    BY OwnOpens DEF Types, ClientTypes
  <2>4. Inbound(view, e) \in Views(Told, Opens(view), {}, {})
    BY <2>1, <2>3, InboundGood
  <2>5. Opens(view') \subseteq Opens(view)
    BY <2>2, <2>3, <2>4, OpenOnly
  <2>6. Awaited' = Awaited
    BY <2>2 DEF Awaited
  <2> QED BY <2>2, <2>5, <2>6, StillAwaited
<1>4. CASE ReceiveAnswer
  BY <1>4, AnswersAwaited
<1>5. CASE EndOfStream
  <2>1. /\ waiting' = {} /\ view' = Failures(view, waiting, "transport")
        /\ ready' = FALSE /\ initialized' = initialized
    BY <1>5 DEF EndOfStream, linkState
  <2>2. Opens(view') \subseteq Opens(view)
    <3>1. waiting \in SUBSET Requests /\ IsFiniteSet(waiting)
            /\ view \in Views(Told, Opens(view), {}, {})
      BY OwnOpens DEF Types, ClientTypes, Issued
    <3>2. view' \in Views(Told, Opens(view), {}, {})
      BY <2>1, <3>1, FailuresGood
    <3> QED BY <3>2, OpenOnly
  <2> QED BY <2>1, <2>2, NobodyAwaits
<1>6. ASSUME NEW r \in waiting, Timeout(r)
      PROVE  OpensAwaited'
  BY <1>6, FailureAwaited DEF Timeout, linkState, shakeState
<1>7. ASSUME NEW ok \in BOOLEAN, SaveEnds(ok)
      PROVE  OpensAwaited'
  BY <1>7, SavesAwaited
<1>8. CASE Restore
  BY <1>8 DEF Restore, OpensAwaited
<1>9. CASE ReceiveLate
  BY <1>1, <1>9 DEF ReceiveLate
<1> QED BY <1>1, <1>2, <1>3, <1>4, <1>5, <1>6, <1>7, <1>8, <1>9 DEF Next, vars

\* While the link is up, somebody waits for every dispatch that has not ended, so that an
\* answer or a timer ends it, as long as hello is called once; what an earlier link left
\* open, the reconnect has settled, and what waits for a save is sent or given up with it.
THEOREM OpensAreAwaited ==
  ASSUME "rehello" \notin Habits
  PROVE  Spec => []OpenIsAwaited
<1>1. Init => OpensAwaited
  BY DEF Init, ClientInit, OpensAwaited, Opens, Numbers
<1>2. Types /\ OpensAwaited /\ [Next]_vars => OpensAwaited'
  BY StepAwaited
<1>3. OpensAwaited => OpenIsAwaited
  BY DEF OpensAwaited, OpenIsAwaited, Opens, Awaited, Numbers
<1> QED BY <1>1, <1>2, <1>3, SessionInvariance, PTL DEF Spec

-----------------------------------------------------------------------------
(* What the operators of Mirror do to copies. *)

\* Views of which no more is asked than that they are well typed.
Plain(E) == Views(E, Numbers, {}, Uris)

\* Two mirrors that differ at most in what is pending.
SameCopy(m, n) ==
  /\ n.confirmed = m.confirmed /\ n.applied = m.applied
  /\ n.primed = m.primed /\ n.buffered = m.buffered

\* Two views that differ at most in what is pending and in outcomes.
Same(v, w) ==
  /\ Known(w) = Known(v) /\ w.seen = v.seen
  /\ \A u \in Known(v) : SameCopy(v.mirrors[u], w.mirrors[u])

\* The parts of a plain view.
LEMMA PlainParts ==
  ASSUME NEW E, NEW v \in Plain(E)
  PROVE  /\ Known(v) \subseteq Uris /\ v.seen \in Nat
         /\ v.mirrors \in [Known(v) -> Mirrors(E)] /\ v.outcome \in [Numbers -> Outcome]
         /\ v = [mirrors |-> v.mirrors, seen |-> v.seen, outcome |-> v.outcome]
         /\ \A u \in Known(v) : /\ v.mirrors[u] \in Mirrors(E)
                                /\ v.mirrors[u].buffered \in Seq(For(E, u))
                                /\ v.mirrors[u].applied \in Nat
                                /\ v.mirrors[u].confirmed \in Seq(Int)
                                /\ v.mirrors[u].primed \in BOOLEAN
<1>1. Parts(v, E, Numbers, {}, Uris)
  BY ViewParts DEF Plain
<1> QED BY <1>1 DEF Parts, Mirrors

\* Good views are plain.
LEMMA ViewsArePlain ==
  ASSUME NEW E, NEW O, O \subseteq Numbers, NEW K, NEW X, X \subseteq Uris
  PROVE  Views(E, O, K, X) \subseteq Plain(E)
BY ViewsMonotone DEF Plain

\* Copies that stay the same twice stay the same.
LEMMA SameTransitive ==
  ASSUME NEW v, NEW w, NEW x, Same(v, w), Same(w, x)
  PROVE  Same(v, x)
BY DEF Same, SameCopy

\* A mirror of a plain view is replaced.
LEMMA PlainChanged ==
  ASSUME NEW E, NEW v \in Plain(E), NEW u \in Known(v), NEW m \in Mirrors(E),
         m.buffered \in Seq(For(E, u))
  PROVE  LET w == [v EXCEPT !.mirrors[u] = m]
         IN  /\ w \in Plain(E)
             /\ Known(w) = Known(v) /\ w.outcome = v.outcome /\ w.seen = v.seen
             /\ w.mirrors[u] = m
             /\ \A t \in Known(v) \ {u} : w.mirrors[t] = v.mirrors[t]
<1>1. u \in Uris
  BY PlainParts
<1>2. [v EXCEPT !.mirrors[u] = m] \in Views(E, Numbers, {}, Uris)
  BY <1>1, MirrorChanged DEF Plain
<1>3. /\ v = [mirrors |-> v.mirrors, seen |-> v.seen, outcome |-> v.outcome]
      /\ v.mirrors \in [Known(v) -> Mirrors(E)] /\ u \in Known(v)
  BY PlainParts
<1> DEFINE w == [v EXCEPT !.mirrors[u] = m]
<1>4. w = [mirrors |-> [v.mirrors EXCEPT ![u] = m], seen |-> v.seen, outcome |-> v.outcome]
  BY <1>3
<1>5. /\ Known(w) = Known(v) /\ w.outcome = v.outcome /\ w.seen = v.seen
      /\ w.mirrors[u] = m
      /\ \A t \in Known(v) \ {u} : w.mirrors[t] = v.mirrors[t]
  BY <1>3, <1>4 DEF Known
<1> QED BY <1>2, <1>5 DEF Plain

\* ... by one that differs in what is pending only.
LEMMA PlainSame ==
  ASSUME NEW E, NEW v \in Plain(E), NEW u \in Known(v), NEW m \in Mirrors(E),
         SameCopy(v.mirrors[u], m)
  PROVE  LET w == [v EXCEPT !.mirrors[u] = m]
         IN  /\ w \in Plain(E) /\ Same(v, w) /\ w.outcome = v.outcome
             /\ w.mirrors[u] = m
             /\ \A t \in Known(v) \ {u} : w.mirrors[t] = v.mirrors[t]
<1>1. m.buffered \in Seq(For(E, u))
  <2>1. v.mirrors[u].buffered \in Seq(For(E, u))
    BY PlainParts
  <2> QED BY <2>1 DEF SameCopy
<1> DEFINE w == [v EXCEPT !.mirrors[u] = m]
<1>2. /\ w \in Plain(E)
      /\ Known(w) = Known(v) /\ w.outcome = v.outcome /\ w.seen = v.seen
      /\ w.mirrors[u] = m
      /\ \A t \in Known(v) \ {u} : w.mirrors[t] = v.mirrors[t]
  BY <1>1, PlainChanged
<1> HIDE DEF w
<1>3. Same(v, w)
  BY <1>2 DEF Same, SameCopy
<1> QED BY <1>2, <1>3 DEF w

\* A mirror whose optimistic state is computed anew is the same copy, with the same pending
\* actions.
LEMMA RestateSame ==
  ASSUME NEW E, NEW v \in Plain(E), NEW u \in Known(v)
  PROVE  /\ Restate(v, u) \in Plain(E) /\ Same(v, Restate(v, u))
         /\ Restate(v, u).outcome = v.outcome
         /\ \A t \in Known(v) : Restate(v, u).mirrors[t].pending = v.mirrors[t].pending
<1> DEFINE m == v.mirrors[u]
           w == [v EXCEPT !.mirrors[u] = Restated(m)]
<1>1. m \in Mirrors(E)
  BY PlainParts
<1>2. Restated(m) \in Mirrors(E) /\ SameCopy(m, Restated(m)) /\ Restated(m).pending = m.pending
  <2>1. Restated(m) \in Mirrors(E)
    BY <1>1, RestatedTyped
  <2> HIDE DEF m
  <2>2. m.confirmed \o m.pending = m.confirmed \o m.pending
    OBVIOUS
  <2>3. SameCopy(m, Restated(m)) /\ Restated(m).pending = m.pending
    BY <1>1 DEF Restated, SameCopy, Mirrors
  <2> QED BY <2>1, <2>3
<1>3. /\ w \in Plain(E) /\ Same(v, w) /\ w.outcome = v.outcome /\ w.mirrors[u] = Restated(m)
      /\ \A t \in Known(v) \ {u} : w.mirrors[t] = v.mirrors[t]
  BY <1>2, PlainSame
<1>4. Restate(v, u) = w
  BY DEF Restate
<1> HIDE DEF w
<1> QED BY <1>2, <1>3, <1>4

\* The ends of several dispatches leave the mirrors alone ...
LEMMA SettleAllSame ==
  ASSUME NEW E, NEW v \in Plain(E), NEW ns, NEW outcome \in Outcome \ {"open"},
         \A n \in ns \cap Numbers : Witnessed(E, n, outcome)
  PROVE  /\ SettleAll(v, ns, outcome) \in Plain(E) /\ Same(v, SettleAll(v, ns, outcome))
         /\ SettleAll(v, ns, outcome).mirrors = v.mirrors
<1> DEFINE w == SettleAll(v, ns, outcome)
<1>1. /\ w \in Views(E, Numbers \ ns, {}, Uris) /\ w.mirrors = v.mirrors
      /\ Known(w) = Known(v)
  BY SettleAllGood DEF Plain
<1>2. w.seen = v.seen
  <2>1. v = [mirrors |-> v.mirrors, seen |-> v.seen, outcome |-> v.outcome]
    BY PlainParts
  <2> QED BY <2>1 DEF SettleAll
<1> HIDE DEF w
<1>3. w \in Plain(E)
  BY <1>1, ViewsArePlain
<1>4. Same(v, w)
  BY <1>1, <1>2 DEF Same, SameCopy
<1> QED BY <1>1, <1>3, <1>4 DEF w

\* ... and so does the end of one.
LEMMA SettleSame ==
  ASSUME NEW E, NEW v \in Plain(E), NEW n \in Numbers, NEW outcome \in Outcome \ {"open"},
         Witnessed(E, n, outcome)
  PROVE  /\ Settle(v, n, outcome) \in Plain(E) /\ Same(v, Settle(v, n, outcome))
         /\ Settle(v, n, outcome).mirrors = v.mirrors
<1> DEFINE w == Settle(v, n, outcome)
<1>1. /\ w \in Views(E, Numbers \ {n}, {}, Uris) /\ w.mirrors = v.mirrors
  BY SettleGood DEF Plain
<1>2. w.seen = v.seen
  <2>1. v = [mirrors |-> v.mirrors, seen |-> v.seen, outcome |-> v.outcome]
    BY PlainParts
  <2> QED BY <2>1 DEF Settle
<1> HIDE DEF w
<1>3. w \in Plain(E)
  BY <1>1, ViewsArePlain
<1>4. Same(v, w)
  BY <1>1, <1>2 DEF Same, SameCopy, Known
<1> QED BY <1>1, <1>3, <1>4 DEF w

\* Pending actions that are given up change no copy ...
LEMMA LoseSame ==
  ASSUME NEW E, NEW v \in Plain(E), NEW u \in Known(v)
  PROVE  Lose(v, u) \in Plain(E) /\ Same(v, Lose(v, u))
<1> DEFINE w == SettleAll(v, Range(v.mirrors[u].pending), "lost")
           m == [v.mirrors[u] EXCEPT !.pending = << >>]
           x == [w EXCEPT !.mirrors[u] = m]
<1>1. "lost" \in Outcome \ {"open"} /\ \A n : Witnessed(E, n, "lost")
  BY DEF Witnessed, Outcome
<1>2. w \in Plain(E) /\ Same(v, w) /\ w.mirrors = v.mirrors
  BY <1>1, SettleAllSame
<1>3. u \in Known(w) /\ v.mirrors[u] \in Mirrors(E)
  BY <1>2, PlainParts DEF Same
<1> HIDE DEF w
<1>4. m \in Mirrors(E) /\ SameCopy(w.mirrors[u], m)
  <2>1. << >> \in Seq(Numbers)
    OBVIOUS
  <2> QED BY <1>2, <1>3, <2>1 DEF Mirrors, SameCopy
<1> HIDE DEF m
<1>5. x \in Plain(E) /\ Same(w, x)
  BY <1>2, <1>3, <1>4, PlainSame
<1>6. Lose(v, u) = x
  BY <1>2 DEF Lose, w, m
<1> HIDE DEF x
<1> QED BY <1>2, <1>5, <1>6, SameTransitive

\* ... nor does one that is answered ...
LEMMA DiscardSame ==
  ASSUME NEW E, NEW v \in Plain(E), NEW u, NEW n \in Numbers,
         NEW outcome \in Outcome \ {"open"}, Witnessed(E, n, outcome)
  PROVE  Discard(v, u, n, outcome) \in Plain(E) /\ Same(v, Discard(v, u, n, outcome))
<1>1. CASE u \notin Known(v)
  BY <1>1, SettleSame DEF Discard
<1>2. CASE u \in Known(v)
  <2> DEFINE p == v.mirrors[u].pending
             m == [v.mirrors[u] EXCEPT !.pending = Without(p, n)]
             w == [v EXCEPT !.mirrors[u] = m]
             x == Settle(w, n, outcome)
  <2>1. v.mirrors[u] \in Mirrors(E)
    BY <1>2, PlainParts
  <2>2. m \in Mirrors(E) /\ SameCopy(v.mirrors[u], m)
    <3>1. p \in Seq(Numbers)
      BY <2>1 DEF Mirrors
    <3>2. Without(p, n) \in Seq(Numbers)
      BY <3>1, SelectedTyped DEF Without
    <3> QED BY <2>1, <3>2 DEF Mirrors, SameCopy
  <2>3. Discard(v, u, n, outcome) = Restate(x, u)
    <3>1. Discard(v, u, n, outcome)
            = Restate(Settle([v EXCEPT !.mirrors[u].pending = Without(@, n)], n, outcome), u)
      BY <1>2 DEF Discard
    <3> QED BY <3>1
  <2> HIDE DEF m
  <2>4. w \in Plain(E) /\ Same(v, w)
    BY <1>2, <2>2, PlainSame
  <2> HIDE DEF w
  <2>5. x \in Plain(E) /\ Same(w, x)
    BY <2>4, SettleSame
  <2> HIDE DEF x
  <2>6. u \in Known(x)
    BY <1>2, <2>4, <2>5 DEF Same
  <2>7. Restate(x, u) \in Plain(E) /\ Same(x, Restate(x, u))
    BY <2>5, <2>6, RestateSame
  <2>8. Same(v, x)
    BY <2>4, <2>5, SameTransitive
  <2> QED BY <2>3, <2>7, <2>8, SameTransitive
<1> QED BY <1>1, <1>2

\* ... nor do those that an own envelope decides.
LEMMA EchoSame ==
  ASSUME NEW E \in SUBSET Envelopes, NEW v \in Plain(E), NEW e \in E, e.uri \in Known(v)
  PROVE  Echo(v, e) \in Plain(E) /\ Same(v, Echo(v, e))
<1> DEFINE u == e.uri
           p == v.mirrors[u].pending
           earlier == {n \in Range(p) : n < e.n}
           w1 == SettleAll(v, earlier, "lost")
           w == SettleAll(w1, Range(p) \cap {e.n}, OutcomeOf(e))
           I == {i \in DOMAIN p : p[i] > e.n}
           m == [v.mirrors[u] EXCEPT !.pending = Selected(p, I)]
           x == [w EXCEPT !.mirrors[u] = m]
<1>1. w1 \in Plain(E) /\ Same(v, w1) /\ w1.mirrors = v.mirrors
  <2>1. \A n : Witnessed(E, n, "lost")
    BY DEF Witnessed
  <2>2. "lost" \in Outcome \ {"open"}
    BY DEF Outcome
  <2> QED BY <2>1, <2>2, SettleAllSame
<1> HIDE DEF w1
<1>2. w \in Plain(E) /\ Same(w1, w) /\ w.mirrors = w1.mirrors
  <2>1. OutcomeOf(e) \in Outcome \ {"open"} /\ e.accepted = (OutcomeOf(e) = "confirmed")
    BY DEF Outcome, OutcomeOf, Envelopes
  <2>2. Witnessed(E, e.n, OutcomeOf(e))
    BY <2>1 DEF Witnessed
  <2> DEFINE ns == Range(p) \cap {e.n}
  <2>3. \A n \in ns \cap Numbers : Witnessed(E, n, OutcomeOf(e))
    BY <2>2
  <2> HIDE DEF ns
  <2>4. LET y == SettleAll(w1, ns, OutcomeOf(e))
        IN  y \in Plain(E) /\ Same(w1, y) /\ y.mirrors = w1.mirrors
    BY <1>1, <2>1, <2>3, SettleAllSame
  <2> QED BY <2>4 DEF ns
<1>3. v.mirrors[u] \in Mirrors(E)
  BY PlainParts
<1>4. Selected(p, I) \in Seq(Numbers)
  <2>1. p \in Seq(Numbers) /\ I \in SUBSET (DOMAIN p)
    BY <1>3 DEF Mirrors
  <2> HIDE DEF p, I
  <2> QED BY <2>1, SelectedTyped
<1>5. m \in Mirrors(E) /\ SameCopy(v.mirrors[u], m)
  <2> HIDE DEF I
  <2> QED BY <1>3, <1>4 DEF Mirrors, SameCopy
<1>6. Echo(v, e) = x
  <2>1. w.mirrors[u] = v.mirrors[u]
    BY <1>1, <1>2
  <2>2. Echo(v, e) = [w EXCEPT !.mirrors[u].pending =
                        Selected(w.mirrors[u].pending,
                          {i \in DOMAIN w.mirrors[u].pending : w.mirrors[u].pending[i] > e.n})]
    BY DEF Echo, w1
  <2> HIDE DEF w
  <2> QED BY <2>1, <2>2
<1> HIDE DEF w, m
<1>7. u \in Known(w) /\ w.mirrors[u] = v.mirrors[u]
  BY <1>1, <1>2 DEF Same
<1>8. x \in Plain(E) /\ Same(w, x)
  BY <1>2, <1>5, <1>7, PlainSame
<1>9. Same(v, w)
  BY <1>1, <1>2, SameTransitive
<1> HIDE DEF x
<1> QED BY <1>6, <1>8, <1>9, SameTransitive

-----------------------------------------------------------------------------
(* What a channel's state is as of a sequence. *)

\* A selection looks at no position outside it.
LEMMA SelectedAlike ==
  ASSUME NEW s, NEW t, NEW n \in Nat, NEW I \in SUBSET (1..n),
         \A i \in I : s[i] = t[i]
  PROVE  Selected(s, I) = Selected(t, I)
<1> DEFINE c == Cardinality(I)
           at(k) == CHOOSE i \in I : Rank(I, i) = k
<1>1. \A k \in 1..c : \E i \in I : Rank(I, i) = k
  BY Ranking
<1>2. \A k \in 1..c : at(k) \in I
  BY <1>1
<1>3. Selected(s, I) = [k \in 1..c |-> s[at(k)]] /\ Selected(t, I) = [k \in 1..c |-> t[at(k)]]
  BY DEF Selected, Rank
<1> HIDE DEF at
<1> QED BY <1>2, <1>3

\* A sequence with one more element at its end, as a function.
LEMMA AppendIs ==
  ASSUME NEW A, NEW q \in Seq(A), NEW x
  PROVE  Append(q, x) = [k \in 1..(Len(q) + 1) |-> IF k = Len(q) + 1 THEN x ELSE q[k]]
<1> DEFINE y == Append(q, x)
           B == A \cup {x}
<1>1. q \in Seq(B) /\ x \in B /\ Len(q) \in Nat
  BY SeqMonotone
<1> HIDE DEF B
<1>2. y \in Seq(B) /\ Len(y) = Len(q) + 1
  BY <1>1
<1>3. y[Len(q) + 1] = x /\ \A k \in 1..Len(q) : y[k] = q[k]
  BY <1>1
<1> HIDE DEF y
<1>4. y = [k \in 1..Len(y) |-> y[k]]
  BY <1>2
<1>5. \A k \in 1..(Len(q) + 1) : y[k] = IF k = Len(q) + 1 THEN x ELSE q[k]
  BY <1>1, <1>3
<1> QED BY <1>2, <1>4, <1>5 DEF y

\* One more position after all others is one more element at the end.
LEMMA SelectedNext ==
  ASSUME NEW A, NEW s \in Seq(A), NEW I \in SUBSET (DOMAIN s), NEW m \in DOMAIN s,
         \A i \in I : i < m
  PROVE  Selected(s, I \cup {m}) = Append(Selected(s, I), s[m])
<1> DEFINE J == I \cup {m}
           c == Cardinality(I)
<1>1. Len(s) \in Nat /\ DOMAIN s = 1..Len(s)
  OBVIOUS
<1>2. I \in SUBSET (1..Len(s)) /\ J \in SUBSET (1..Len(s)) /\ m \in Nat /\ m \notin I
  BY <1>1
<1>3. IsFiniteSet(I) /\ c \in Nat
  BY <1>1, <1>2, Ranking
<1>4. Cardinality(J) = c + 1
  BY <1>2, <1>3, FS_AddElement
<1>5. ASSUME NEW i \in I PROVE Rank(J, i) = Rank(I, i)
  <2>1. i \in Nat /\ \A j \in I : j \in Nat
    BY <1>2
  <2>2. {j \in J : j <= i} = {j \in I : j <= i}
    BY <1>2, <2>1
  <2> QED BY <2>2 DEF Rank
<1>6. Rank(J, m) = c + 1
  <2>1. {j \in J : j <= m} = J
    BY <1>2
  <2> QED BY <1>4, <2>1 DEF Rank
<1>7. \A i \in I : Rank(I, i) \in 1..c
  BY <1>1, <1>2, Ranking
<1>8. \A k \in 1..c : \E i \in I : Rank(I, i) = k
  BY <1>1, <1>2, Ranking
<1>9. \A i, j \in I : i < j => Rank(I, i) < Rank(I, j)
  BY <1>1, <1>2, Ranking
<1>10. \A i, j \in I : Rank(I, i) = Rank(I, j) => i = j
  <2> TAKE i \in I, j \in I
  <2>1. i \in Nat /\ j \in Nat
    BY <1>2
  <2>2. Rank(I, i) \in Int /\ Rank(I, j) \in Int
    BY <1>7
  <2>3. i < j => Rank(I, i) < Rank(I, j)
    BY <1>9
  <2>4. j < i => Rank(I, j) < Rank(I, i)
    BY <1>9
  <2> QED BY <2>1, <2>2, <2>3, <2>4
<1> DEFINE atI(k) == CHOOSE i \in I : Rank(I, i) = k
           atJ(k) == CHOOSE i \in J : Rank(J, i) = k
<1>11. ASSUME NEW k \in 1..c PROVE atJ(k) = atI(k) /\ atI(k) \in I
  <2>1. atI(k) \in I /\ Rank(I, atI(k)) = k
    BY <1>8
  <2>2. atI(k) \in J /\ Rank(J, atI(k)) = k
    BY <1>5, <2>1
  <2>3. atJ(k) \in J /\ Rank(J, atJ(k)) = k
    BY <2>2
  <2>4. atJ(k) # m
    <3>1. k # c + 1
      BY <1>3
    <3> HIDE DEF atJ, c
    <3> QED BY <1>6, <2>3, <3>1
  <2>5. atJ(k) \in I /\ Rank(I, atJ(k)) = k
    BY <1>5, <2>3, <2>4
  <2> HIDE DEF atI, atJ
  <2> QED BY <1>10, <2>1, <2>5
<1>12. atJ(c + 1) = m
  <2>1. m \in J /\ Rank(J, m) = c + 1
    BY <1>6
  <2>2. atJ(c + 1) \in J /\ Rank(J, atJ(c + 1)) = c + 1
    BY <2>1
  <2>3. atJ(c + 1) \notin I
    <3> SUFFICES ASSUME atJ(c + 1) \in I PROVE FALSE
      OBVIOUS
    <3>1. Rank(I, atJ(c + 1)) \in 1..c
      BY <1>7
    <3>2. Rank(I, atJ(c + 1)) = c + 1
      BY <1>5, <2>2
    <3> QED BY <1>3, <3>1, <3>2
  <2> QED BY <2>2, <2>3
<1>13. Selected(s, I) = [k \in 1..c |-> s[atI(k)]]
  BY DEF Selected, Rank
<1>14. Selected(s, J) = [k \in 1..(c + 1) |-> s[atJ(k)]]
  BY <1>4 DEF Selected, Rank
<1> HIDE DEF atI, atJ, J, c
<1> DEFINE q == [k \in 1..c |-> s[atI(k)]]
<1>15. q \in Seq(A) /\ Len(q) = c /\ s[m] \in A
  BY <1>3, <1>11
<1>16. \A k \in 1..c : q[k] = s[atI(k)]
  OBVIOUS
<1> HIDE DEF q
<1>17. Append(q, s[m]) = [k \in 1..(c + 1) |-> IF k = c + 1 THEN s[m] ELSE q[k]]
  BY <1>15, AppendIs
<1>18. \A k \in 1..(c + 1) : (IF k = c + 1 THEN s[m] ELSE q[k]) = s[atJ(k)]
  BY <1>3, <1>11, <1>12, <1>16
<1> DEFINE x == s[m]
<1>19. Append(q, s[m]) = [k \in 1..(c + 1) |-> s[atJ(k)]]
  <2>1. Append(q, x) = [k \in 1..(c + 1) |-> IF k = c + 1 THEN x ELSE q[k]]
    BY <1>17
  <2> HIDE DEF x
  <2> QED BY <1>18, <2>1 DEF x
<1> QED BY <1>13, <1>14, <1>19 DEF q, J

\* One more envelope is one more action, if it was accepted.
LEMMA ReducedNext ==
  ASSUME NEW s \in Seq(Envelopes), NEW e \in Envelopes
  PROVE  Reduced(Append(s, e)) = IF e.accepted THEN Append(Reduced(s), Tag(e)) ELSE Reduced(s)
<1> DEFINE t == Append(s, e)
           I == {i \in DOMAIN s : s[i].accepted}
           J == {i \in DOMAIN t : t[i].accepted}
           m == Len(s) + 1
<1>1. /\ t \in Seq(Envelopes) /\ Len(s) \in Nat /\ DOMAIN s = 1..Len(s) /\ DOMAIN t = 1..m
      /\ t[m] = e /\ \A i \in 1..Len(s) : t[i] = s[i]
  OBVIOUS
<1> HIDE DEF t
<1>2. J = IF e.accepted THEN I \cup {m} ELSE I
  BY <1>1
<1>3. I \in SUBSET (1..Len(s)) /\ \A i \in I : t[i] = s[i]
  BY <1>1
<1>4. Selected(t, I) = Selected(s, I)
  <2> HIDE DEF I
  <2> QED BY <1>1, <1>3, SelectedAlike
<1>5. m \in DOMAIN t /\ I \in SUBSET (DOMAIN t) /\ \A i \in I : i < m
  BY <1>1
<1>6. Selected(t, I \cup {m}) = Append(Selected(t, I), t[m])
  <2> HIDE DEF I, m
  <2> QED BY <1>1, <1>5, SelectedNext
<1>7. Reduced(t) = [k \in DOMAIN Selected(t, J) |-> Tag(Selected(t, J)[k])]
  BY DEF Reduced
<1>8. Reduced(s) = [k \in DOMAIN Selected(s, I) |-> Tag(Selected(s, I)[k])]
  BY DEF Reduced
<1>9. I \in SUBSET (DOMAIN s)
  OBVIOUS
<1>10. Selected(s, I) \in Seq(Envelopes)
  <2> HIDE DEF I
  <2> QED BY <1>9, SelectedTyped
<1> HIDE DEF I, J
<1>11. CASE ~e.accepted
  <2>1. Selected(t, J) = Selected(s, I)
    BY <1>2, <1>4, <1>11
  <2> QED BY <1>7, <1>8, <1>11, <2>1 DEF t
<1>12. CASE e.accepted
  <2> DEFINE q == Selected(s, I)
             r == [k \in DOMAIN q |-> Tag(q[k])]
  <2>1. Selected(t, J) = Append(q, e)
    BY <1>1, <1>2, <1>4, <1>6, <1>12
  <2> HIDE DEF q
  <2>2. q \in Seq(Envelopes)
    BY <1>10 DEF q
  <2>3. Len(q) \in Nat /\ DOMAIN q = 1..Len(q)
    BY <2>2
  <2>4. [k \in DOMAIN Append(q, e) |-> Tag(Append(q, e)[k])] = Append(r, Tag(e))
    <3>1. DOMAIN Append(q, e) = 1..(Len(q) + 1)
      BY <2>2
    <3>2. \A k \in 1..Len(q) : Append(q, e)[k] = q[k]
      BY <2>2
    <3>3. Append(q, e)[Len(q) + 1] = e
      BY <2>2
    <3>4. r \in Seq({Tag(q[k]) : k \in DOMAIN q}) /\ Len(r) = Len(q)
      BY <2>3
    <3>5. \A k \in 1..Len(q) : r[k] = Tag(q[k])
      BY <2>3
    <3> DEFINE x == Append(q, e)
               l == [k \in 1..(Len(q) + 1) |-> Tag(x[k])]
               y == Append(r, Tag(e))
    <3>6. y = [k \in 1..(Len(q) + 1) |-> IF k = Len(q) + 1 THEN Tag(e) ELSE r[k]]
      <4> HIDE DEF r
      <4> QED BY <3>4, AppendIs
    <3> HIDE DEF x, r, y
    <3>7. \A k \in 1..(Len(q) + 1) : Tag(x[k]) = IF k = Len(q) + 1 THEN Tag(e) ELSE r[k]
      <4> TAKE k \in 1..(Len(q) + 1)
      <4>1. CASE k = Len(q) + 1
        BY <3>3, <4>1 DEF x
      <4>2. CASE k # Len(q) + 1
        <5>1. k \in 1..Len(q)
          BY <2>3, <4>2
        <5> QED BY <3>2, <3>5, <4>2, <5>1 DEF x
      <4> QED BY <4>1, <4>2
    <3>8. l = y
      BY <3>6, <3>7
    <3> QED BY <3>1, <3>8 DEF x, y
  <2>5. Reduced(t) = [k \in DOMAIN Append(q, e) |-> Tag(Append(q, e)[k])]
    BY <1>7, <2>1
  <2>6. Reduced(s) = r
    BY <1>8 DEF q
  <2> HIDE DEF r
  <2> QED BY <1>12, <2>4, <2>5, <2>6 DEF t
<1> QED BY <1>11, <1>12

\* The envelopes of a channel after one sequence and up to another.
Between(u, a, b) == {e \in Told : e.uri = u /\ a < e.seq /\ e.seq <= b}

\* The log, as the type invariant has it.
LEMMA LogTyped ==
  ASSUME HubTypes
  PROVE  /\ log \in Seq(Envelopes) /\ Len(log) \in Nat /\ DOMAIN log = 1..Len(log)
         /\ \A i \in DOMAIN log : log[i].seq = i /\ log[i] \in Envelopes /\ log[i] \in Told
         /\ \A e \in Told : e \in Envelopes /\ e.seq \in 1..Len(log) /\ log[e.seq] = e
         /\ Told \subseteq Envelopes
<1>1. log \in Seq(Envelopes) /\ \A i \in DOMAIN log : log[i].seq = i
  BY DEF HubTypes
<1>2. Len(log) \in Nat /\ DOMAIN log = 1..Len(log)
  BY <1>1
<1>3. \A i \in DOMAIN log : log[i] \in Envelopes /\ log[i] \in Told
  BY <1>1, <1>2 DEF Told
<1>4. \A e \in Told : \E i \in DOMAIN log : e = log[i]
  BY DEF Told
<1>5. \A e \in Told : e \in Envelopes /\ e.seq \in 1..Len(log) /\ log[e.seq] = e
  BY <1>1, <1>2, <1>3, <1>4
<1> QED BY <1>1, <1>2, <1>3, <1>5

\* The state does not change where nothing is committed.
LEMMA StateUnchanged ==
  ASSUME HubTypes, NEW u, NEW a \in Int, NEW b \in Int, a <= b, Between(u, a, b) = {}
  PROVE  StateAt(log, u, a) = StateAt(log, u, b)
<1> DEFINE I(x) == {i \in DOMAIN log : log[i].uri = u /\ log[i].seq <= x}
<1>1. I(a) = I(b)
  <2>1. \A i \in DOMAIN log : log[i] \in Told /\ log[i].seq = i /\ i \in Int
    BY LogTyped
  <2>2. ASSUME NEW i \in DOMAIN log PROVE i \in I(a) <=> i \in I(b)
    <3>1. log[i] \notin Between(u, a, b)
      OBVIOUS
    <3> QED BY <2>1, <3>1 DEF Between
  <2> QED BY <2>2
<1> HIDE DEF I
<1>2. StateAt(log, u, a) = Reduced(Selected(log, I(a)))
  BY DEF StateAt, I
<1>3. StateAt(log, u, b) = Reduced(Selected(log, I(b)))
  BY DEF StateAt, I
<1> QED BY <1>1, <1>2, <1>3

\* The next envelope of a channel takes its state one action further.
LEMMA StateNext ==
  ASSUME HubTypes, NEW e \in Told, NEW a \in Int, a < e.seq, Between(e.uri, a, e.seq) \subseteq {e}
  PROVE  StateAt(log, e.uri, e.seq) =
           IF e.accepted THEN Append(StateAt(log, e.uri, a), Tag(e))
                         ELSE StateAt(log, e.uri, a)
<1> DEFINE u == e.uri
           m == e.seq
           I(x) == {i \in DOMAIN log : log[i].uri = u /\ log[i].seq <= x}
           s == Selected(log, I(a))
<1>1. m \in DOMAIN log /\ log[m] = e /\ e \in Envelopes /\ log \in Seq(Envelopes) /\ m \in Int
  BY LogTyped
<1>2. \A i \in DOMAIN log : log[i] \in Told /\ log[i].seq = i /\ i \in Int
  BY LogTyped
<1>3. I(m) = I(a) \cup {m}
  <2>1. ASSUME NEW i \in DOMAIN log PROVE i \in I(m) <=> i \in I(a) \cup {m}
    <3>1. log[i] \in Between(u, a, m) => i = m
      BY <1>1, <1>2
    <3>2. log[i] \in Between(u, a, m) <=> log[i].uri = u /\ a < i /\ i <= m
      BY <1>2 DEF Between
    <3>3. i \in I(m) <=> log[i].uri = u /\ i <= m
      BY <1>2
    <3>4. i \in I(a) <=> log[i].uri = u /\ i <= a
      BY <1>2
    <3>5. i = m => log[i].uri = u
      BY <1>1
    <3> HIDE DEF I, u, m
    <3>6. i \in Int /\ m \in Int /\ a < m
      BY <1>1, <1>2 DEF m
    <3> QED BY <3>1, <3>2, <3>3, <3>4, <3>5, <3>6
  <2>2. I(m) \subseteq DOMAIN log /\ I(a) \cup {m} \subseteq DOMAIN log
    BY <1>1
  <2> QED BY <2>1, <2>2
<1>4. I(a) \in SUBSET (DOMAIN log) /\ \A i \in I(a) : i < m
  BY <1>1, <1>2
<1>5. Selected(log, I(m)) = Append(s, e)
  <2> HIDE DEF I, m
  <2>1. Selected(log, I(a) \cup {m}) = Append(Selected(log, I(a)), log[m])
    BY <1>1, <1>4, SelectedNext
  <2> QED BY <1>1, <1>3, <2>1
<1>6. s \in Seq(Envelopes)
  <2> HIDE DEF I
  <2> QED BY <1>1, <1>4, SelectedTyped
<1>7. StateAt(log, u, m) = Reduced(Selected(log, I(m))) /\ StateAt(log, u, a) = Reduced(s)
  BY DEF StateAt
<1> HIDE DEF I, s, u, m
<1>8. Reduced(Append(s, e)) = IF e.accepted THEN Append(Reduced(s), Tag(e)) ELSE Reduced(s)
  BY <1>1, <1>6, ReducedNext
<1> QED BY <1>5, <1>7, <1>8 DEF u, m

\* What was the state stays so while the log grows.
LEMMA StateStays ==
  ASSUME HubTypes, NEW e, NEW u, NEW a \in Int, a <= Len(log)
  PROVE  StateAt(Append(log, e), u, a) = StateAt(log, u, a) \/ e.seq <= a
<1> SUFFICES ASSUME ~(e.seq <= a) PROVE StateAt(Append(log, e), u, a) = StateAt(log, u, a)
  OBVIOUS
<1> DEFINE t == Append(log, e)
           I(l) == {i \in DOMAIN l : l[i].uri = u /\ l[i].seq <= a}
<1>1. log \in Seq(Envelopes) /\ Len(log) \in Nat /\ DOMAIN log = 1..Len(log)
  BY LogTyped
<1>2. DOMAIN t = 1..(Len(log) + 1) /\ t[Len(log) + 1] = e /\ \A i \in DOMAIN log : t[i] = log[i]
  BY <1>1
<1> HIDE DEF t
<1>3. I(t) = I(log)
  BY <1>1, <1>2
<1>4. I(log) \in SUBSET (1..Len(log)) /\ \A i \in I(log) : t[i] = log[i]
  BY <1>1, <1>2
<1>5. StateAt(t, u, a) = Reduced(Selected(t, I(t))) /\ StateAt(log, u, a) = Reduced(Selected(log, I(log)))
  BY DEF StateAt
<1> HIDE DEF I
<1>6. Selected(t, I(log)) = Selected(log, I(log))
  BY <1>1, <1>4, SelectedAlike
<1> QED BY <1>3, <1>5, <1>6 DEF t

-----------------------------------------------------------------------------
(* What envelopes do to copies. *)

\* A mirror of channel u that shows the state as of the sequence applied to it.
Copied(m, u) == m.confirmed = StateAt(log, u, m.applied) /\ m.applied <= Len(log)

\* What an envelope for a channel with a mirror does.
MovedBy(v, w, e) ==
  /\ Known(w) = Known(v)
  /\ \A t \in Known(v) \ {e.uri} : SameCopy(v.mirrors[t], w.mirrors[t])
  /\ w.mirrors[e.uri].primed = v.mirrors[e.uri].primed
  /\ w.mirrors[e.uri].buffered = v.mirrors[e.uri].buffered
  /\ e.seq <= v.mirrors[e.uri].applied =>
       SameCopy(v.mirrors[e.uri], w.mirrors[e.uri]) /\ w.seen = v.seen
  /\ v.mirrors[e.uri].applied < e.seq =>
       /\ w.mirrors[e.uri].applied = e.seq
       /\ w.mirrors[e.uri].confirmed =
            IF e.accepted THEN Append(v.mirrors[e.uri].confirmed, Tag(e))
            ELSE v.mirrors[e.uri].confirmed
       /\ w.seen = IF e.seq > v.seen THEN e.seq ELSE v.seen

\* One more envelope moves the copy of its channel.
LEMMA AdvanceMoves ==
  ASSUME NEW E \in SUBSET Envelopes, NEW v \in Plain(E), NEW e \in E, e.uri \in Known(v),
         v.mirrors[e.uri].applied < e.seq
  PROVE  Advance(v, e) \in Plain(E) /\ MovedBy(v, Advance(v, e), e)
<1> DEFINE u == e.uri
           k == IF e.seq > v.seen THEN e.seq ELSE v.seen
           m == [v.mirrors[u] EXCEPT !.applied = e.seq,
                   !.confirmed = IF e.accepted THEN Append(v.mirrors[u].confirmed, Tag(e))
                                 ELSE v.mirrors[u].confirmed]
           w == [v EXCEPT !.seen = k]
           x == [w EXCEPT !.mirrors[u] = m]
<1>1. e.seq \in Nat /\ v.seen \in Nat /\ v.mirrors[u] \in Mirrors(E)
        /\ v.mirrors[u].applied \in Nat /\ e \in Envelopes
  BY PlainParts DEF Envelopes
<1>2. w \in Plain(E) /\ w.mirrors = v.mirrors /\ w.outcome = v.outcome /\ Known(w) = Known(v)
        /\ w.seen = k
  <2>1. k \in Nat
    BY <1>1
  <2>2. v = [mirrors |-> v.mirrors, seen |-> v.seen, outcome |-> v.outcome]
    BY PlainParts
  <2> HIDE DEF k
  <2>3. v \in Views(E, Numbers, {}, Uris)
    BY DEF Plain
  <2>4. [v EXCEPT !.seen = k] \in Views(E, Numbers, {}, Uris)
    BY <2>1, <2>3, SeenChanged
  <2>5. w = [mirrors |-> v.mirrors, seen |-> k, outcome |-> v.outcome]
    BY <2>2
  <2> QED BY <2>4, <2>5 DEF Plain, Known
<1>3. Advance(v, e) \in Views(E, Numbers, {}, Uris \cup {e.uri})
  BY AdvanceGood DEF Plain
<1>4. Advance(v, e) = x
  <2>1. See(v, e.seq) = w
    BY DEF See
  <2>2. Advance(v, e) = [w EXCEPT !.mirrors[u].applied = e.seq,
           !.mirrors[u].confirmed = IF e.accepted THEN Append(@, Tag(e)) ELSE @]
    BY <2>1 DEF Advance
  <2>3. u \in DOMAIN w.mirrors /\ w = [mirrors |-> w.mirrors, seen |-> w.seen, outcome |-> w.outcome]
    BY <1>2, PlainParts DEF Known
  <2> HIDE DEF w
  <2>4. w.mirrors[u] \in Mirrors(E)
    BY <1>1, <1>2
  <2> HIDE DEF u
  <2> QED BY <1>2, <2>2, <2>3, <2>4 DEF Mirrors
<1>5. x \in Plain(E)
  <2>1. e.uri \in Uris
    BY PlainParts
  <2>2. Uris \cup {e.uri} = Uris
    BY <2>1
  <2> QED BY <1>3, <1>4, <2>2 DEF Plain
<1>6. /\ Known(x) = Known(w) /\ x.seen = w.seen /\ x.mirrors[u] = m
      /\ \A t \in Known(w) \ {u} : x.mirrors[t] = w.mirrors[t]
  <2>1. w = [mirrors |-> w.mirrors, seen |-> w.seen, outcome |-> w.outcome]
          /\ w.mirrors \in [Known(w) -> Mirrors(E)] /\ u \in Known(w)
    BY <1>2, PlainParts
  <2> HIDE DEF w, m, u
  <2>2. x = [mirrors |-> [w.mirrors EXCEPT ![u] = m], seen |-> w.seen, outcome |-> w.outcome]
    BY <2>1
  <2> QED BY <2>1, <2>2 DEF Known
<1>7. /\ m.applied = e.seq
      /\ m.confirmed = IF e.accepted THEN Append(v.mirrors[u].confirmed, Tag(e))
                       ELSE v.mirrors[u].confirmed
      /\ m.primed = v.mirrors[u].primed /\ m.buffered = v.mirrors[u].buffered
  BY <1>1 DEF Mirrors
<1> HIDE DEF w, m, k
<1> HIDE DEF x
<1>8. MovedBy(v, x, e)
  <2>1. ~(e.seq <= v.mirrors[u].applied)
    BY <1>1
  <2> QED BY <1>2, <1>6, <1>7, <2>1 DEF MovedBy, SameCopy, k
<1> QED BY <1>4, <1>5, <1>8

\* An envelope that is reconciled moves the copy of its channel, unless it is part of it.
LEMMA ReconcileMoves ==
  ASSUME NEW E \in SUBSET Envelopes, NEW v \in Plain(E), NEW e \in E, e.uri \in Known(v)
  PROVE  Reconcile(v, e) \in Plain(E) /\ MovedBy(v, Reconcile(v, e), e)
<1> DEFINE u == e.uri
           w == IF e.n > 0 THEN Echo(v, e) ELSE v
           x == IF e.seq <= w.mirrors[u].applied THEN w ELSE Advance(w, e)
<1>1. w \in Plain(E) /\ Same(v, w)
  <2>1. Same(v, v)
    BY DEF Same, SameCopy
  <2> QED BY <2>1, EchoSame
<1> HIDE DEF w
<1>2. u \in Known(w) /\ w.mirrors[u].applied \in Nat /\ e.seq \in Nat
  <2>1. u \in Known(w)
    BY <1>1 DEF Same
  <2> QED BY <1>1, <2>1, PlainParts DEF Envelopes
<1>3. x \in Plain(E) /\ MovedBy(w, x, e)
  <2>1. CASE e.seq <= w.mirrors[u].applied
    BY <1>1, <1>2, <2>1 DEF MovedBy, SameCopy
  <2>2. CASE ~(e.seq <= w.mirrors[u].applied)
    BY <1>1, <1>2, <2>2, AdvanceMoves
  <2> QED BY <2>1, <2>2
<1> HIDE DEF x
<1>4. u \in Known(x)
  BY <1>2, <1>3 DEF MovedBy
<1>5. Restate(x, u) \in Plain(E) /\ Same(x, Restate(x, u))
  BY <1>3, <1>4, RestateSame
<1>6. Reconcile(v, e) = Restate(x, u)
  BY DEF Reconcile, x, w
<1> DEFINE y == Restate(x, u)
<1> HIDE DEF y
<1>7. MovedBy(v, y, e)
  <2>1. Same(v, w) /\ MovedBy(w, x, e) /\ Same(x, y)
    BY <1>1, <1>3, <1>5 DEF y
  <2>2. Known(w) = Known(v) /\ Known(x) = Known(v) /\ Known(y) = Known(v) /\ u \in Known(v)
    BY <2>1 DEF Same, MovedBy
  <2> QED BY <2>1, <2>2 DEF Same, SameCopy, MovedBy
<1> QED BY <1>5, <1>6, <1>7 DEF y

\* An envelope that follows what was applied keeps a copy true.
LEMMA MovedCopies ==
  ASSUME HubTypes, NEW v \in Plain(Told), NEW w \in Plain(Told), NEW e \in Told,
         e.uri \in Known(v), MovedBy(v, w, e),
         Copied(v.mirrors[e.uri], e.uri),
         Between(e.uri, v.mirrors[e.uri].applied, e.seq) \subseteq {e}
  PROVE  Copied(w.mirrors[e.uri], e.uri)
<1> DEFINE m == v.mirrors[e.uri]
           n == w.mirrors[e.uri]
<1>1. m.applied \in Nat /\ e.seq \in 1..Len(log) /\ Len(log) \in Nat
  BY PlainParts, LogTyped
<1>2. CASE e.seq <= m.applied
  BY <1>2 DEF MovedBy, SameCopy, Copied
<1>3. CASE m.applied < e.seq
  <2>1. /\ n.applied = e.seq
        /\ n.confirmed = IF e.accepted THEN Append(m.confirmed, Tag(e)) ELSE m.confirmed
    BY <1>3 DEF MovedBy
  <2>2. StateAt(log, e.uri, e.seq) =
           IF e.accepted THEN Append(StateAt(log, e.uri, m.applied), Tag(e))
                         ELSE StateAt(log, e.uri, m.applied)
    BY <1>1, <1>3, StateNext
  <2> HIDE DEF m, n
  <2> QED BY <1>1, <2>1, <2>2 DEF Copied, m, n
<1> QED BY <1>1, <1>2, <1>3

\* Envelopes of s that follow sequence a of channel u without a gap.
Following(a, u, s) ==
  \A k \in DOMAIN s : s[k].uri = u => Between(u, a, s[k].seq) \subseteq {s[j] : j \in 1..k}

\* What the first i envelopes of s do.
FedUpTo(v, w, s, i) ==
  /\ Known(w) = Known(v)
  /\ v.seen <= w.seen /\ (w.seen = v.seen \/ \E k \in 1..i : w.seen = s[k].seq)
  /\ \A u \in Known(v) :
       /\ w.mirrors[u].primed = v.mirrors[u].primed
       /\ w.mirrors[u].buffered = v.mirrors[u].buffered
       /\ v.mirrors[u].applied <= w.mirrors[u].applied
       /\ \A k \in 1..i : s[k].uri = u => s[k].seq <= w.mirrors[u].applied
       /\ Copied(v.mirrors[u], u) /\ Following(v.mirrors[u].applied, u, s) =>
            Copied(w.mirrors[u], u)
       /\ (\A k \in 1..i : s[k].uri # u) => SameCopy(v.mirrors[u], w.mirrors[u])

Fed(v, w, s) == FedUpTo(v, w, s, Len(s))

Feeds(h, s) ==
  \A i \in 1..Len(s) :
    h[i] = IF s[i].uri \in Known(h[i - 1]) THEN Reconcile(h[i - 1], s[i]) ELSE h[i - 1]

\* One more envelope, for a channel that has a mirror ...
LEMMA FedOneMore ==
  ASSUME HubTypes, NEW v \in Plain(Told), NEW w \in Plain(Told), NEW x \in Plain(Told),
         NEW s \in Seq(Told), NEW i \in 1..Len(s), FedUpTo(v, w, s, i - 1),
         s[i].uri \in Known(w), MovedBy(w, x, s[i])
  PROVE  FedUpTo(v, x, s, i)
<1> DEFINE e == s[i]
           a == e.uri
<1>1. e \in Told /\ e.seq \in Nat /\ i \in Nat /\ Len(s) \in Nat /\ DOMAIN s = 1..Len(s)
  <2>1. e \in Told
    OBVIOUS
  <2> QED BY <2>1, LogTyped
<1>2. \A k \in 1..i : k = i \/ k \in 1..(i - 1)
  BY <1>1
<1>3. \A u \in Known(v) : /\ v.mirrors[u].applied \in Nat /\ w.mirrors[u].applied \in Nat
                          /\ x.mirrors[u].applied \in Nat
  <2>1. Known(w) = Known(v) /\ Known(x) = Known(w)
    BY DEF FedUpTo, MovedBy
  <2> QED BY <2>1, PlainParts
<1>4. v.seen \in Nat /\ w.seen \in Nat /\ x.seen \in Nat
  BY PlainParts
<1>5. Known(x) = Known(v) /\ Known(w) = Known(v) /\ a \in Known(v)
  BY DEF FedUpTo, MovedBy
<1>6. v.seen <= x.seen /\ (x.seen = v.seen \/ \E k \in 1..i : x.seen = s[k].seq)
  <2>1. v.seen <= w.seen /\ (w.seen = v.seen \/ \E k \in 1..(i - 1) : w.seen = s[k].seq)
    BY DEF FedUpTo
  <2>2. x.seen = w.seen \/ (x.seen = e.seq /\ e.seq > w.seen)
    BY <1>1, <1>3, <1>5 DEF MovedBy
  <2>3. \A k \in 1..(i - 1) : k \in 1..i
    BY <1>1
  <2>4. i \in 1..i
    BY <1>1
  <2> QED BY <1>1, <1>4, <2>1, <2>2, <2>3, <2>4
<1>7. ASSUME NEW u \in Known(v)
      PROVE  /\ w.mirrors[u].primed = v.mirrors[u].primed
             /\ w.mirrors[u].buffered = v.mirrors[u].buffered
             /\ v.mirrors[u].applied <= w.mirrors[u].applied
             /\ \A k \in 1..(i - 1) : s[k].uri = u => s[k].seq <= w.mirrors[u].applied
             /\ Copied(v.mirrors[u], u) /\ Following(v.mirrors[u].applied, u, s) =>
                  Copied(w.mirrors[u], u)
             /\ (\A k \in 1..(i - 1) : s[k].uri # u) => SameCopy(v.mirrors[u], w.mirrors[u])
  BY DEF FedUpTo
<1>8. ASSUME NEW u \in Known(v), u # a
      PROVE  /\ x.mirrors[u].primed = v.mirrors[u].primed
             /\ x.mirrors[u].buffered = v.mirrors[u].buffered
             /\ v.mirrors[u].applied <= x.mirrors[u].applied
             /\ \A k \in 1..i : s[k].uri = u => s[k].seq <= x.mirrors[u].applied
             /\ Copied(v.mirrors[u], u) /\ Following(v.mirrors[u].applied, u, s) =>
                  Copied(x.mirrors[u], u)
             /\ (\A k \in 1..i : s[k].uri # u) => SameCopy(v.mirrors[u], x.mirrors[u])
  <2>1. SameCopy(w.mirrors[u], x.mirrors[u])
    BY <1>5, <1>8 DEF MovedBy
  <2>2. \A k \in 1..(i - 1) : k \in 1..i
    BY <1>1
  <2> QED BY <1>2, <1>7, <1>8, <2>1, <2>2 DEF SameCopy, Copied
<1>9. /\ x.mirrors[a].primed = v.mirrors[a].primed
      /\ x.mirrors[a].buffered = v.mirrors[a].buffered
      /\ v.mirrors[a].applied <= x.mirrors[a].applied
      /\ \A k \in 1..i : s[k].uri = a => s[k].seq <= x.mirrors[a].applied
      /\ ~ \A k \in 1..i : s[k].uri # a
  <2>1. /\ x.mirrors[a].primed = w.mirrors[a].primed
        /\ x.mirrors[a].buffered = w.mirrors[a].buffered
    BY DEF MovedBy
  <2>2. w.mirrors[a].applied <= x.mirrors[a].applied /\ e.seq <= x.mirrors[a].applied
    BY <1>1, <1>3, <1>5 DEF MovedBy, SameCopy
  <2>3. \A k \in 1..(i - 1) : s[k].seq \in Nat
    <3>1. \A k \in 1..(i - 1) : s[k] \in Told
      BY <1>1
    <3> QED BY <3>1, LogTyped
  <2>4. \A k \in 1..i : s[k].uri = a => s[k].seq <= x.mirrors[a].applied
    BY <1>2, <1>3, <1>5, <1>7, <2>2, <2>3
  <2>5. i \in 1..i /\ s[i].uri = a
    BY <1>1
  <2>6. v.mirrors[a].applied <= w.mirrors[a].applied
    BY <1>5, <1>7
  <2>7. v.mirrors[a].applied <= x.mirrors[a].applied
    BY <1>3, <1>5, <2>2, <2>6
  <2> QED BY <1>5, <1>7, <2>1, <2>4, <2>5, <2>7
<1>10. ASSUME Copied(v.mirrors[a], a), Following(v.mirrors[a].applied, a, s)
       PROVE  Copied(x.mirrors[a], a)
  <2>1. Copied(w.mirrors[a], a)
    BY <1>5, <1>7, <1>10
  <2>2. Between(a, w.mirrors[a].applied, e.seq) \subseteq {e}
    <3> SUFFICES ASSUME NEW f \in Between(a, w.mirrors[a].applied, e.seq) PROVE f = e
      OBVIOUS
    <3>1. f \in Told /\ f.uri = a /\ w.mirrors[a].applied < f.seq /\ f.seq <= e.seq /\ f.seq \in Nat
      BY LogTyped DEF Between
    <3>2. v.mirrors[a].applied < f.seq
      BY <1>3, <1>5, <1>7, <3>1
    <3>3. f \in Between(a, v.mirrors[a].applied, e.seq)
      BY <3>1, <3>2 DEF Between
    <3>4. PICK j \in 1..i : f = s[j]
      BY <1>1, <1>10, <3>3 DEF Following
    <3>5. j \in 1..(i - 1) => s[j].seq <= w.mirrors[a].applied
      BY <1>5, <1>7, <3>1, <3>4
    <3>6. j = i
      BY <1>2, <1>3, <1>5, <3>1, <3>4, <3>5
    <3> QED BY <3>4, <3>6
  <2> HIDE DEF e
  <2> QED BY <1>1, <1>5, <2>1, <2>2, MovedCopies DEF e
<1> HIDE DEF a, e
<1>11. ASSUME NEW u \in Known(v)
       PROVE  /\ x.mirrors[u].primed = v.mirrors[u].primed
              /\ x.mirrors[u].buffered = v.mirrors[u].buffered
              /\ v.mirrors[u].applied <= x.mirrors[u].applied
              /\ \A k \in 1..i : s[k].uri = u => s[k].seq <= x.mirrors[u].applied
              /\ Copied(v.mirrors[u], u) /\ Following(v.mirrors[u].applied, u, s) =>
                   Copied(x.mirrors[u], u)
              /\ (\A k \in 1..i : s[k].uri # u) => SameCopy(v.mirrors[u], x.mirrors[u])
  <2>1. CASE u # a
    BY <1>8, <2>1
  <2>2. CASE u = a
    BY <1>9, <1>10, <2>2
  <2> QED BY <2>1, <2>2
<1> QED BY <1>5, <1>6, <1>11 DEF FedUpTo

\* ... and several.
LEMMA FedAll ==
  ASSUME HubTypes, NEW s \in Seq(Told), NEW h \in [0..Len(s) -> Plain(Told)], Feeds(h, s)
  PROVE  Fed(h[0], h[Len(s)], s)
<1> DEFINE v == h[0]
           S == {i \in Nat : i <= Len(s) => FedUpTo(v, h[i], s, i)}
<1>1. Len(s) \in Nat /\ v \in Plain(Told) /\ \A i \in 0..Len(s) : h[i] \in Plain(Told)
  OBVIOUS
<1>2. FedUpTo(v, v, s, 0)
  <2>1. v.seen \in Nat /\ \A u \in Known(v) : v.mirrors[u].applied \in Nat
    BY <1>1, PlainParts
  <2>2. 1..0 = {}
    OBVIOUS
  <2> QED BY <2>1, <2>2 DEF FedUpTo, SameCopy
<1>3. ASSUME NEW n \in Nat, n + 1 <= Len(s), FedUpTo(v, h[n], s, n)
      PROVE  FedUpTo(v, h[n + 1], s, n + 1)
  <2> DEFINE i == n + 1
  <2>1. i \in 1..Len(s) /\ i - 1 = n /\ n \in 0..Len(s) /\ i \in 0..Len(s)
    BY <1>1, <1>3
  <2>2. h[i] = IF s[i].uri \in Known(h[n]) THEN Reconcile(h[n], s[i]) ELSE h[n]
    BY <2>1 DEF Feeds
  <2>3. h[n] \in Plain(Told) /\ h[i] \in Plain(Told) /\ s[i] \in Told
    BY <1>1, <2>1
  <2>4. CASE s[i].uri \in Known(h[n])
    <3>1. Told \in SUBSET Envelopes
      BY LogTyped
    <3>2. MovedBy(h[n], Reconcile(h[n], s[i]), s[i])
      BY <2>3, <2>4, <3>1, ReconcileMoves
    <3>3. MovedBy(h[n], h[i], s[i])
      BY <2>2, <2>4, <3>2
    <3>4. FedUpTo(v, h[n], s, i - 1)
      BY <1>3, <2>1
    <3> HIDE DEF i, v
    <3> QED BY <1>1, <2>1, <2>3, <2>4, <3>3, <3>4, FedOneMore
  <2>5. CASE s[i].uri \notin Known(h[n])
    <3>1. h[i] = h[n]
      BY <2>2, <2>5
    <3>2. Known(h[n]) = Known(v)
      BY <1>3 DEF FedUpTo
    <3>3. \A k \in 1..i : k = i \/ k \in 1..n
      OBVIOUS
    <3>4. \A k \in 1..n : k \in 1..i
      OBVIOUS
    <3>5. \A u \in Known(v) : s[i].uri # u
      BY <2>5, <3>2
    <3> HIDE DEF i
    <3>6. /\ v.seen <= h[n].seen /\ (h[n].seen = v.seen \/ \E k \in 1..i : h[n].seen = s[k].seq)
      BY <1>3, <3>4 DEF FedUpTo
    <3>7. ASSUME NEW u \in Known(v)
          PROVE  /\ h[n].mirrors[u].primed = v.mirrors[u].primed
                 /\ h[n].mirrors[u].buffered = v.mirrors[u].buffered
                 /\ v.mirrors[u].applied <= h[n].mirrors[u].applied
                 /\ \A k \in 1..i : s[k].uri = u => s[k].seq <= h[n].mirrors[u].applied
                 /\ Copied(v.mirrors[u], u) /\ Following(v.mirrors[u].applied, u, s) =>
                      Copied(h[n].mirrors[u], u)
                 /\ (\A k \in 1..i : s[k].uri # u) => SameCopy(v.mirrors[u], h[n].mirrors[u])
      <4>1. \A k \in 1..i : s[k].uri = u => k \in 1..n
        BY <3>3, <3>5, <3>7
      <4>2. \A k \in 1..n : s[k].uri = u => s[k].seq <= h[n].mirrors[u].applied
        BY <1>3, <3>7 DEF FedUpTo
      <4>3. \A k \in 1..i : s[k].uri = u => s[k].seq <= h[n].mirrors[u].applied
        BY <4>1, <4>2
      <4>4. (\A k \in 1..n : s[k].uri # u) => SameCopy(v.mirrors[u], h[n].mirrors[u])
        BY <1>3, <3>7 DEF FedUpTo
      <4>5. (\A k \in 1..i : s[k].uri # u) => SameCopy(v.mirrors[u], h[n].mirrors[u])
        BY <3>4, <4>4
      <4> QED BY <1>3, <3>7, <4>3, <4>5 DEF FedUpTo
    <3> QED BY <3>1, <3>2, <3>6, <3>7 DEF FedUpTo
  <2> QED BY <2>4, <2>5
<1> HIDE DEF v
<1>4. 0 \in S
  BY <1>2 DEF v
<1>5. ASSUME NEW n \in Nat, n \in S PROVE n + 1 \in S
  <2>1. n + 1 <= Len(s) => n <= Len(s)
    BY <1>1
  <2> QED BY <1>3, <1>5, <2>1
<1> HIDE DEF S
<1>6. Nat \subseteq S
  BY <1>4, <1>5, Induction
<1>7. Len(s) \in S
  BY <1>1, <1>6
<1> QED BY <1>1, <1>7 DEF S, Fed, v

-----------------------------------------------------------------------------
(* Mirrors that come, go, or wait. *)

\* A view without some of its mirrors.
Fewer(v, w, us) ==
  /\ Known(w) = Known(v) \ us /\ w.seen = v.seen
  /\ \A u \in Known(w) : SameCopy(v.mirrors[u], w.mirrors[u])

\* Copies stay the same when none of them is dropped.
LEMMA SameIsFewer ==
  ASSUME NEW v, NEW w
  PROVE  Same(v, w) <=> Fewer(v, w, {})
BY DEF Same, Fewer

\* What is dropped first and what is dropped then are dropped.
LEMMA FewerTwice ==
  ASSUME NEW v, NEW w, NEW x, NEW us, NEW ts, Fewer(v, w, us), Fewer(w, x, ts)
  PROVE  Fewer(v, x, us \cup ts)
<1>1. Known(x) = Known(v) \ (us \cup ts) /\ Known(x) \subseteq Known(w)
  BY DEF Fewer
<1> QED BY <1>1 DEF Fewer, SameCopy

\* #forget drops one mirror at most ...
LEMMA ForgetFewer ==
  ASSUME NEW E, NEW v \in Plain(E), NEW u
  PROVE  Forget(v, u) \in Plain(E) /\ Fewer(v, Forget(v, u), {u})
<1>1. Forget(v, u) \in Plain(E)
  <2>1. Forget(v, u) \in Views(E, Numbers, {} \ {u}, Uris)
    BY ForgetGood DEF Plain
  <2> QED BY <2>1 DEF Plain
<1>2. CASE u \notin Known(v)
  BY <1>2 DEF Forget, Fewer, SameCopy
<1>3. CASE u \in Known(v)
  <2> DEFINE w == Lose(v, u)
             D == Known(v) \ {u}
             ms == Restrict(w.mirrors, D)
  <2>1. w \in Plain(E) /\ Same(v, w)
    BY <1>3, LoseSame
  <2> HIDE DEF w
  <2>2. w = [mirrors |-> w.mirrors, seen |-> w.seen, outcome |-> w.outcome]
    BY <2>1, PlainParts
  <2>3. Forget(v, u) = [mirrors |-> ms, seen |-> w.seen, outcome |-> w.outcome]
    <3>1. Forget(v, u) = [w EXCEPT !.mirrors = Restrict(w.mirrors, Known(v) \ {u})]
      BY <1>3 DEF Forget, w
    <3> HIDE DEF ms
    <3> QED BY <2>2, <3>1 DEF ms
  <2>4. DOMAIN ms = D /\ \A t \in D : ms[t] = w.mirrors[t]
    BY <2>1 DEF Restrict, Same
  <2> HIDE DEF ms
  <2> DEFINE x == [mirrors |-> ms, seen |-> w.seen, outcome |-> w.outcome]
  <2>5. Known(x) = D /\ x.seen = v.seen
    BY <2>1, <2>4 DEF Same, Known
  <2>6. \A t \in D : SameCopy(v.mirrors[t], x.mirrors[t])
    BY <2>1, <2>4 DEF Same
  <2>7. Forget(v, u) = x
    BY <2>3
  <2> HIDE DEF x
  <2>8. Fewer(v, x, {u})
    BY <2>5, <2>6 DEF Fewer
  <2> QED BY <1>1, <2>7, <2>8
<1> QED BY <1>1, <1>2, <1>3

\* ... or those of several channels.
LEMMA ForgetAllFewer ==
  ASSUME NEW E, NEW v \in Plain(E), NEW us, IsFiniteSet(us)
  PROVE  ForgetAll(v, us) \in Plain(E) /\ Fewer(v, ForgetAll(v, us), us)
<1> DEFINE G == Plain(E)
           A == [T \in SUBSET us |-> {w \in G : Fewer(v, w, T)}]
<1>1. ForgetAllAlong(A, G, v, us)
  <2>1. Same(v, v)
    BY DEF Same, SameCopy
  <2>2. v \in A[{}]
    BY <2>1, SameIsFewer
  <2>3. ASSUME NEW T \in SUBSET us, NEW u \in T, NEW w \in G, w \in A[T \ {u}]
        PROVE  Forget(w, u) \in A[T]
    <3>1. Fewer(v, w, T \ {u})
      BY <2>3
    <3>2. Forget(w, u) \in G /\ Fewer(w, Forget(w, u), {u})
      BY ForgetFewer
    <3>3. Fewer(v, Forget(w, u), (T \ {u}) \cup {u})
      BY <3>1, <3>2, FewerTwice
    <3>4. (T \ {u}) \cup {u} = T
      OBVIOUS
    <3> QED BY <3>2, <3>3, <3>4
  <2> QED BY <2>2, <2>3 DEF ForgetAllAlong
<1>2. \A u \in us, w \in G : Forget(w, u) \in G
  BY ForgetFewer
<1>3. us \in SUBSET us /\ v \in G
  OBVIOUS
<1> HIDE DEF A, G
<1>4. ForgetAll(v, us) \in G /\ ForgetAll(v, us) \in A[us]
  BY <1>1, <1>2, <1>3, ForgetAllReach
<1> QED BY <1>3, <1>4 DEF A, G

\* The mirrors that a failing request takes with it.
Taking(r) == IF r.method = "dispatch" THEN {} ELSE r.created

\* A request that fails takes back the mirrors it made, and no other ...
LEMMA FailureFewer ==
  ASSUME NEW E, NEW v \in Plain(E), NEW r \in Requests, NEW why
  PROVE  Failure(v, r, why) \in Plain(E) /\ Fewer(v, Failure(v, r, why), Taking(r))
<1>1. Failure(v, r, why) \in Plain(E)
  <2>1. Failure(v, r, why) \in Views(E, Numbers, {} \ r.created, Uris)
    BY FailureGood DEF Plain
  <2>2. {} \ r.created = {}
    OBVIOUS
  <2> QED BY <2>1, <2>2 DEF Plain
<1>2. CASE r.method # "dispatch"
  <2>1. IsFiniteSet(r.created)
    BY ClientAssumption, FS_Subset DEF Requests
  <2> QED BY <1>2, <2>1, ForgetAllFewer DEF Failure, Taking
<1>3. CASE r.method = "dispatch" /\ why = "transport"
  <2>1. Same(v, v)
    BY DEF Same, SameCopy
  <2> QED BY <1>1, <1>3, <2>1, SameIsFewer DEF Failure, Taking
<1>4. CASE r.method = "dispatch" /\ why # "transport"
  <2>1. r.n \in Numbers /\ "lost" \in Outcome \ {"open"} /\ Witnessed(E, r.n, "lost")
    BY <1>4 DEF Requests, Outcome, Witnessed
  <2>2. Same(v, Discard(v, r.uri, r.n, "lost"))
    BY <2>1, DiscardSame
  <2> QED BY <1>1, <1>4, <2>2, SameIsFewer DEF Failure, Taking
<1> QED BY <1>2, <1>3, <1>4

\* ... and so do several.
LEMMA FailuresFewer ==
  ASSUME NEW E, NEW v \in Plain(E), NEW rs \in SUBSET Requests, IsFiniteSet(rs), NEW why
  PROVE  /\ Failures(v, rs, why) \in Plain(E)
         /\ Fewer(v, Failures(v, rs, why), UNION {Taking(r) : r \in rs})
<1> DEFINE G == Plain(E)
           A == [T \in SUBSET rs |-> {w \in G : Fewer(v, w, UNION {Taking(r) : r \in T})}]
<1>1. FailuresAlong(A, G, v, rs, why)
  <2>1. Same(v, v)
    BY DEF Same, SameCopy
  <2>2. v \in A[{}]
    BY <2>1, SameIsFewer
  <2>3. ASSUME NEW T \in SUBSET rs, NEW r \in T, NEW w \in G, w \in A[T \ {r}]
        PROVE  Failure(w, r, why) \in A[T]
    <3> DEFINE some(S) == UNION {Taking(q) : q \in S}
    <3>1. Fewer(v, w, some(T \ {r}))
      BY <2>3
    <3>2. Failure(w, r, why) \in G /\ Fewer(w, Failure(w, r, why), Taking(r))
      BY FailureFewer
    <3>3. some(T \ {r}) \cup Taking(r) = some(T)
      OBVIOUS
    <3>4. Fewer(v, Failure(w, r, why), some(T \ {r}) \cup Taking(r))
      <4> HIDE DEF some
      <4> QED BY <3>1, <3>2, FewerTwice
    <3> QED BY <3>2, <3>3, <3>4
  <2> QED BY <2>2, <2>3 DEF FailuresAlong
<1>2. \A r \in rs, w \in G : Failure(w, r, why) \in G
  BY FailureFewer
<1>3. rs \in SUBSET rs /\ v \in G
  OBVIOUS
<1> HIDE DEF A, G
<1>4. Failures(v, rs, why) \in G /\ Failures(v, rs, why) \in A[rs]
  BY <1>1, <1>2, <1>3, FailuresReach
<1> QED BY <1>3, <1>4 DEF A, G

\* Mirrors that hold envelopes back again, from the next one on.
LEMMA UnprimeWaits ==
  ASSUME NEW E, NEW v \in Plain(E), NEW us
  PROVE  LET w == Unprime(v, us)
         IN  /\ w \in Plain(E) /\ Known(w) = Known(v) /\ w.seen = v.seen
             /\ \A u \in Known(v) \ us : w.mirrors[u] = v.mirrors[u]
             /\ \A u \in Known(v) \cap us :
                  /\ w.mirrors[u].confirmed = v.mirrors[u].confirmed
                  /\ w.mirrors[u].applied = v.mirrors[u].applied
                  /\ ~w.mirrors[u].primed /\ w.mirrors[u].buffered = << >>
<1> DEFINE D == Known(v)
           ms == [u \in D |-> IF u \in us
                              THEN [v.mirrors[u] EXCEPT !.primed = FALSE, !.buffered = << >>]
                              ELSE v.mirrors[u]]
           w == Unprime(v, us)
<1>1. w \in Plain(E)
  BY UnprimeGood DEF Plain
<1>2. w = [mirrors |-> ms, seen |-> v.seen, outcome |-> v.outcome]
  <2>1. v = [mirrors |-> v.mirrors, seen |-> v.seen, outcome |-> v.outcome]
    BY PlainParts
  <2>2. w = [v EXCEPT !.mirrors = ms]
    BY DEF Unprime
  <2> HIDE DEF ms, w
  <2> QED BY <2>1, <2>2
<1>3. \A u \in D : v.mirrors[u] \in Mirrors(E)
  BY PlainParts
<1>4. DOMAIN ms = D /\ \A u \in D \ us : ms[u] = v.mirrors[u]
  OBVIOUS
<1>5. ASSUME NEW u \in D \cap us
      PROVE  /\ ms[u].confirmed = v.mirrors[u].confirmed /\ ms[u].applied = v.mirrors[u].applied
             /\ ~ms[u].primed /\ ms[u].buffered = << >>
  BY <1>3 DEF Mirrors
<1> HIDE DEF ms, w
<1> QED BY <1>1, <1>2, <1>4, <1>5 DEF w, Known

\* Mirrors that are made wait for their state.
LEMMA MirrorsWait ==
  ASSUME NEW E, NEW v \in Plain(E), NEW us \in SUBSET Uris
  PROVE  LET w == WithMirrors(v, us)
         IN  /\ w \in Plain(E) /\ Known(w) = Known(v) \cup us /\ w.seen = v.seen
             /\ \A u \in Known(v) : w.mirrors[u] = v.mirrors[u]
             /\ \A u \in us \ Known(v) :
                  /\ w.mirrors[u].confirmed = << >> /\ w.mirrors[u].applied = 0
                  /\ ~w.mirrors[u].primed /\ w.mirrors[u].buffered = << >>
<1> DEFINE D == Known(v) \cup us
           ms == [u \in D |-> IF u \in Known(v) THEN v.mirrors[u] ELSE NewMirror(FALSE)]
           w == WithMirrors(v, us)
<1>1. w \in Plain(E)
  <2>1. w \in Views(E, Numbers, {} \cup us, Uris)
    BY MirrorsAdded DEF Plain
  <2> HIDE DEF w
  <2> QED BY <2>1, ViewsMonotone DEF Plain
<1>2. w = [mirrors |-> ms, seen |-> v.seen, outcome |-> v.outcome]
  <2>1. v = [mirrors |-> v.mirrors, seen |-> v.seen, outcome |-> v.outcome]
    BY PlainParts
  <2>2. w = [v EXCEPT !.mirrors = ms]
    BY DEF WithMirrors
  <2> HIDE DEF ms, w
  <2> QED BY <2>1, <2>2
<1>3. DOMAIN ms = D /\ \A u \in Known(v) : ms[u] = v.mirrors[u]
  OBVIOUS
<1>4. \A u \in us \ Known(v) : ms[u] = NewMirror(FALSE)
  OBVIOUS
<1> HIDE DEF ms, w
<1> QED BY <1>1, <1>2, <1>3, <1>4 DEF w, Known, NewMirror

\* What a handshake that is replayed primes.
AllPrimed(v) == [v EXCEPT !.mirrors = [u \in Known(v) |-> [@[u] EXCEPT !.primed = TRUE]]]

\* Priming every mirror changes nothing else of them.
LEMMA AllPrimedNow ==
  ASSUME NEW E, NEW v \in Plain(E)
  PROVE  LET w == AllPrimed(v)
         IN  /\ w \in Plain(E) /\ Known(w) = Known(v) /\ w.seen = v.seen
             /\ \A u \in Known(v) :
                  /\ w.mirrors[u].confirmed = v.mirrors[u].confirmed
                  /\ w.mirrors[u].applied = v.mirrors[u].applied
                  /\ w.mirrors[u].primed /\ w.mirrors[u].buffered = v.mirrors[u].buffered
<1> DEFINE D == Known(v)
           ms == [u \in D |-> [v.mirrors[u] EXCEPT !.primed = TRUE]]
           w == AllPrimed(v)
<1>1. w \in Plain(E)
  BY AllPrimedGood DEF Plain, AllPrimed
<1>2. w = [mirrors |-> ms, seen |-> v.seen, outcome |-> v.outcome]
  <2>1. v = [mirrors |-> v.mirrors, seen |-> v.seen, outcome |-> v.outcome]
    BY PlainParts
  <2>2. w = [v EXCEPT !.mirrors = ms]
    BY DEF AllPrimed
  <2> HIDE DEF ms, w
  <2> QED BY <2>1, <2>2
<1>3. \A u \in D : v.mirrors[u] \in Mirrors(E)
  BY PlainParts
<1>4. DOMAIN ms = D
  OBVIOUS
<1>5. ASSUME NEW u \in D
      PROVE  /\ ms[u].confirmed = v.mirrors[u].confirmed /\ ms[u].applied = v.mirrors[u].applied
             /\ ms[u].primed /\ ms[u].buffered = v.mirrors[u].buffered
  BY <1>3 DEF Mirrors
<1> HIDE DEF ms, w
<1> QED BY <1>1, <1>2, <1>4, <1>5 DEF w, Known

\* Whatever ends every dispatch that is still open leaves the copies alone.
LEMMA EndAllSame ==
  ASSUME NEW E, NEW v \in Plain(E)
  PROVE  LET w == SettleAll(v, DOMAIN v.outcome, "lost")
         IN  w \in Plain(E) /\ Same(v, w) /\ w.mirrors = v.mirrors
<1>1. \A n \in DOMAIN v.outcome \cap Numbers : Witnessed(E, n, "lost")
  BY DEF Witnessed
<1>2. "lost" \in Outcome \ {"open"}
  BY DEF Outcome
<1> DEFINE ns == DOMAIN v.outcome
<1> HIDE DEF ns
<1>3. /\ SettleAll(v, ns, "lost") \in Plain(E) /\ Same(v, SettleAll(v, ns, "lost"))
      /\ SettleAll(v, ns, "lost").mirrors = v.mirrors
  BY <1>1, <1>2, SettleAllSame DEF ns
<1> QED BY <1>3 DEF ns

\* Nothing has happened yet at sequence 0.
LEMMA StateAtStart ==
  ASSUME HubTypes, NEW u
  PROVE  StateAt(log, u, 0) = << >>
<1> DEFINE I == {i \in DOMAIN log : log[i].uri = u /\ log[i].seq <= 0}
           s == Selected(log, {})
           J == {i \in DOMAIN s : s[i].accepted}
<1>1. I = {}
  <2>1. \A i \in DOMAIN log : log[i].seq = i /\ i \in 1..Len(log) /\ Len(log) \in Nat
    BY LogTyped
  <2> QED BY <2>1
<1>2. Cardinality({}) = 0 /\ 1..0 = {}
  BY FS_EmptySet
<1>3. DOMAIN s = {}
  BY <1>2 DEF Selected
<1>4. J = {}
  BY <1>3
<1>5. DOMAIN Selected(s, J) = {}
  BY <1>2, <1>4 DEF Selected
<1>6. Reduced(s) = [k \in DOMAIN Selected(s, J) |-> Tag(Selected(s, J)[k])]
  BY DEF Reduced
<1> HIDE DEF s, J, I
<1>7. Reduced(s) = << >>
  BY <1>5, <1>6
<1>8. StateAt(log, u, 0) = Reduced(Selected(log, I))
  BY DEF StateAt, I
<1> QED BY <1>1, <1>7, <1>8 DEF s

-----------------------------------------------------------------------------
(* Envelopes in a row, and mirrors that are restated. *)

\* Where every mirror is primed, envelopes are applied one after the other.
LEMMA InboundAllFed ==
  ASSUME HubTypes, NEW v \in Plain(Told), NEW s \in Seq(Told),
         \A u \in Known(v) : v.mirrors[u].primed
  PROVE  InboundAll(v, s) \in Plain(Told) /\ Fed(v, InboundAll(v, s), s)
<1> DEFINE G == {w \in Plain(Told) : \A u \in Known(w) : w.mirrors[u].primed}
<1>1. Told \in SUBSET Envelopes
  BY LogTyped
<1>2. ASSUME NEW e \in Told, NEW w \in G
      PROVE  /\ Inbound(w, e) \in G
             /\ Inbound(w, e) = IF e.uri \in Known(w) THEN Reconcile(w, e) ELSE w
  <2>1. CASE e.uri \notin Known(w)
    BY <2>1 DEF Inbound
  <2>2. CASE e.uri \in Known(w)
    <3>1. w.mirrors[e.uri].primed
      BY <2>2
    <3>2. Inbound(w, e) = Reconcile(w, e)
      BY <2>2, <3>1 DEF Inbound
    <3> DEFINE x == Reconcile(w, e)
    <3>3. x \in Plain(Told) /\ MovedBy(w, x, e)
      BY <1>1, <2>2, ReconcileMoves
    <3> HIDE DEF x
    <3>4. \A u \in Known(x) : x.mirrors[u].primed
      BY <3>3 DEF MovedBy, SameCopy
    <3> QED BY <2>2, <3>2, <3>3, <3>4 DEF x
  <2> QED BY <2>1, <2>2
<1>3. v \in G
  OBVIOUS
<1> HIDE DEF G
<1>4. PICK h \in [0..Len(s) -> G] :
           /\ h[0] = v /\ h[Len(s)] = InboundAll(v, s)
           /\ \A i \in 1..Len(s) : h[i] = Inbound(h[i - 1], s[i])
  BY <1>2, <1>3, InboundAllSteps
<1>5. Len(s) \in Nat /\ Len(s) \in 0..Len(s) /\ \A i \in 1..Len(s) : s[i] \in Told /\ i - 1 \in 0..Len(s)
  OBVIOUS
<1>6. h \in [0..Len(s) -> Plain(Told)]
  BY DEF G
<1>7. Feeds(h, s)
  <2>1. ASSUME NEW i \in 1..Len(s)
        PROVE  h[i] = IF s[i].uri \in Known(h[i - 1]) THEN Reconcile(h[i - 1], s[i])
                      ELSE h[i - 1]
    <3>1. h[i - 1] \in G /\ s[i] \in Told
      BY <1>5
    <3> QED BY <1>2, <1>4, <3>1
  <2> QED BY <2>1 DEF Feeds
<1>8. Fed(h[0], h[Len(s)], s)
  BY <1>6, <1>7, FedAll
<1> QED BY <1>4, <1>5, <1>6, <1>8

\* What is held back is applied.
LEMMA ReconcileAllFed ==
  ASSUME HubTypes, NEW v \in Plain(Told), NEW u \in Known(v), NEW s \in Seq(For(Told, u))
  PROVE  ReconcileAll(v, s) \in Plain(Told) /\ Fed(v, ReconcileAll(v, s), s)
<1> DEFINE G == {w \in Plain(Told) : u \in Known(w)}
           B == For(Told, u)
<1>1. Told \in SUBSET Envelopes
  BY LogTyped
<1>2. ASSUME NEW e \in B, NEW w \in G
      PROVE  Reconcile(w, e) \in G /\ e.uri \in Known(w)
  <2>1. e \in Told /\ e.uri = u /\ e.uri \in Known(w)
    BY DEF For
  <2>2. Reconcile(w, e) \in Plain(Told) /\ MovedBy(w, Reconcile(w, e), e)
    BY <1>1, <2>1, ReconcileMoves
  <2> QED BY <2>1, <2>2 DEF MovedBy
<1>3. v \in G
  OBVIOUS
<1>4. s \in Seq(B) /\ s \in Seq(Told)
  <2>1. B \subseteq Told
    BY DEF For
  <2> QED BY <2>1, SeqMonotone
<1> HIDE DEF G, B
<1>5. PICK h \in [0..Len(s) -> G] :
           /\ h[0] = v /\ h[Len(s)] = ReconcileAll(v, s)
           /\ \A i \in 1..Len(s) : h[i] = Reconcile(h[i - 1], s[i])
  <2>1. \A e \in B, w \in G : Reconcile(w, e) \in G
    BY <1>2
  <2>2. s \in Seq(B)
    BY <1>4
  <2> QED BY <1>3, <2>1, <2>2, DrainSteps
<1>6. Len(s) \in Nat /\ Len(s) \in 0..Len(s) /\ \A i \in 1..Len(s) : s[i] \in B /\ i - 1 \in 0..Len(s)
  BY <1>4
<1>7. h \in [0..Len(s) -> Plain(Told)]
  BY DEF G
<1>8. Feeds(h, s)
  <2>1. ASSUME NEW i \in 1..Len(s)
        PROVE  h[i] = IF s[i].uri \in Known(h[i - 1]) THEN Reconcile(h[i - 1], s[i])
                      ELSE h[i - 1]
    <3>1. h[i - 1] \in G /\ s[i] \in B
      BY <1>6
    <3> QED BY <1>2, <1>5, <3>1
  <2> QED BY <2>1 DEF Feeds
<1>9. Fed(h[0], h[Len(s)], s)
  BY <1>4, <1>7, <1>8, FedAll
<1> QED BY <1>5, <1>6, <1>7, <1>9

\* The sequences of what a mirror holds back.
Waits(v, u) == {v.mirrors[u].buffered[k].seq : k \in DOMAIN v.mirrors[u].buffered}

\* A mirror that takes confirmed state c as of sequence a, and then what it held back.
AsOf(v, w, u, c, a) ==
  /\ w.mirrors[u].buffered = << >>
  /\ a <= w.mirrors[u].applied
  /\ \A h \in Waits(v, u) : h <= w.mirrors[u].applied
  /\ c = StateAt(log, u, a) /\ a <= Len(log) /\ Following(a, u, v.mirrors[u].buffered) =>
       Copied(w.mirrors[u], u)

\* The sequence seen moves forward, if at all to one of B.
SeesOf(v, w, B) == v.seen <= w.seen /\ (w.seen = v.seen \/ w.seen \in B)

\* What is seen in two steps is seen through one of the two.
LEMMA SeesTwice ==
  ASSUME NEW E, NEW v \in Plain(E), NEW w \in Plain(E), NEW x \in Plain(E), NEW B, NEW C,
         SeesOf(v, w, B), SeesOf(w, x, C)
  PROVE  SeesOf(v, x, B \cup C)
<1>1. v.seen \in Nat /\ w.seen \in Nat /\ x.seen \in Nat
  BY PlainParts
<1> QED BY <1>1 DEF SeesOf

With(v, u, m) == [v EXCEPT !.mirrors[u] = m]

\* A view with another mirror in one place.
LEMMA WithChanged ==
  ASSUME NEW E, NEW v \in Plain(E), NEW u \in Known(v), NEW m \in Mirrors(E),
         m.buffered \in Seq(For(E, u))
  PROVE  /\ With(v, u, m) \in Plain(E) /\ Known(With(v, u, m)) = Known(v)
         /\ With(v, u, m).seen = v.seen /\ With(v, u, m).mirrors[u] = m
         /\ \A t \in Known(v) \ {u} : With(v, u, m).mirrors[t] = v.mirrors[t]
<1> DEFINE x == [v EXCEPT !.mirrors[u] = m]
<1>1. /\ x \in Plain(E) /\ Known(x) = Known(v) /\ x.seen = v.seen /\ x.mirrors[u] = m
      /\ \A t \in Known(v) \ {u} : x.mirrors[t] = v.mirrors[t]
  BY PlainChanged
<1>2. x = With(v, u, m)
  BY DEF With
<1> HIDE DEF x
<1> QED BY <1>1, <1>2

\* A mirror is replaced by m, and then takes what was held back.
LEMMA DrainTakes ==
  ASSUME HubTypes, NEW v \in Plain(Told), NEW u \in Known(v), NEW m \in Mirrors(Told),
         m.buffered = v.mirrors[u].buffered
  PROVE  LET x == Drain(With(v, u, m), u)
         IN  /\ x \in Plain(Told) /\ Known(x) = Known(v)
             /\ \A t \in Known(v) \ {u} : SameCopy(v.mirrors[t], x.mirrors[t])
             /\ x.mirrors[u].primed = m.primed
             /\ AsOf(v, x, u, m.confirmed, m.applied)
             /\ SeesOf(v, x, Waits(v, u))
<1> DEFINE s == m.buffered
           m0 == [m EXCEPT !.buffered = << >>]
           w == With(v, u, m)
           y == [w EXCEPT !.mirrors[u].buffered = << >>]
           z == With(v, u, m0)
           x == Drain(w, u)
<1>1. m.buffered \in Seq(For(Told, u))
  BY PlainParts
<1>2. w \in Plain(Told) /\ Known(w) = Known(v) /\ w.seen = v.seen /\ w.mirrors[u] = m
  BY <1>1, WithChanged
<1>3. m0 \in Mirrors(Told) /\ m0.buffered \in Seq(For(Told, u)) /\ m0.confirmed = m.confirmed
        /\ m0.applied = m.applied /\ m0.primed = m.primed /\ m0.buffered = << >>
  <2>1. << >> \in Seq(Told) /\ << >> \in Seq(For(Told, u))
    OBVIOUS
  <2> QED BY <2>1 DEF Mirrors
<1>4. v = [mirrors |-> v.mirrors, seen |-> v.seen, outcome |-> v.outcome]
       /\ v.mirrors \in [Known(v) -> Mirrors(Told)]
  BY PlainParts
<1>5. y = z
  BY <1>4 DEF With
<1>15. s = m.buffered
  OBVIOUS
<1> HIDE DEF m0
<1> HIDE DEF y, s
<1>6. /\ z \in Plain(Told) /\ Known(z) = Known(v) /\ z.seen = v.seen /\ z.mirrors[u] = m0
      /\ \A t \in Known(v) \ {u} : z.mirrors[t] = v.mirrors[t]
  <2>1. m0 \in Mirrors(Told) /\ m0.buffered \in Seq(For(Told, u))
    BY <1>3
  <2> QED BY <2>1, WithChanged
<1> HIDE DEF z, w
<1>7. x = ReconcileAll(y, s)
  <2>1. w.mirrors[u].buffered = s
    BY <1>2, <1>15
  <2> QED BY <2>1 DEF Drain, ReconcileAll, y
<1> HIDE DEF x
<1>8. x \in Plain(Told) /\ Fed(z, x, s)
  <2>1. u \in Known(z)
    BY <1>6
  <2> QED BY <1>1, <1>5, <1>15, <1>6, <1>7, <2>1, ReconcileAllFed
<1>9. Len(s) \in Nat /\ DOMAIN s = 1..Len(s) /\ \A k \in DOMAIN s : s[k] \in Told /\ s[k].uri = u
  BY <1>1, <1>15 DEF For
<1>10. Known(x) = Known(v) /\ \A t \in Known(v) \ {u} : SameCopy(v.mirrors[t], x.mirrors[t])
  <2>1. Known(x) = Known(z)
    BY <1>8 DEF Fed, FedUpTo
  <2>2. ASSUME NEW t \in Known(v) \ {u} PROVE SameCopy(z.mirrors[t], x.mirrors[t])
    <3>1. \A k \in 1..Len(s) : s[k].uri # t
      BY <1>9
    <3> QED BY <1>6, <1>8, <3>1 DEF Fed, FedUpTo
  <2> QED BY <1>6, <2>1, <2>2 DEF SameCopy
<1>11. u \in Known(z) /\ s = v.mirrors[u].buffered
  BY <1>15, <1>6
<1>12. x.mirrors[u].primed = m.primed
  BY <1>3, <1>6, <1>8, <1>11 DEF Fed, FedUpTo
<1>13. AsOf(v, x, u, m.confirmed, m.applied)
  <2>1. x.mirrors[u].buffered = << >> /\ m.applied <= x.mirrors[u].applied
    BY <1>3, <1>6, <1>8, <1>11 DEF Fed, FedUpTo
  <2>2. \A k \in 1..Len(s) : s[k].seq <= x.mirrors[u].applied
    BY <1>8, <1>9, <1>11 DEF Fed, FedUpTo
  <2>3. \A h \in Waits(v, u) : h <= x.mirrors[u].applied
    BY <1>9, <1>11, <2>2 DEF Waits
  <2>4. Copied(m0, u) /\ Following(m.applied, u, s) => Copied(x.mirrors[u], u)
    BY <1>3, <1>6, <1>8, <1>11 DEF Fed, FedUpTo
  <2>5. m.confirmed = StateAt(log, u, m.applied) /\ m.applied <= Len(log) => Copied(m0, u)
    BY <1>3 DEF Copied
  <2> QED BY <1>11, <2>1, <2>3, <2>4, <2>5 DEF AsOf
<1>14. SeesOf(v, x, Waits(v, u))
  <2>1. z.seen <= x.seen /\ (x.seen = z.seen \/ \E k \in 1..Len(s) : x.seen = s[k].seq)
    BY <1>8 DEF Fed, FedUpTo
  <2> QED BY <1>6, <1>9, <1>11, <2>1 DEF SeesOf, Waits
<1> QED BY <1>8, <1>10, <1>12, <1>13, <1>14 DEF x, w

\* #drain changes one copy, by what it held back.
LEMMA DrainHere ==
  ASSUME HubTypes, NEW v \in Plain(Told), NEW u \in Known(v)
  PROVE  LET x == Drain(v, u)
         IN  /\ x \in Plain(Told) /\ Known(x) = Known(v)
             /\ \A t \in Known(v) \ {u} : SameCopy(v.mirrors[t], x.mirrors[t])
             /\ x.mirrors[u].primed = v.mirrors[u].primed
             /\ AsOf(v, x, u, v.mirrors[u].confirmed, v.mirrors[u].applied)
             /\ SeesOf(v, x, Waits(v, u))
<1> DEFINE m == v.mirrors[u]
           x == Drain(With(v, u, m), u)
<1>1. m \in Mirrors(Told) /\ v = [mirrors |-> v.mirrors, seen |-> v.seen, outcome |-> v.outcome]
        /\ v.mirrors \in [Known(v) -> Mirrors(Told)]
  BY PlainParts
<1>2. With(v, u, m) = v
  BY <1>1 DEF With
<1> HIDE DEF m
<1>3. m.buffered = v.mirrors[u].buffered
  BY DEF m
<1>4. /\ x \in Plain(Told) /\ Known(x) = Known(v)
      /\ \A t \in Known(v) \ {u} : SameCopy(v.mirrors[t], x.mirrors[t])
      /\ x.mirrors[u].primed = m.primed
      /\ AsOf(v, x, u, m.confirmed, m.applied)
      /\ SeesOf(v, x, Waits(v, u))
  BY <1>1, <1>3, DrainTakes
<1> HIDE DEF x
<1>5. x = Drain(v, u)
  BY <1>2 DEF x
<1> QED BY <1>4, <1>5 DEF m

\* A mirror and its restated form are the same copy.
LEMMA AsOfSame ==
  ASSUME NEW v, NEW w, NEW x, NEW u, NEW c, NEW a, AsOf(v, w, u, c, a),
         SameCopy(w.mirrors[u], x.mirrors[u])
  PROVE  AsOf(v, x, u, c, a)
BY DEF AsOf, SameCopy, Copied

\* What a mirror is restated from may be looked up in any view that is the same there.
LEMMA AsOfFrom ==
  ASSUME NEW v, NEW w, NEW x, NEW u, NEW c, NEW a, AsOf(w, x, u, c, a),
         SameCopy(v.mirrors[u], w.mirrors[u])
  PROVE  AsOf(v, x, u, c, a) /\ Waits(v, u) = Waits(w, u)
BY DEF AsOf, SameCopy, Waits

\* One channel is restated, the others stay as they are.
RestatedAt(v, w, u, c, a) ==
  /\ Known(w) = Known(v)
  /\ \A t \in Known(v) \ {u} : SameCopy(v.mirrors[t], w.mirrors[t])
  /\ w.mirrors[u].primed
  /\ AsOf(v, w, u, c, a)

\* #applySnapshot: the copy is the snapshot, moved on by what it held back.
LEMMA SnapshotTakes ==
  ASSUME HubTypes, NEW v \in Plain(Told), NEW t \in Snapshots, t.uri \in Known(v)
  PROVE  LET w == ApplySnapshot(v, t)
         IN  /\ w \in Plain(Told) /\ RestatedAt(v, w, t.uri, t.state, t.fromSeq)
             /\ SeesOf(v, w, Waits(v, t.uri) \cup {t.fromSeq})
<1> DEFINE u == t.uri
           k == IF t.fromSeq > v.seen THEN t.fromSeq ELSE v.seen
           m == [v.mirrors[u] EXCEPT !.confirmed = t.state, !.applied = t.fromSeq,
                                     !.primed = TRUE]
           y == [v EXCEPT !.seen = k]
           w == With(y, u, m)
           x == Drain(w, u)
<1>1. v.mirrors[u] \in Mirrors(Told) /\ v.seen \in Nat /\ t.fromSeq \in Nat
        /\ v = [mirrors |-> v.mirrors, seen |-> v.seen, outcome |-> v.outcome]
        /\ v.mirrors \in [Known(v) -> Mirrors(Told)]
  BY PlainParts DEF Snapshots
<1>2. m \in Mirrors(Told) /\ m.buffered = v.mirrors[u].buffered /\ m.primed
        /\ m.confirmed = t.state /\ m.applied = t.fromSeq
  BY <1>1 DEF Mirrors, Snapshots
<1>3. k \in Nat /\ v.seen <= k /\ (k = v.seen \/ k = t.fromSeq)
  BY <1>1
<1>4. y \in Plain(Told) /\ y.mirrors = v.mirrors /\ Known(y) = Known(v) /\ y.seen = k
  <2> HIDE DEF k
  <2>1. v \in Views(Told, Numbers, {}, Uris)
    BY DEF Plain
  <2>2. [v EXCEPT !.seen = k] \in Views(Told, Numbers, {}, Uris)
    BY <1>3, <2>1, SeenChanged
  <2>3. y = [mirrors |-> v.mirrors, seen |-> k, outcome |-> v.outcome]
    BY <1>1
  <2> QED BY <2>2, <2>3 DEF Plain, Known
<1>5. ApplySnapshot(v, t) = Restate(x, u)
  <2>1. ApplySnapshot(v, t) =
          Restate(Drain(See([v EXCEPT !.mirrors[u] = m], t.fromSeq), u), u)
    BY DEF ApplySnapshot
  <2> HIDE DEF m, u
  <2>2. See([v EXCEPT !.mirrors[u] = m], t.fromSeq) = w
    BY <1>1 DEF See, With
  <2> QED BY <2>1, <2>2
<1> HIDE DEF m, k
<1> HIDE DEF y
<1>6. /\ x \in Plain(Told) /\ Known(x) = Known(y)
      /\ \A r \in Known(y) \ {u} : SameCopy(y.mirrors[r], x.mirrors[r])
      /\ x.mirrors[u].primed = m.primed
      /\ AsOf(y, x, u, m.confirmed, m.applied)
      /\ SeesOf(y, x, Waits(y, u))
  <2>1. u \in Known(y) /\ m.buffered = y.mirrors[u].buffered
    BY <1>2, <1>4
  <2> HIDE DEF u
  <2> QED BY <1>2, <1>4, <2>1, DrainTakes
<1> HIDE DEF x, w
<1>7. u \in Known(x)
  BY <1>4, <1>6
<1> DEFINE z == Restate(x, u)
<1>8. z \in Plain(Told) /\ Same(x, z)
  BY <1>6, <1>7, RestateSame
<1> HIDE DEF z
<1>9. RestatedAt(v, z, u, t.state, t.fromSeq)
  <2>1. SameCopy(v.mirrors[u], y.mirrors[u]) /\ SameCopy(x.mirrors[u], z.mirrors[u])
    BY <1>4, <1>7, <1>8 DEF Same, SameCopy
  <2>2. AsOf(v, z, u, t.state, t.fromSeq)
    BY <1>2, <1>6, <2>1, AsOfSame, AsOfFrom
  <2> HIDE DEF u
  <2> QED BY <1>2, <1>4, <1>6, <1>8, <2>1, <2>2 DEF RestatedAt, Same, SameCopy
<1>10. SeesOf(v, z, Waits(v, u) \cup {t.fromSeq})
  <2>1. SeesOf(v, y, {t.fromSeq})
    BY <1>3, <1>4 DEF SeesOf
  <2>2. SeesOf(x, z, {})
    BY <1>6, <1>8, PlainParts DEF SeesOf, Same
  <2>3. SeesOf(v, x, {t.fromSeq} \cup Waits(y, u))
    BY <1>4, <1>6, <2>1, SeesTwice
  <2>4. SeesOf(v, z, ({t.fromSeq} \cup Waits(y, u)) \cup {})
    BY <1>6, <1>8, <2>2, <2>3, SeesTwice
  <2>5. Waits(y, u) = Waits(v, u)
    BY <1>4 DEF Waits
  <2>6. ({t.fromSeq} \cup Waits(y, u)) \cup {} = Waits(v, u) \cup {t.fromSeq}
    BY <2>5
  <2> QED BY <2>4, <2>6
<1> QED BY <1>5, <1>8, <1>9, <1>10 DEF z

\* #primeWithoutSnapshot: the copy is what it was, moved on by what it held back.
LEMMA PrimeTakes ==
  ASSUME HubTypes, NEW v \in Plain(Told), NEW u \in Known(v), ~v.mirrors[u].primed
  PROVE  LET w == PrimeWithoutSnapshot(v, u)
         IN  /\ w \in Plain(Told)
             /\ RestatedAt(v, w, u, v.mirrors[u].confirmed, v.mirrors[u].applied)
             /\ SeesOf(v, w, Waits(v, u))
<1> DEFINE m == [v.mirrors[u] EXCEPT !.primed = TRUE]
           w == With(v, u, m)
           x == Drain(w, u)
<1>1. v.mirrors[u] \in Mirrors(Told)
  BY PlainParts
<1>2. m \in Mirrors(Told) /\ m.buffered = v.mirrors[u].buffered /\ m.primed
        /\ m.confirmed = v.mirrors[u].confirmed /\ m.applied = v.mirrors[u].applied
  BY <1>1 DEF Mirrors
<1>3. PrimeWithoutSnapshot(v, u) = Restate(x, u)
  <2>1. PrimeWithoutSnapshot(v, u) = Restate(Drain([v EXCEPT !.mirrors[u].primed = TRUE], u), u)
    BY DEF PrimeWithoutSnapshot
  <2> QED BY <2>1 DEF With
<1> HIDE DEF m
<1>6. /\ x \in Plain(Told) /\ Known(x) = Known(v)
      /\ \A r \in Known(v) \ {u} : SameCopy(v.mirrors[r], x.mirrors[r])
      /\ x.mirrors[u].primed = m.primed
      /\ AsOf(v, x, u, m.confirmed, m.applied)
      /\ SeesOf(v, x, Waits(v, u))
  BY <1>2, DrainTakes
<1> HIDE DEF x, w
<1>7. u \in Known(x)
  BY <1>6
<1> DEFINE z == Restate(x, u)
<1>8. z \in Plain(Told) /\ Same(x, z)
  BY <1>6, <1>7, RestateSame
<1> HIDE DEF z
<1>9. RestatedAt(v, z, u, v.mirrors[u].confirmed, v.mirrors[u].applied)
  <2>1. SameCopy(x.mirrors[u], z.mirrors[u])
    BY <1>7, <1>8 DEF Same
  <2>2. AsOf(v, z, u, v.mirrors[u].confirmed, v.mirrors[u].applied)
    BY <1>2, <1>6, <2>1, AsOfSame
  <2> QED BY <1>2, <1>6, <1>8, <2>1, <2>2 DEF RestatedAt, Same, SameCopy
<1>10. SeesOf(v, z, Waits(v, u))
  BY <1>6, <1>8 DEF SeesOf, Same
<1> QED BY <1>3, <1>8, <1>9, <1>10 DEF z

-----------------------------------------------------------------------------
(* Several mirrors that are restated. *)

AllWaits(v) == UNION {Waits(v, u) : u \in Known(v)}

\* Snapshots of different channels.
OneEach(ss) == \A s, t \in ss : s.uri = t.uri => s = t

\* A view after these snapshots; what it has seen is what was held back, or in B.
Renewed(v, w, ss, B) ==
  /\ Known(w) = Known(v)
  /\ \A u \in Known(v) : (\A t \in ss : t.uri # u) => SameCopy(v.mirrors[u], w.mirrors[u])
  /\ \A t \in ss : t.uri \in Known(v) =>
       w.mirrors[t.uri].primed /\ AsOf(v, w, t.uri, t.state, t.fromSeq)
  /\ SeesOf(v, w, AllWaits(v) \cup B)

\* Nothing is renewed by no snapshot.
LEMMA RenewedNone ==
  ASSUME NEW v \in Plain(Told), NEW B
  PROVE  Renewed(v, v, {}, B)
<1>1. v.seen \in Nat
  BY PlainParts
<1> QED BY <1>1 DEF Renewed, SameCopy, SeesOf

\* One more snapshot, of a channel with a mirror ...
LEMMA RenewedOne ==
  ASSUME NEW v \in Plain(Told), NEW w \in Plain(Told), NEW x \in Plain(Told), NEW ss,
         NEW B, OneEach(ss), NEW t \in ss, Renewed(v, w, ss \ {t}, B), t.uri \in Known(v),
         RestatedAt(w, x, t.uri, t.state, t.fromSeq),
         SeesOf(w, x, Waits(w, t.uri) \cup B)
  PROVE  Renewed(v, x, ss, B)
<1> DEFINE u == t.uri
<1>1. \A s \in ss \ {t} : s.uri # u
  BY DEF OneEach
<1>2. Known(w) = Known(v) /\ Known(x) = Known(v) /\ SameCopy(v.mirrors[u], w.mirrors[u])
  BY <1>1 DEF Renewed, RestatedAt
<1>3. ASSUME NEW r \in Known(v), \A s \in ss : s.uri # r
      PROVE  SameCopy(v.mirrors[r], x.mirrors[r])
  <2>1. r # u
    BY <1>3
  <2>2. SameCopy(v.mirrors[r], w.mirrors[r])
    BY <1>3 DEF Renewed
  <2>3. SameCopy(w.mirrors[r], x.mirrors[r])
    BY <1>2, <2>1 DEF RestatedAt
  <2> QED BY <2>2, <2>3 DEF SameCopy
<1>4. x.mirrors[u].primed /\ AsOf(v, x, u, t.state, t.fromSeq) /\ Waits(v, u) = Waits(w, u)
  <2>1. AsOf(w, x, u, t.state, t.fromSeq) /\ x.mirrors[u].primed
    BY DEF RestatedAt
  <2> QED BY <1>2, <2>1, AsOfFrom
<1>5. ASSUME NEW s \in ss, s.uri \in Known(v), s # t
      PROVE  x.mirrors[s.uri].primed /\ AsOf(v, x, s.uri, s.state, s.fromSeq)
  <2>1. s.uri # u
    BY <1>1, <1>5
  <2>2. w.mirrors[s.uri].primed /\ AsOf(v, w, s.uri, s.state, s.fromSeq)
    BY <1>5 DEF Renewed
  <2>3. SameCopy(w.mirrors[s.uri], x.mirrors[s.uri])
    BY <1>2, <1>5, <2>1 DEF RestatedAt
  <2>4. AsOf(v, x, s.uri, s.state, s.fromSeq)
    BY <2>2, <2>3, AsOfSame
  <2> QED BY <2>2, <2>3, <2>4 DEF SameCopy
<1>6. SeesOf(v, x, AllWaits(v) \cup B)
  <2> DEFINE C == Waits(w, u) \cup B
             D == AllWaits(v) \cup B
  <2>1. SeesOf(w, x, C) /\ SeesOf(v, w, D)
    BY DEF Renewed
  <2>2. D \cup C = D
    BY <1>2, <1>4 DEF AllWaits
  <2> HIDE DEF C, D
  <2>3. SeesOf(v, x, D \cup C)
    BY <2>1, SeesTwice
  <2> QED BY <2>2, <2>3 DEF D
<1>7. \A s \in ss : s.uri \in Known(v) =>
        x.mirrors[s.uri].primed /\ AsOf(v, x, s.uri, s.state, s.fromSeq)
  BY <1>4, <1>5
<1> QED BY <1>2, <1>3, <1>6, <1>7 DEF Renewed

\* ... or without.
LEMMA RenewedSkips ==
  ASSUME NEW v, NEW w, NEW ss, NEW B, NEW t \in ss, Renewed(v, w, ss \ {t}, B),
         t.uri \notin Known(v)
  PROVE  Renewed(v, w, ss, B)
<1>1. \A u \in Known(v) : (\A s \in ss : s.uri # u) => SameCopy(v.mirrors[u], w.mirrors[u])
  BY DEF Renewed
<1>2. SeesOf(v, w, AllWaits(v) \cup B)
  BY DEF Renewed
<1>3. \A s \in ss : s.uri \in Known(v) =>
        w.mirrors[s.uri].primed /\ AsOf(v, w, s.uri, s.state, s.fromSeq)
  BY DEF Renewed
<1> QED BY <1>1, <1>2, <1>3 DEF Renewed

\* The snapshots of an answer.
LEMMA SnapshotsTake ==
  ASSUME HubTypes, NEW v \in Plain(Told), NEW ss \in SUBSET Snapshots, IsFiniteSet(ss),
         OneEach(ss)
  PROVE  /\ ApplySnapshots(v, ss) \in Plain(Told)
         /\ Renewed(v, ApplySnapshots(v, ss), ss, {t.fromSeq : t \in ss})
<1> DEFINE G == Plain(Told)
           B == {t.fromSeq : t \in ss}
           A == [T \in SUBSET ss |-> {w \in G : Renewed(v, w, T, B)}]
<1>1. ASSUME NEW s \in ss, NEW w \in G PROVE ApplySnapshot(w, s) \in G
  <2>1. CASE s.uri \in Known(w)
    BY <2>1, SnapshotTakes
  <2>2. CASE s.uri \notin Known(w)
    BY <2>2 DEF ApplySnapshot
  <2> QED BY <2>1, <2>2
<1>2. v \in A[{}]
  BY RenewedNone
<1>3. ASSUME NEW T \in SUBSET ss, NEW t \in T, NEW w \in G, w \in A[T \ {t}]
      PROVE  ApplySnapshot(w, t) \in A[T]
  <2>1. Renewed(v, w, T \ {t}, B) /\ Known(w) = Known(v)
    <3>1. Renewed(v, w, T \ {t}, B)
      BY <1>3
    <3> QED BY <3>1 DEF Renewed
  <2>2. OneEach(T) /\ t \in Snapshots
    BY DEF OneEach
  <2>3. CASE t.uri \in Known(w)
    <3> DEFINE x == ApplySnapshot(w, t)
    <3>1. /\ x \in Plain(Told) /\ RestatedAt(w, x, t.uri, t.state, t.fromSeq)
          /\ SeesOf(w, x, Waits(w, t.uri) \cup {t.fromSeq})
      BY <2>2, <2>3, SnapshotTakes
    <3> HIDE DEF x
    <3>2. t.uri \in Known(v)
      BY <2>1, <2>3
    <3>3. SeesOf(w, x, Waits(w, t.uri) \cup B)
      BY <3>1 DEF SeesOf
    <3> HIDE DEF B
    <3>4. Renewed(v, x, T, B)
      BY <2>1, <2>2, <3>1, <3>2, <3>3, RenewedOne
    <3> QED BY <3>1, <3>4 DEF x
  <2>4. CASE t.uri \notin Known(w)
    <3>1. Renewed(v, w, T, B)
      BY <2>1, <2>4, RenewedSkips
    <3> QED BY <2>4, <3>1 DEF ApplySnapshot
  <2> QED BY <2>3, <2>4
<1>4. ApplySnapshotsAlong(A, G, v, ss)
  <2> HIDE DEF A, G
  <2> QED BY <1>2, <1>3 DEF ApplySnapshotsAlong
<1>5. v \in G /\ ss \in SUBSET ss
  OBVIOUS
<1>6. A[ss] = {w \in G : Renewed(v, w, ss, B)}
  BY <1>5
<1> HIDE DEF A, G
<1>7. ApplySnapshots(v, ss) \in G /\ ApplySnapshots(v, ss) \in A[ss]
  BY <1>1, <1>4, <1>5, ApplySnapshotsReach
<1> QED BY <1>6, <1>7 DEF G

\* A mirror as a snapshot of its channel, whatever is pending.
Own(v, u) == [uri |-> u, state |-> v.mirrors[u].confirmed, fromSeq |-> v.mirrors[u].applied]

Owns(v, us) == {Own(v, u) : u \in us \cap Known(v)}

\* Mirrors that are the same copy are the same snapshot.
LEMMA OwnsSame ==
  ASSUME NEW v, NEW w, NEW us, Known(w) = Known(v),
         \A u \in us \cap Known(v) : SameCopy(v.mirrors[u], w.mirrors[u])
  PROVE  Owns(w, us) = Owns(v, us)
<1>1. \A u \in us \cap Known(v) : Own(v, u) = Own(w, u)
  BY DEF SameCopy, Own
<1> QED BY <1>1 DEF Owns

\* A snapshot that is applied after what is pending was given up.
LEMMA RestatedByTakes ==
  ASSUME HubTypes, NEW v \in Plain(Told), NEW t \in Snapshots, t.uri \in Known(v)
  PROVE  LET w == RestatedBy(v, t)
         IN  /\ w \in Plain(Told) /\ RestatedAt(v, w, t.uri, t.state, t.fromSeq)
             /\ SeesOf(v, w, Waits(v, t.uri) \cup {t.fromSeq})
<1> DEFINE u == t.uri
           x == Lose(v, u)
           y == ApplySnapshot(x, t)
<1>1. x \in Plain(Told) /\ Same(v, x)
  BY LoseSame
<1> HIDE DEF x
<1>2. u \in Known(x) /\ Known(x) = Known(v) /\ SameCopy(v.mirrors[u], x.mirrors[u])
  BY <1>1 DEF Same
<1>3. /\ y \in Plain(Told) /\ RestatedAt(x, y, u, t.state, t.fromSeq)
      /\ SeesOf(x, y, Waits(x, u) \cup {t.fromSeq})
  BY <1>1, <1>2, SnapshotTakes
<1> HIDE DEF y
<1>4. AsOf(v, y, u, t.state, t.fromSeq) /\ Waits(v, u) = Waits(x, u)
  <2>1. AsOf(x, y, u, t.state, t.fromSeq)
    BY <1>3 DEF RestatedAt
  <2> HIDE DEF u
  <2> QED BY <1>2, <2>1, AsOfFrom
<1>5. RestatedAt(v, y, u, t.state, t.fromSeq)
  <2>1. \A r \in Known(v) \ {u} : SameCopy(v.mirrors[r], y.mirrors[r])
    BY <1>1, <1>2, <1>3 DEF RestatedAt, Same, SameCopy
  <2> QED BY <1>2, <1>3, <1>4, <2>1 DEF RestatedAt
<1>6. SeesOf(v, y, Waits(v, u) \cup {t.fromSeq})
  BY <1>1, <1>3, <1>4 DEF SeesOf, Same
<1>7. RestatedBy(v, t) = y
  BY DEF RestatedBy, x, y
<1> QED BY <1>3, <1>5, <1>6, <1>7

\* The snapshots of a reconnect.
LEMMA RestateAllTakes ==
  ASSUME HubTypes, NEW v \in Plain(Told), NEW ss \in SUBSET Snapshots, IsFiniteSet(ss),
         OneEach(ss)
  PROVE  /\ RestateAll(v, ss) \in Plain(Told)
         /\ Renewed(v, RestateAll(v, ss), ss, {t.fromSeq : t \in ss})
<1> DEFINE G == Plain(Told)
           B == {t.fromSeq : t \in ss}
           A == [T \in SUBSET ss |-> {w \in G : Renewed(v, w, T, B)}]
<1>1. ASSUME NEW s \in ss, NEW w \in G PROVE RestatedBy(w, s) \in G
  <2>1. CASE s.uri \in Known(w)
    BY <2>1, RestatedByTakes
  <2>2. CASE s.uri \notin Known(w)
    BY <2>2 DEF RestatedBy
  <2> QED BY <2>1, <2>2
<1>2. v \in A[{}]
  BY RenewedNone
<1>3. ASSUME NEW T \in SUBSET ss, NEW t \in T, NEW w \in G, w \in A[T \ {t}]
      PROVE  RestatedBy(w, t) \in A[T]
  <2>1. Renewed(v, w, T \ {t}, B) /\ Known(w) = Known(v)
    <3>1. Renewed(v, w, T \ {t}, B)
      BY <1>3
    <3> QED BY <3>1 DEF Renewed
  <2>2. OneEach(T) /\ t \in Snapshots
    BY DEF OneEach
  <2>3. CASE t.uri \in Known(w)
    <3> DEFINE x == RestatedBy(w, t)
    <3>1. /\ x \in Plain(Told) /\ RestatedAt(w, x, t.uri, t.state, t.fromSeq)
          /\ SeesOf(w, x, Waits(w, t.uri) \cup {t.fromSeq})
      BY <2>2, <2>3, RestatedByTakes
    <3> HIDE DEF x
    <3>2. t.uri \in Known(v)
      BY <2>1, <2>3
    <3>3. SeesOf(w, x, Waits(w, t.uri) \cup B)
      BY <3>1 DEF SeesOf
    <3> HIDE DEF B
    <3>4. Renewed(v, x, T, B)
      BY <2>1, <2>2, <3>1, <3>2, <3>3, RenewedOne
    <3> QED BY <3>1, <3>4 DEF x
  <2>4. CASE t.uri \notin Known(w)
    <3>1. Renewed(v, w, T, B)
      BY <2>1, <2>4, RenewedSkips
    <3> QED BY <2>4, <3>1 DEF RestatedBy
  <2> QED BY <2>3, <2>4
<1>4. RestateAllAlong(A, G, v, ss)
  <2> HIDE DEF A, G
  <2> QED BY <1>2, <1>3 DEF RestateAllAlong
<1>5. v \in G /\ ss \in SUBSET ss
  OBVIOUS
<1>6. A[ss] = {w \in G : Renewed(v, w, ss, B)}
  BY <1>5
<1> HIDE DEF A, G
<1>7. RestateAll(v, ss) \in G /\ RestateAll(v, ss) \in A[ss]
  BY <1>1, <1>4, <1>5, RestateAllReach
<1> QED BY <1>6, <1>7 DEF G

\* A channel that is restated from its own copy.
LEMMA OwnTakes ==
  ASSUME NEW v \in Plain(Told), NEW w \in Plain(Told), NEW x \in Plain(Told), NEW us,
         NEW B, NEW u \in us \cap Known(v), Renewed(v, w, Owns(v, us \ {u}), B),
         RestatedAt(w, x, u, w.mirrors[u].confirmed, w.mirrors[u].applied),
         SeesOf(w, x, Waits(w, u))
  PROVE  Renewed(v, x, Owns(v, us), B)
<1> DEFINE t == Own(v, u)
<1>1. OneEach(Owns(v, us)) /\ t \in Owns(v, us) /\ Owns(v, us) \ {t} = Owns(v, us \ {u})
  <2>1. t \in Owns(v, us) /\ Owns(v, us) \ {t} = Owns(v, us \ {u})
    BY DEF Owns, Own
  <2>2. OneEach(Owns(v, us))
    BY DEF Owns, Own, OneEach
  <2> QED BY <2>1, <2>2
<1>2. t.uri = u /\ t.state = v.mirrors[u].confirmed /\ t.fromSeq = v.mirrors[u].applied
  BY DEF Own
<1>3. SameCopy(v.mirrors[u], w.mirrors[u])
  <2>1. \A s \in Owns(v, us \ {u}) : s.uri # u
    BY DEF Owns, Own
  <2> QED BY <2>1 DEF Renewed
<1> HIDE DEF t
<1>4. RestatedAt(w, x, t.uri, t.state, t.fromSeq)
  BY <1>2, <1>3 DEF SameCopy
<1>5. SeesOf(w, x, Waits(w, t.uri) \cup B) /\ t.uri \in Known(v)
  BY <1>2 DEF SeesOf
<1> DEFINE ss == Owns(v, us)
<1>6. OneEach(ss) /\ t \in ss /\ Renewed(v, w, ss \ {t}, B)
  BY <1>1
<1> HIDE DEF ss
<1>7. Renewed(v, x, ss, B)
  BY <1>4, <1>5, <1>6, RenewedOne
<1> QED BY <1>7 DEF ss

\* Channels that get no snapshot.
LEMMA PrimeAllTakes ==
  ASSUME HubTypes, NEW v \in Plain(Told), NEW us, IsFiniteSet(us)
  PROVE  LET ws == {u \in us \cap Known(v) : ~v.mirrors[u].primed}
         IN  PrimeAll(v, us) \in Plain(Told) /\ Renewed(v, PrimeAll(v, us), Owns(v, ws), {})
<1> DEFINE G == Plain(Told)
           ws == {u \in us \cap Known(v) : ~v.mirrors[u].primed}
           A == [T \in SUBSET us |-> {w \in G : Renewed(v, w, Owns(v, ws \cap T), {})}]
<1>1. ASSUME NEW u \in us, NEW w \in G PROVE PrimeWithoutSnapshot(w, u) \in G
  <2>1. CASE u \in Known(w) /\ ~w.mirrors[u].primed
    BY <2>1, PrimeTakes
  <2>2. CASE ~(u \in Known(w) /\ ~w.mirrors[u].primed)
    BY <2>2 DEF PrimeWithoutSnapshot
  <2> QED BY <2>1, <2>2
<1>2. v \in A[{}]
  <2>1. Owns(v, ws \cap {}) = {}
    BY DEF Owns
  <2> QED BY <2>1, RenewedNone
<1>3. ASSUME NEW T \in SUBSET us, NEW u \in T, NEW w \in G, w \in A[T \ {u}]
      PROVE  PrimeWithoutSnapshot(w, u) \in A[T]
  <2> DEFINE vs == ws \cap T
             x == PrimeWithoutSnapshot(w, u)
  <2>1. Renewed(v, w, Owns(v, ws \cap (T \ {u})), {}) /\ ws \cap (T \ {u}) = vs \ {u}
    BY <1>3
  <2>2. Known(w) = Known(v)
    BY <2>1 DEF Renewed
  <2>3. u \in Known(v) => SameCopy(v.mirrors[u], w.mirrors[u])
    <3>1. \A s \in Owns(v, vs \ {u}) : s.uri # u
      BY DEF Owns, Own
    <3> QED BY <2>1, <3>1 DEF Renewed
  <2>4. CASE u \in vs
    <3>1. u \in Known(w) /\ ~w.mirrors[u].primed
      BY <2>2, <2>3, <2>4 DEF SameCopy
    <3>2. /\ x \in Plain(Told)
          /\ RestatedAt(w, x, u, w.mirrors[u].confirmed, w.mirrors[u].applied)
          /\ SeesOf(w, x, Waits(w, u))
      BY <3>1, PrimeTakes
    <3>3. u \in vs \cap Known(v)
      BY <2>4
    <3> HIDE DEF x, vs
    <3>4. Renewed(v, x, Owns(v, vs), {})
      BY <2>1, <3>2, <3>3, OwnTakes
    <3> QED BY <3>2, <3>4 DEF x, vs
  <2>5. CASE u \notin vs
    <3>1. x = w
      BY <2>2, <2>3, <2>5 DEF PrimeWithoutSnapshot, SameCopy
    <3>2. vs \ {u} = vs
      BY <2>5
    <3> QED BY <2>1, <3>1, <3>2
  <2> QED BY <2>4, <2>5
<1>4. PrimeAllAlong(A, G, v, us)
  <2> HIDE DEF A, G
  <2> QED BY <1>2, <1>3 DEF PrimeAllAlong
<1>5. v \in G /\ us \in SUBSET us /\ ws \cap us = ws
  OBVIOUS
<1>6. A[us] = {w \in G : Renewed(v, w, Owns(v, ws), {})}
  BY <1>5
<1> HIDE DEF A, G
<1>7. PrimeAll(v, us) \in G /\ PrimeAll(v, us) \in A[us]
  BY <1>1, <1>4, <1>5, PrimeAllReach
<1> QED BY <1>6, <1>7 DEF G

\* What a replay leaves: every channel takes what it held back, and gives up what is pending.
LEMMA LoseAllTakes ==
  ASSUME HubTypes, NEW v \in Plain(Told), IsFiniteSet(Known(v)),
         \A u \in Known(v) : v.mirrors[u].primed
  PROVE  /\ LoseAll(v, Known(v)) \in Plain(Told)
         /\ Renewed(v, LoseAll(v, Known(v)), Owns(v, Known(v)), {})
<1> DEFINE G == Plain(Told)
           us == Known(v)
           A == [T \in SUBSET us |-> {w \in G : Renewed(v, w, Owns(v, T), {})}]
           Step(w, u) == Restate(Lose(Drain(w, u), u), u)
<1>1. ASSUME NEW w \in G, NEW u \in Known(w)
      PROVE  LET x == Step(w, u)
             IN  /\ x \in Plain(Told) /\ SeesOf(w, x, Waits(w, u))
                 /\ w.mirrors[u].primed =>
                      RestatedAt(w, x, u, w.mirrors[u].confirmed, w.mirrors[u].applied)
  <2> DEFINE x == Drain(w, u)
             y == Lose(x, u)
             z == Restate(y, u)
  <2>1. /\ x \in Plain(Told) /\ Known(x) = Known(w)
        /\ \A t \in Known(w) \ {u} : SameCopy(w.mirrors[t], x.mirrors[t])
        /\ x.mirrors[u].primed = w.mirrors[u].primed
        /\ AsOf(w, x, u, w.mirrors[u].confirmed, w.mirrors[u].applied)
        /\ SeesOf(w, x, Waits(w, u))
    BY DrainHere
  <2> HIDE DEF x
  <2>2. u \in Known(x)
    BY <2>1
  <2>3. y \in Plain(Told) /\ Same(x, y)
    BY <2>1, <2>2, LoseSame
  <2> HIDE DEF y
  <2>4. u \in Known(y)
    BY <2>2, <2>3 DEF Same
  <2>5. z \in Plain(Told) /\ Same(y, z)
    BY <2>3, <2>4, RestateSame
  <2> HIDE DEF z
  <2>6. Same(x, z)
    BY <2>3, <2>5, SameTransitive
  <2>7. SameCopy(x.mirrors[u], z.mirrors[u])
    BY <2>2, <2>6 DEF Same
  <2>8. AsOf(w, z, u, w.mirrors[u].confirmed, w.mirrors[u].applied)
    BY <2>1, <2>7, AsOfSame
  <2>9. RestatedAt(w, z, u, w.mirrors[u].confirmed, w.mirrors[u].applied) \/ ~w.mirrors[u].primed
    BY <2>1, <2>6, <2>7, <2>8 DEF RestatedAt, Same, SameCopy
  <2>10. SeesOf(w, z, Waits(w, u))
    BY <2>1, <2>6 DEF SeesOf, Same
  <2> QED BY <2>5, <2>9, <2>10 DEF x, y, z
<1> HIDE DEF Step
<1>2. ASSUME NEW u \in us, NEW w \in G PROVE u \in Known(w) => Step(w, u) \in G
  BY <1>1
<1>3. v \in A[{}]
  <2>1. Owns(v, {}) = {}
    BY DEF Owns
  <2> QED BY <2>1, RenewedNone
<1> DEFINE H == {w \in G : Known(w) = us}
<1>4. ASSUME NEW u \in us, NEW w \in H PROVE Step(w, u) \in H
  <2>1. Step(w, u) \in G
    BY <1>2
  <2>2. Known(Step(w, u)) = Known(w)
    <3> DEFINE x == Drain(w, u)
               y == Lose(x, u)
    <3>1. x \in Plain(Told) /\ Known(x) = Known(w)
      BY DrainHere
    <3>2. u \in Known(x)
      BY <3>1
    <3> HIDE DEF x
    <3>3. y \in Plain(Told) /\ Same(x, y)
      BY <3>1, <3>2, LoseSame
    <3> HIDE DEF y
    <3>4. u \in Known(y) /\ Known(y) = Known(x)
      BY <3>2, <3>3 DEF Same
    <3>5. Same(y, Restate(y, u))
      BY <3>3, <3>4, RestateSame
    <3> QED BY <3>1, <3>4, <3>5 DEF Same, Step, x, y
  <2> QED BY <2>1, <2>2
<1>5. ASSUME NEW T \in SUBSET us, NEW u \in T, NEW w \in H, w \in A[T \ {u}]
      PROVE  Step(w, u) \in A[T]
  <2>1. Renewed(v, w, Owns(v, T \ {u}), {}) /\ w \in G /\ Known(w) = us
    BY <1>5
  <2>2. SameCopy(v.mirrors[u], w.mirrors[u])
    <3>1. \A s \in Owns(v, T \ {u}) : s.uri # u
      BY DEF Owns, Own
    <3> QED BY <2>1, <3>1 DEF Renewed
  <2>3. u \in Known(w) /\ w.mirrors[u].primed /\ u \in T \cap Known(v)
    BY <2>1, <2>2 DEF SameCopy
  <2> DEFINE x == Step(w, u)
  <2>4. /\ x \in Plain(Told) /\ SeesOf(w, x, Waits(w, u))
        /\ RestatedAt(w, x, u, w.mirrors[u].confirmed, w.mirrors[u].applied)
    BY <1>1, <2>1, <2>3
  <2> HIDE DEF x
  <2>5. Renewed(v, x, Owns(v, T), {})
    BY <2>1, <2>3, <2>4, OwnTakes
  <2> QED BY <2>4, <2>5 DEF x
<1>6. LoseAllAlong(A, H, v, us)
  <2> HIDE DEF A, H, us
  <2>1. \A T \in SUBSET us : \A u \in T, w \in H :
          w \in A[T \ {u}] => Restate(Lose(Drain(w, u), u), u) \in A[T]
    BY <1>5 DEF Step
  <2> QED BY <1>3, <2>1 DEF LoseAllAlong
<1>7. v \in H /\ us \in SUBSET us
  OBVIOUS
<1>8. A[us] = {w \in G : Renewed(v, w, Owns(v, us), {})}
  BY <1>7
<1>9. \A u \in us, w \in H : Restate(Lose(Drain(w, u), u), u) \in H
  BY <1>4 DEF Step
<1>10. IsFiniteSet(us)
  OBVIOUS
<1> HIDE DEF A, H, us
<1>11. LoseAll(v, us) \in H /\ LoseAll(v, us) \in A[us]
  BY <1>6, <1>7, <1>9, <1>10, LoseAllReach
<1> QED BY <1>8, <1>11 DEF us

\* Snapshots, and then channels that are restated from their own copies.
LEMMA RenewedTwice ==
  ASSUME NEW v \in Plain(Told), NEW w \in Plain(Told), NEW x \in Plain(Told), NEW ss,
         NEW us, NEW B, \A t \in ss : t.uri \notin us, us \subseteq Known(v),
         Renewed(v, w, ss, B), Renewed(w, x, Owns(w, us), {})
  PROVE  Renewed(v, x, ss \cup Owns(v, us), B)
<1>1. Known(w) = Known(v) /\ Known(x) = Known(v)
  BY DEF Renewed
<1>2. \A u \in us : SameCopy(v.mirrors[u], w.mirrors[u])
  BY DEF Renewed
<1>3. Owns(w, us) = Owns(v, us) /\ us \cap Known(w) = us
  BY <1>1, <1>2, OwnsSame
<1>4. \A t \in Owns(v, us) : t.uri \in us
  BY DEF Owns, Own
<1>5. ASSUME NEW u \in Known(v), \A t \in ss \cup Owns(v, us) : t.uri # u
      PROVE  SameCopy(v.mirrors[u], x.mirrors[u])
  <2>1. SameCopy(v.mirrors[u], w.mirrors[u])
    BY <1>5 DEF Renewed
  <2>2. SameCopy(w.mirrors[u], x.mirrors[u])
    BY <1>1, <1>3, <1>5 DEF Renewed
  <2> QED BY <2>1, <2>2 DEF SameCopy
<1>6. ASSUME NEW t \in ss, t.uri \in Known(v)
      PROVE  x.mirrors[t.uri].primed /\ AsOf(v, x, t.uri, t.state, t.fromSeq)
  <2>1. w.mirrors[t.uri].primed /\ AsOf(v, w, t.uri, t.state, t.fromSeq)
    BY <1>6 DEF Renewed
  <2>2. \A s \in Owns(w, us) : s.uri # t.uri
    BY <1>3, <1>4
  <2>3. SameCopy(w.mirrors[t.uri], x.mirrors[t.uri])
    BY <1>1, <1>6, <2>2 DEF Renewed
  <2>4. AsOf(v, x, t.uri, t.state, t.fromSeq)
    BY <2>1, <2>3, AsOfSame
  <2> QED BY <2>1, <2>3, <2>4 DEF SameCopy
<1>7. ASSUME NEW t \in Owns(v, us)
      PROVE  x.mirrors[t.uri].primed /\ AsOf(v, x, t.uri, t.state, t.fromSeq)
  <2>1. t \in Owns(w, us) /\ t.uri \in us
    BY <1>3, <1>4
  <2>2. x.mirrors[t.uri].primed /\ AsOf(w, x, t.uri, t.state, t.fromSeq)
    BY <1>1, <2>1 DEF Renewed
  <2>3. SameCopy(v.mirrors[t.uri], w.mirrors[t.uri])
    BY <1>2, <2>1
  <2>4. AsOf(v, x, t.uri, t.state, t.fromSeq)
    BY <2>2, <2>3, AsOfFrom
  <2> QED BY <2>2, <2>4
<1>8. AllWaits(w) \subseteq AllWaits(v)
  <2> SUFFICES ASSUME NEW u \in Known(v) PROVE Waits(w, u) \subseteq Waits(v, u)
    BY <1>1 DEF AllWaits
  <2>1. CASE \E t \in ss : t.uri = u
    <3>1. PICK t \in ss : t.uri = u
      BY <2>1
    <3>2. AsOf(v, w, t.uri, t.state, t.fromSeq)
      BY <3>1 DEF Renewed
    <3>3. w.mirrors[u].buffered = << >>
      BY <3>1, <3>2 DEF AsOf
    <3> QED BY <3>3 DEF Waits
  <2>2. CASE ~\E t \in ss : t.uri = u
    <3>1. SameCopy(v.mirrors[u], w.mirrors[u])
      BY <2>2 DEF Renewed
    <3> QED BY <3>1 DEF Waits, SameCopy
  <2> QED BY <2>1, <2>2
<1>9. SeesOf(v, x, AllWaits(v) \cup B)
  <2> DEFINE C == AllWaits(w) \cup {}
             D == AllWaits(v) \cup B
  <2>1. SeesOf(v, w, D) /\ SeesOf(w, x, C)
    BY DEF Renewed
  <2>2. D \cup C = D
    BY <1>8
  <2> HIDE DEF C, D
  <2>3. SeesOf(v, x, D \cup C)
    BY <2>1, SeesTwice
  <2> QED BY <2>2, <2>3 DEF D
<1>10. \A u \in Known(v) : (\A t \in ss \cup Owns(v, us) : t.uri # u) =>
         SameCopy(v.mirrors[u], x.mirrors[u])
  BY <1>5
<1>11. \A t \in ss \cup Owns(v, us) : t.uri \in Known(v) =>
         x.mirrors[t.uri].primed /\ AsOf(v, x, t.uri, t.state, t.fromSeq)
  BY <1>6, <1>7
<1> QED BY <1>1, <1>9, <1>10, <1>11 DEF Renewed

\* The snapshots of an answer, and the channels that got none.
Unserved(v, us, ss) == {u \in us \cap Known(v) : ~v.mirrors[u].primed /\ \A t \in ss : t.uri # u}

\* Snapshots, and then mirrors that are primed without one.
LEMMA ServedThenPrimed ==
  ASSUME HubTypes, NEW v \in Plain(Told), NEW w \in Plain(Told), NEW ss, NEW B,
         Renewed(v, w, ss, B), NEW us, IsFiniteSet(us)
  PROVE  LET x == PrimeAll(w, us)
         IN  x \in Plain(Told) /\ Renewed(v, x, ss \cup Owns(v, Unserved(v, us, ss)), B)
<1> DEFINE ws == {u \in us \cap Known(w) : ~w.mirrors[u].primed}
           vs == Unserved(v, us, ss)
           x == PrimeAll(w, us)
<1>1. Known(w) = Known(v)
  BY DEF Renewed
<1>2. ws = vs
  <2>1. ASSUME NEW u \in us \cap Known(v)
        PROVE  ~w.mirrors[u].primed <=> ~v.mirrors[u].primed /\ \A t \in ss : t.uri # u
    <3>1. CASE \A t \in ss : t.uri # u
      <4>1. SameCopy(v.mirrors[u], w.mirrors[u])
        BY <3>1 DEF Renewed
      <4> QED BY <3>1, <4>1 DEF SameCopy
    <3>2. CASE \E t \in ss : t.uri = u
      <4>1. w.mirrors[u].primed
        BY <3>2 DEF Renewed
      <4> QED BY <3>2, <4>1
    <3> QED BY <3>1, <3>2
  <2> QED BY <1>1, <2>1 DEF Unserved
<1>3. x \in Plain(Told) /\ Renewed(w, x, Owns(w, ws), {})
  BY PrimeAllTakes
<1> HIDE DEF x, ws
<1>4. vs \subseteq Known(v) /\ \A t \in ss : t.uri \notin vs
  BY DEF Unserved
<1> HIDE DEF vs
<1>5. Renewed(w, x, Owns(w, vs), {})
  BY <1>2, <1>3
<1>6. Renewed(v, x, ss \cup Owns(v, vs), B)
  BY <1>3, <1>4, <1>5, RenewedTwice
<1> QED BY <1>3, <1>6 DEF x, vs

\* The answers to hello and subscribe: each channel from its snapshot, or from what it had.
LEMMA ApplyAllTakes ==
  ASSUME HubTypes, NEW v \in Plain(Told), NEW ss \in SUBSET Snapshots, IsFiniteSet(ss),
         OneEach(ss), NEW us, IsFiniteSet(us)
  PROVE  LET x == ApplyAll(v, ss, us)
         IN  /\ x \in Plain(Told)
             /\ Renewed(v, x, ss \cup Owns(v, Unserved(v, us, ss)), {t.fromSeq : t \in ss})
<1> DEFINE w == ApplySnapshots(v, ss)
           x == PrimeAll(w, us)
           B == {t.fromSeq : t \in ss}
<1>1. w \in Plain(Told) /\ Renewed(v, w, ss, B)
  BY SnapshotsTake
<1> HIDE DEF w
<1>2. x \in Plain(Told) /\ Renewed(v, x, ss \cup Owns(v, Unserved(v, us, ss)), B)
  BY <1>1, ServedThenPrimed
<1>3. x = ApplyAll(v, ss, us)
  BY DEF ApplyAll, PrimeAll, ApplySnapshots, w
<1> HIDE DEF x
<1> QED BY <1>2, <1>3

-----------------------------------------------------------------------------
(* Mirrors that catch up. *)

\* Sequence d is past sequence a and past the envelopes of s on channel u.
Past(d, a, u, s) == a <= d /\ \A k \in DOMAIN s : s[k].uri = u => s[k].seq <= d

\* Three sequences of envelopes, one after the other, leave no gap in channel u after a.
Chained(a, u, s1, s2, s3) ==
  /\ Following(a, u, s1)
  /\ \A d \in Nat : Past(d, a, u, s1) => Following(d, u, s2)
  /\ \A d \in Nat : Past(d, a, u, s1) /\ Past(d, a, u, s2) => Following(d, u, s3)

\* A mirror of channel u that was restated from c as of a, and then took these envelopes.
Caught(m, u, c, a, s1, s2, s3) ==
  /\ m.primed /\ m.buffered = << >>
  /\ Past(m.applied, a, u, s1) /\ Past(m.applied, a, u, s2) /\ Past(m.applied, a, u, s3)
  /\ c = StateAt(log, u, a) /\ a <= Len(log) /\ Chained(a, u, s1, s2, s3) => Copied(m, u)

SeqsOf(s) == {s[k].seq : k \in DOMAIN s}

\* What was held back before a mirror was restated, and then the envelopes of s.
LEMMA AsOfThenFed ==
  ASSUME HubTypes, NEW v \in Plain(Told), NEW w \in Plain(Told), NEW x \in Plain(Told),
         NEW u \in Known(v), Known(w) = Known(v), NEW c, NEW a \in Nat, AsOf(v, w, u, c, a),
         w.mirrors[u].primed, NEW s \in Seq(Told), Fed(w, x, s)
  PROVE  Caught(x.mirrors[u], u, c, a, v.mirrors[u].buffered, s, << >>)
<1> DEFINE held == v.mirrors[u].buffered
           m == w.mirrors[u]
           n == x.mirrors[u]
<1>1. /\ n.primed /\ n.buffered = << >> /\ m.applied <= n.applied /\ a <= m.applied
      /\ \A k \in 1..Len(s) : s[k].uri = u => s[k].seq <= n.applied
      /\ Copied(m, u) /\ Following(m.applied, u, s) => Copied(n, u)
  BY DEF Fed, FedUpTo, AsOf
<1>2. m.applied \in Nat /\ n.applied \in Nat /\ held \in Seq(For(Told, u)) /\ u \in Known(x)
  <2>1. u \in Known(w) /\ u \in Known(x)
    BY DEF Fed, FedUpTo
  <2> QED BY <2>1, PlainParts
<1>3. \A k \in DOMAIN held : held[k].uri = u /\ held[k].seq \in Nat
  <2>1. Told \in SUBSET Envelopes
    BY ToldAreEnvelopes
  <2> QED BY <1>2, <2>1 DEF For, Envelopes
<1>4. \A k \in DOMAIN held : held[k].seq <= m.applied
  BY DEF AsOf, Waits
<1>5. DOMAIN s = 1..Len(s)
  OBVIOUS
<1>6. Past(m.applied, a, u, held)
  BY <1>1, <1>4 DEF Past
<1>7. Past(n.applied, a, u, held) /\ Past(n.applied, a, u, s) /\ Past(n.applied, a, u, << >>)
  <2>1. a <= n.applied
    BY <1>1, <1>2
  <2>2. \A k \in DOMAIN held : held[k].seq <= n.applied
    BY <1>1, <1>2, <1>3, <1>4
  <2> QED BY <1>1, <1>5, <2>1, <2>2 DEF Past
<1>8. ASSUME c = StateAt(log, u, a), a <= Len(log), Chained(a, u, held, s, << >>)
      PROVE  Copied(n, u)
  <2>1. Copied(m, u)
    BY <1>8 DEF AsOf, Chained
  <2>2. Following(m.applied, u, s)
    BY <1>2, <1>6, <1>8 DEF Chained
  <2> QED BY <1>1, <2>1, <2>2
<1> HIDE DEF held, m, n
<1>9. Caught(n, u, c, a, held, s, << >>)
  BY <1>1, <1>7, <1>8 DEF Caught
<1> QED BY <1>9 DEF n, held

\* The envelopes that move the sequence seen.
LEMMA FedSees ==
  ASSUME NEW v, NEW w, NEW s \in Seq(Told), Fed(v, w, s)
  PROVE  SeesOf(v, w, SeqsOf(s))
<1>1. DOMAIN s = 1..Len(s)
  OBVIOUS
<1> QED BY <1>1 DEF Fed, FedUpTo, SeesOf, SeqsOf

\* Every mirror is restated, and then takes the envelopes of s.
LEMMA RenewedThenFed ==
  ASSUME HubTypes, NEW v \in Plain(Told), NEW w \in Plain(Told), NEW ss \in SUBSET Snapshots,
         NEW B, Renewed(v, w, ss, B), \A u \in Known(v) : \E t \in ss : t.uri = u,
         NEW s \in Seq(Told)
  PROVE  LET x == InboundAll(w, s)
         IN  /\ x \in Plain(Told) /\ Known(x) = Known(v)
             /\ \A t \in ss : t.uri \in Known(v) =>
                  Caught(x.mirrors[t.uri], t.uri, t.state, t.fromSeq,
                         v.mirrors[t.uri].buffered, s, << >>)
             /\ SeesOf(v, x, (AllWaits(v) \cup B) \cup SeqsOf(s))
<1> DEFINE x == InboundAll(w, s)
<1>1. Known(w) = Known(v) /\ \A u \in Known(w) : w.mirrors[u].primed
  BY DEF Renewed
<1>2. x \in Plain(Told) /\ Fed(w, x, s)
  BY <1>1, InboundAllFed
<1> HIDE DEF x
<1>3. ASSUME NEW t \in ss, t.uri \in Known(v)
      PROVE  Caught(x.mirrors[t.uri], t.uri, t.state, t.fromSeq, v.mirrors[t.uri].buffered, s, << >>)
  <2> DEFINE u == t.uri
             c == t.state
             a == t.fromSeq
  <2>1. AsOf(v, w, u, c, a) /\ w.mirrors[u].primed /\ a \in Nat /\ u \in Known(v)
    BY <1>3 DEF Renewed, Snapshots
  <2> HIDE DEF u, c, a
  <2>2. Caught(x.mirrors[u], u, c, a, v.mirrors[u].buffered, s, << >>)
    BY <1>1, <1>2, <2>1, AsOfThenFed
  <2> QED BY <2>2 DEF u, c, a
<1>4. Known(x) = Known(v)
  BY <1>1, <1>2 DEF Fed, FedUpTo
<1>5. SeesOf(v, x, (AllWaits(v) \cup B) \cup SeqsOf(s))
  <2> DEFINE C == AllWaits(v) \cup B
  <2>1. SeesOf(v, w, C)
    BY DEF Renewed
  <2>2. SeesOf(w, x, SeqsOf(s))
    BY <1>2, FedSees
  <2> HIDE DEF C
  <2>3. SeesOf(v, x, C \cup SeqsOf(s))
    BY <1>2, <2>1, <2>2, SeesTwice
  <2> QED BY <2>3 DEF C
<1> QED BY <1>2, <1>3, <1>4, <1>5 DEF x

=============================================================================
