--------------------------- MODULE HubProperties ----------------------------
(***************************************************************************)
(* What the hub must do right.  Its safety properties are proved in        *)
(* HubProofs; liveness is model-checked.                                   *)
(***************************************************************************)
EXTENDS Hub

Positions(h) == DOMAIN inbox[h]

\* The envelopes a link received live, by position.
IsAction(h, i) == inbox[h][i].kind = "action"

\* The broadcast order is the order of sequence numbers, and no number is used for two
\* envelopes: not by two commits at once, not after a failed write, not after a restart.
LogIncreasing ==
  \A i, j \in DOMAIN log : i < j => log[i].seq < log[j].seq

\* Nobody is sent an envelope whose sequence a restart could hand out again: the number
\* is in the storage before the broadcast (#commit writes it first).
DeliveredIsDurable ==
  \A i \in DOMAIN log : log[i].seq <= storedSeq

\* Two links (or two incarnations of the hub) that are sent one sequence number are sent
\* one envelope.
SameSeqSameEnvelope ==
  \A g, h \in Conns : \A i \in Positions(g), j \in Positions(h) :
    /\ IsAction(g, i) /\ IsAction(h, j)
    /\ inbox[g][i].seq = inbox[h][j].seq
    => inbox[g][i] = inbox[h][j]

\* A link receives envelopes in the order of their sequence numbers, each at most once.
DeliveryInOrder ==
  \A h \in Conns : \A i, j \in Positions(h) :
    i < j /\ IsAction(h, i) /\ IsAction(h, j) => inbox[h][i].seq < inbox[h][j].seq

\* The mutex: the calls that wait or commit are those in the queue, and only its head is
\* past the entrance.
CommitsExclude ==
  \A c \in Calls :
    /\ pc[c] \in Locked => lock # << >> /\ Head(lock) = c
    /\ pc[c] \in Locked \cup {"queued"} <=> \E i \in DOMAIN lock : lock[i] = c

-----------------------------------------------------------------------------
\* The envelopes h received live.
Told(h) == {inbox[h][i] : i \in {j \in Positions(h) : IsAction(h, j)}}

Commits == INSTANCE CommitLog
  WITH Links <- Conns, stored <- storedSeq, told <- [h \in Conns |-> Told(h)]

\* #commit implements the abstract log: its two writes, its append and its broadcast come
\* down to "reserve a number durably, then publish under it", through failed writes,
\* restarts, dead sockets and replaced links.
ImplementsCommitLog == Commits!Spec

-----------------------------------------------------------------------------
\* What the messages at the positions in which reduce the state start to, in their order.
Applied(start, messages, which) ==
  LET after[i \in 0..Len(messages)] ==
        IF i = 0 THEN start
        ELSE IF i \in which THEN Append(after[i - 1], messages[i].call) ELSE after[i - 1]
  IN after[Len(messages)]

\* The calls whose accepted actions on u have a sequence up to n, in that order.
AsOf(history, u, n) ==
  Applied(<< >>, history,
          {i \in DOMAIN history : history[i].uri = u /\ history[i].accepted /\ history[i].seq <= n})

Last(s) == s[Len(s)]

\* The log, and the envelope of the commit that has changed the object already.
Pending ==
  IF lock # << >> /\ pc[Head(lock)] \in {"persisting", "sequencing"}
  THEN Append(log, EnvelopeOf(Head(lock))) ELSE log

Horizon == serverSeq + 1   \* above every sequence number that was taken

\* Event sourcing: the state in memory and the state in the storage are both what the
\* accepted envelopes reduce to, in order, whatever was rejected in between.
StateIsTheLog ==
  \A u \in Uris \ Stateless :
    instances[u] # None =>
      /\ heap[u][instances[u]] = AsOf(Pending, u, Horizon)
      /\ storage[u] = AsOf(Pending, u, Horizon)

\* The links of one client take turns.  What a link has committed is in the order of its
\* clientSeq, none twice; and once a later link of the same client has committed, the
\* earlier one is gone and commits nothing more.  (A link numbers from its own watermark,
\* 0 at first: an action that is sent again on a new link is committed again.)
CommitsFollowClient ==
  \A i, j \in DOMAIN log :
    LET a == arg[log[i].call]
        b == arg[log[j].call]
    IN i < j /\ a.conn # None /\ b.conn # None /\ ClientOf[a.conn] = ClientOf[b.conn] =>
         IF a.conn = b.conn THEN a.clientSeq < b.clientSeq
         ELSE /\ link[a.conn] = "gone"
              /\ \A k \in DOMAIN log : k > j => arg[log[k].call].conn # a.conn

\* Position in h's transcript of the last snapshot of u, or 0.
LastSnapshot(h, u) ==
  LET at == {i \in Positions(h) : inbox[h][i].kind = "snapshots"
                                   /\ \E s \in inbox[h][i].snapshots : s.uri = u}
  IN IF at = {} THEN 0 ELSE CHOOSE i \in at : \A j \in at : j <= i

SnapshotAt(h, u, i) == CHOOSE s \in inbox[h][i].snapshots : s.uri = u

\* What a client that applies every later envelope to its last snapshot holds.
Mirror(h, u) ==
  LET at   == LastSnapshot(h, u)
      base == SnapshotAt(h, u, at)
  IN Applied(base.state, inbox[h],
             {i \in Positions(h) : /\ i > at /\ IsAction(h, i) /\ inbox[h][i].uri = u
                                   /\ inbox[h][i].accepted /\ inbox[h][i].seq > base.fromSeq})

\* The highest sequence the mirror of u accounts for.
Seen(h, u) ==
  LET from == SnapshotAt(h, u, LastSnapshot(h, u)).fromSeq
  IN IF log = << >> \/ Last(log).seq < from THEN from ELSE Last(log).seq

Replays(h) == {i \in Positions(h) : inbox[h][i].kind = "replay"}

Reconnecting(h) ==
  \E c \in Calls : /\ pc[c] \notin {"idle"} \cup Settled
                   /\ arg[c].op = "reconnect" /\ arg[c].conn = h

\* No reconnect is under way, and none was answered by a replay since the last snapshot
\* (ResumedSeesAll is about those).
Following(h, u) ==
  /\ LastSnapshot(h, u) # 0 /\ ~Reconnecting(h)
  /\ \A i \in Replays(h) : i < LastSnapshot(h, u)

MirrorIsExact(h, u) ==
  Following(h, u) => Mirror(h, u) = AsOf(Pending, u, Seen(h, u))

\* The last snapshot shows an action whose envelope is still to come.
Torn(h, u) ==
  /\ LastSnapshot(h, u) # 0
  /\ LET s == SnapshotAt(h, u, LastSnapshot(h, u)) IN s.state # AsOf(Pending, u, s.fromSeq)

\* A subscribed link that applies every later envelope to its last snapshot holds what
\* the log says, unless that snapshot was taken between the two writes of a commit.
MirrorFollowsLogUnlessTorn ==
  \A h \in Conns : \A u \in subs[h] : MirrorIsExact(h, u) \/ Torn(h, u)

\* The same without the exception.  channel.ts:94 and README.md:590 promise it: a snapshot
\* is the state as of fromSeq, and every later envelope has a higher sequence.
MirrorFollowsLog ==
  \A h \in Conns : \A u \in subs[h] : MirrorIsExact(h, u)

\* A snapshot is never more than one commit ahead of its fromSeq, and never behind it.
SnapshotAtMostOneAhead ==
  \A h \in Conns : \A i \in Positions(h) : inbox[h][i].kind = "snapshots" =>
    \A s \in inbox[h][i].snapshots :
      \E n \in {s.fromSeq, s.fromSeq + 1} : s.state = AsOf(Pending, s.uri, n)

-----------------------------------------------------------------------------
(* Reconnection and the identity of links. *)

\* A link resumed by a replay misses nothing: every envelope of a channel it is still
\* subscribed to came in the replay, or live, before or after it.
ResumedSeesAll ==
  \A h \in Conns : \A i \in Replays(h) :
    LET m == inbox[h][i] IN
    (~Reconnecting(h) /\ \A j \in Replays(h) : j <= i) =>
      \A u \in m.resumed \cap subs[h] : LastSnapshot(h, u) < i =>
        \A k \in DOMAIN log :
          log[k].uri = u /\ log[k].seq > m.lastSeen =>
            log[k] \in m.actions \cup {inbox[h][j] : j \in Positions(h)}

\* A replay carries exactly what was broadcast after lastSeen on the channels the link was
\* resumed on: nothing of a channel that was denied, is internal or does not exist.
ReplayIsExact ==
  [][\A h \in Conns :
       LET m == Last(inbox'[h]) IN
       inbox'[h] # inbox[h] /\ m.kind = "replay" =>
         /\ m.resumed = subs'[h] /\ m.resumed \cap Internal = {}
         /\ m.actions = {log[i] : i \in {j \in DOMAIN log :
                            log[j].uri \in m.resumed /\ log[j].seq > m.lastSeen}}]_vars

\* At most one link per client ID, so a client's actions have one watermark at a time.
OneLinkPerClient ==
  \A g, h \in Conns : Live(g) /\ Live(h) /\ ClientOf[g] = ClientOf[h] => g = h

\* Once a handle was replaced or disconnected it stays so: no call still running on its
\* behalf revives it, subscribes it, or sends it anything.
StaleIsInert ==
  [][\A h \in Conns : link[h] = "gone" =>
       link'[h] = "gone" /\ subs'[h] = {} /\ inbox'[h] = inbox[h]]_vars

\* No connection is ever subscribed to, or told anything of, an internal route.
InternalHidden ==
  \A h \in Conns :
    /\ subs[h] \cap Internal = {}
    /\ \A i \in Positions(h) : IsAction(h, i) => inbox[h][i].uri \notin Internal

-----------------------------------------------------------------------------
(* Lifecycle, and progress. *)

\* README.md:395: destroy(uri) deletes the persisted state; a later subscribe or dispatch
\* throws ChannelNotFoundError.  (Read in runs that create nothing.)
DestroyedStaysDestroyed ==
  \A c \in Calls :
    pc[c] = "done" /\ arg[c].op = "destroy" /\ arg[c].uri \notin Singletons
      => storage[arg[c].uri] = Absent

\* README.md:593: one mutex serializes commits hub-wide, so no accepted action is lost.
\* (Read in runs that destroy nothing and in which no write fails.)
AcceptedActionsSurvive ==
  \A i \in DOMAIN log : log[i].accepted =>
    \E k \in DOMAIN storage[log[i].uri] : storage[log[i].uri][k] = log[i].call

\* The event loop runs every turn that is due, the storage answers and host code returns.
FairSpec == Spec /\ WF_vars(Hydrate) /\ \A c \in Calls : WF_vars(Resume(c))

\* Every call that was issued settles: a commit that throws hands the mutex on, and an
\* effect or a handler that dispatches does not wait for a mutex it holds itself.
EveryCallSettles ==
  \A c \in Calls : pc[c] = "begin" ~> pc[c] \in Settled
=============================================================================
