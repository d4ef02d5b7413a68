------------------------- MODULE SessionProperties --------------------------
(***************************************************************************)
(* What a client and its hub must do right together.                       *)
(***************************************************************************)
EXTENDS Session

\* Everything is where it belongs, and the log is numbered without gaps.
TypeOK ==
  /\ reader \in 0..MaxSockets /\ detached \subseteq Sockets /\ link \in 0..MaxSockets
  /\ subs \subseteq Uris /\ subscribed \subseteq Uris /\ gone \subseteq Mortal
  /\ Known(view) \subseteq Uris /\ view.seen \in Nat
  /\ view.outcome \in [1..MaxDispatch -> Outcome]
  /\ nextSeq \in 1..(MaxDispatch + 1) /\ nextId \in Nat
  /\ \A i \in DOMAIN log : log[i].seq = i
  /\ Len(ring) <= ReplayLimit

-----------------------------------------------------------------------------
(* What the mirrors show. *)

\* The confirmed state of a channel is the hub's as of the sequence the client has applied
\* to it, whatever the order in which answers and broadcasts arrive, and also after a
\* restart from a checkpoint (#reconcile, #applySnapshot, #restore).  Not of a channel
\* that was destroyed: a commit that was under way then is answered, but broadcast to
\* nobody, and the next answer is applied without it.
ConfirmedIsLog ==
  \A u \in Known(view) \ gone :
    view.mirrors[u].confirmed = StateAt(log, u, view.mirrors[u].applied)

\* The confirmed states are copies that follow the log and never go back.
Followed == INSTANCE Follower WITH
  position <- [u \in Known(view) |-> view.mirrors[u].applied],
  shown    <- [u \in Known(view) |-> view.mirrors[u].confirmed]

ImplementsFollower == Followed!Spec

\* Envelopes on their way to the mirrors.
InFlight ==
  UNION {Range(m.buffered) : m \in Range(view.mirrors)}
    \cup Range(early)
    \cup IF Connected THEN Range(down[reader]) ELSE {}

\* Whatever a reconnect will not ask for again, because the client has seen a later
\* sequence (#see), has been applied or is about to be.  A destroyed channel is excepted,
\* as above.
NothingSkipped ==
  \A u \in (subscribed \cap Known(view)) \ gone : \A i \in DOMAIN log :
    /\ log[i].uri = u
    /\ i > view.mirrors[u].applied /\ i <= view.seen
    => log[i] \in InFlight

\* What the application renders is the confirmed state with the pending actions on top,
\* whichever of the ways out of pending an action took (#restate).
OptimisticIsCurrent ==
  \A u \in Known(view) :
    view.mirrors[u].optimistic = view.mirrors[u].confirmed \o view.mirrors[u].pending

\* A subscribed channel has a mirror: #persist takes it for granted.
SubscribedHasMirror == subscribed \subseteq Known(view)

-----------------------------------------------------------------------------
(* How dispatches end. *)

Committed(n) == {log[i] : i \in {j \in DOMAIN log : log[j].n = n}}

\* A dispatch that settled as confirmed or rejected is in the log as that (outcomeOf).
OutcomesAreTrue ==
  \A n \in 1..MaxDispatch :
    view.outcome[n] \in {"confirmed", "rejected"} =>
      \E e \in Committed(n) : e.accepted = (view.outcome[n] = "confirmed")

\* A dispatch that settled as a duplicate is in the log: "the hub dedupes on it".
DuplicatesWereCommitted ==
  \A n \in 1..MaxDispatch : view.outcome[n] = "duplicate" => Committed(n) # {}

\* A number is never used for two actions, not even by a process that restarts from a
\* checkpoint: dispatch saves the next number before it sends (#request).
OncePerNumber == \A n \in 1..MaxDispatch : Cardinality(Committed(n)) <= 1

\* While the link is up somebody waits for every dispatch that has not ended, so that an
\* answer or a timer ends it; what an earlier link left open, reconnect has settled.
OpenIsAwaited ==
  ready => \A n \in 1..MaxDispatch : view.outcome[n] = "open" =>
    \/ \E r \in waiting : r.method = "dispatch" /\ r.n = n
    \/ \E i \in DOMAIN flushing : flushing[i].n = n

-----------------------------------------------------------------------------
(* Agreement. *)

\* Nothing is under way between the two.
Quiet ==
  /\ ready /\ link = reader /\ waiting = {} /\ flushing = << >>
  /\ up[reader] = << >> /\ down[reader] = << >> /\ job[reader] = Idle

\* When nothing is under way the hub has every subscription the client believes in, and
\* the client shows what the hub has, with nothing pending: no envelope was dropped
\* between a subscription and its snapshot, or between two links.  A channel that was
\* destroyed is excepted: its subscriptions end without a word to the client.
QuietAgrees ==
  Quiet => /\ subscribed \ gone \subseteq subs
           /\ \A u \in subscribed \ Stateless :
                u \in Known(view) /\ view.mirrors[u].pending = << >>
           /\ \A u \in (subscribed \ Stateless) \ gone :
                view.mirrors[u].confirmed = StateAt(log, u, Len(log))
=============================================================================
