------------------------------- MODULE Mirror -------------------------------
(***************************************************************************)
(* How the client of client.ts keeps a copy of a channel: the confirmed    *)
(* state, the actions it applied optimistically on top of it, and the      *)
(* envelopes it holds back until the state is restated.                    *)
(*                                                                         *)
(* The operators work on a view, the part of a client that reconciliation  *)
(* changes: its mirrors by URI, the highest sequence it has seen, and how  *)
(* each of its dispatches ended.  A state is the sequence of the actions   *)
(* reduced into it: clientSeq for an action of this client, minus the      *)
(* server sequence for anybody else's (an envelope with n = 0).            *)
(***************************************************************************)
EXTENDS Integers, Sequences, FiniteSetsExt, SequencesExt, Functions, Selection

Outcome == {"unused", "open", "confirmed", "rejected", "duplicate", "lost"}

Tag(e) == IF e.n > 0 THEN e.n ELSE -e.seq

\* What a channel's state is once every accepted action of its envelopes is reduced.
Reduced(envelopes) ==
  LET accepted == Selected(envelopes, {i \in DOMAIN envelopes : envelopes[i].accepted})
  IN  [i \in DOMAIN accepted |-> Tag(accepted[i])]

\* The state of channel u as of a sequence of the log.
StateAt(envelopes, u, seq) ==
  Reduced(Selected(envelopes,
    {i \in DOMAIN envelopes : envelopes[i].uri = u /\ envelopes[i].seq <= seq}))

\* #mirror: a copy that starts from the route's initial state.
NewMirror(primed) ==
  [confirmed |-> << >>, optimistic |-> << >>, pending |-> << >>, applied |-> 0,
   primed |-> primed, buffered |-> << >>]

Known(v) == DOMAIN v.mirrors

\* Mirrors that wait for their state, for the channels of us that have none.
WithMirrors(v, us) ==
  [v EXCEPT !.mirrors = [u \in Known(v) \cup us |->
     IF u \in Known(v) THEN @[u] ELSE NewMirror(FALSE)]]

\* #see
See(v, seq) == [v EXCEPT !.seen = IF seq > @ THEN seq ELSE @]

\* Ends a dispatch; only the first outcome counts.
Settle(v, n, outcome) ==
  IF v.outcome[n] = "open" THEN [v EXCEPT !.outcome[n] = outcome] ELSE v

SettleAll(v, ns, outcome) ==
  [v EXCEPT !.outcome = [n \in DOMAIN @ |->
     IF n \in ns /\ @[n] = "open" THEN outcome ELSE @[n]]]

\* Mutant: a refused action is reported like any other.
OutcomeOfAny(e) == "confirmed"

OutcomeOf(e) == IF e.accepted THEN "confirmed" ELSE "rejected"

\* #restate: the pending actions replayed on the confirmed state.
Restated(m) == [m EXCEPT !.optimistic = m.confirmed \o m.pending]
Restate(v, u) == [v EXCEPT !.mirrors[u] = Restated(@)]

\* A queue of pending actions without number n.
Without(ns, n) == Selected(ns, {i \in DOMAIN ns : ns[i] # n})

\* #lose: gives up every action still pending on a channel.
Lose(v, u) ==
  [SettleAll(v, Range(v.mirrors[u].pending), "lost") EXCEPT !.mirrors[u].pending = << >>]

\* #forget
Forget(v, u) ==
  IF u \notin Known(v) THEN v
  ELSE [Lose(v, u) EXCEPT !.mirrors = Restrict(@, Known(v) \ {u})]

ForgetAll(v, us) == FoldSet(LAMBDA u, w : Forget(w, u), v, us)

-----------------------------------------------------------------------------
(* Reconciliation. *)

\* Settles what an own envelope decides: its action, and whatever was sent before it.
Echo(v, e) ==
  LET m == v.mirrors[e.uri]
      earlier == {n \in Range(m.pending) : n < e.n}
      w == SettleAll(SettleAll(v, earlier, "lost"),
                     Range(m.pending) \cap {e.n}, OutcomeOf(e))
  IN  [w EXCEPT !.mirrors[e.uri].pending = Selected(@, {i \in DOMAIN @ : @[i] > e.n})]

\* Moves the confirmed state forward by one envelope.
Advance(v, e) ==
  [See(v, e.seq) EXCEPT
     !.mirrors[e.uri].applied = e.seq,
     !.mirrors[e.uri].confirmed = IF e.accepted THEN Append(@, Tag(e)) ELSE @]

\* Mutant: an envelope that is already part of the state is applied again.
ReconcileTwice(v, e) ==
  Restate(Advance(IF e.n > 0 THEN Echo(v, e) ELSE v, e), e.uri)

\* #reconcile
Reconcile(v, e) ==
  LET w == IF e.n > 0 THEN Echo(v, e) ELSE v
      x == IF e.seq <= w.mirrors[e.uri].applied THEN w ELSE Advance(w, e)
  IN  Restate(x, e.uri)

\* #inbound: an envelope for a channel that is about to be restated waits.
Inbound(v, e) ==
  IF e.uri \notin Known(v) THEN v
  ELSE IF v.mirrors[e.uri].primed THEN Reconcile(v, e)
  ELSE [v EXCEPT !.mirrors[e.uri].buffered = Append(@, e)]

InboundAll(v, envelopes) == FoldLeft(Inbound, v, envelopes)

\* #drain
Drain(v, u) ==
  FoldLeft(Reconcile, [v EXCEPT !.mirrors[u].buffered = << >>], v.mirrors[u].buffered)

\* Mutant: what arrived while the snapshot was on its way is forgotten.
ApplySnapshotAlone(v, s) ==
  IF s.uri \notin Known(v) THEN v
  ELSE Restate(See([v EXCEPT !.mirrors[s.uri] =
    [@ EXCEPT !.confirmed = s.state, !.applied = s.fromSeq, !.primed = TRUE,
              !.buffered = << >>]], s.fromSeq), s.uri)

\* #applySnapshot
ApplySnapshot(v, s) ==
  IF s.uri \notin Known(v) THEN v
  ELSE LET w == [v EXCEPT !.mirrors[s.uri] =
                   [@ EXCEPT !.confirmed = s.state, !.applied = s.fromSeq, !.primed = TRUE]]
       IN  Restate(Drain(See(w, s.fromSeq), s.uri), s.uri)

\* #primeWithoutSnapshot
PrimeWithoutSnapshot(v, u) ==
  IF u \notin Known(v) \/ v.mirrors[u].primed THEN v
  ELSE Restate(Drain([v EXCEPT !.mirrors[u].primed = TRUE], u), u)

\* Snapshots of several channels, then the channels that got none.
ApplyAll(v, snapshots, us) ==
  FoldSet(LAMBDA u, w : PrimeWithoutSnapshot(w, u),
          FoldSet(LAMBDA s, w : ApplySnapshot(w, s), v, snapshots), us)

\* Holds envelopes back until the channels are restated; what was held back is dropped.
Unprime(v, us) ==
  [v EXCEPT !.mirrors = [u \in Known(v) |->
     IF u \in us THEN [@[u] EXCEPT !.primed = FALSE, !.buffered = << >>] ELSE @[u]]]

\* Mutant: the optimistic state keeps an action that was given up.
DiscardUnseen(v, u, n, outcome) ==
  IF u \in Known(v)
  THEN Settle([v EXCEPT !.mirrors[u].pending = Without(@, n)], n, outcome)
  ELSE Settle(v, n, outcome)

\* #discard
Discard(v, u, n, outcome) ==
  IF u \in Known(v)
  THEN Restate(Settle([v EXCEPT !.mirrors[u].pending = Without(@, n)],
                      n, outcome), u)
  ELSE Settle(v, n, outcome)
=============================================================================
