------------------------------- MODULE Client -------------------------------
(***************************************************************************)
(* DurableChannelClient of client.ts: the calls of the application, the    *)
(* frames it receives, its timers, and its checkpoints.                    *)
(*                                                                         *)
(* A frame and everything that follows from it without waiting is one      *)
(* action: the transports hand over one frame per event, and the           *)
(* continuations of an answer run before the next event.  Saving a         *)
(* checkpoint takes time.  A turn that changes what a checkpoint contains  *)
(* queues one save, as the microtask of #persist does.                     *)
(*                                                                         *)
(* The identity is always accepted, and notifications, events and commands *)
(* are left out: they change nothing that is modelled here.                *)
(***************************************************************************)
EXTENDS Wire, Mirror

CONSTANTS
  Durable,      \* whether the client was given a storage
  Habits,       \* what the application does beyond one call at a time for a channel:
                \* "overlap", "resubscribe", "rehello"
  Troubles,     \* which of "timeout", "save" (fails), "kill" and "shutdown" may happen
  MaxDispatch,  \* bound: dispatches
  MaxRequests,  \* bound: requests, dispatches included
  None          \* no checkpoint

ASSUME ClientAssumption ==
  /\ IsFiniteSet(Uris) /\ Durable \in BOOLEAN /\ MaxDispatch \in Nat /\ MaxRequests \in Nat
  /\ Habits \subseteq {"overlap", "resubscribe", "rehello"}
  /\ Troubles \subseteq {"timeout", "save", "kill", "shutdown"}

VARIABLES
  current,                 \* #transport: the socket attached last
  done, initialized,       \* #done, #initialized
  ready, early,            \* #handshakeReady, #handshakeMessages
  view,                    \* #mirrors, #lastSeenServerSeq, and the ends of dispatches
  subscribed,              \* #subscribed
  waiting,                 \* #requests, with what their callers go on with
  nextId, nextSeq,         \* #nextRequestId, #nextClientSeq
  writable,                \* #checkpointWritable
  saves,                   \* #persistQueue: the checkpoints to be saved
  failed,                  \* #persistFailed
  flushing,                \* the callers inside flushPersistence, in the order they resume
  stored                   \* the storage

linkState  == <<current, done, initialized>>
shakeState == <<ready, early>>
callState  == <<waiting, nextId>>
saveState  == <<saves, failed, flushing, stored>>
clientVars == <<linkState, shakeState, view, subscribed, callState, nextSeq, writable,
                saveState>>

ClientInit ==
  /\ current = 1 /\ done = FALSE /\ initialized = FALSE
  /\ ready = FALSE /\ early = << >>
  /\ view = [mirrors |-> << >>, seen |-> 0,
             outcome |-> [n \in 1..MaxDispatch |-> "unused"]]
  /\ subscribed = {} /\ waiting = {} /\ nextId = 1 /\ nextSeq = 1
  /\ writable = FALSE /\ saves = << >> /\ failed = FALSE /\ flushing = << >>
  /\ stored = None

Connected == reader # 0

-----------------------------------------------------------------------------
(* Requests. *)

\* uris: the channels it is about; created: the mirrors it made.
Request(method, uris, created) ==
  [id |-> nextId, method |-> method, uris |-> uris, uri |-> CHOOSE u \in Uris : TRUE,
   created |-> created, n |-> 0, seen |-> 0]

DispatchRequest(id, u, n) ==
  [id |-> id, method |-> "dispatch", uris |-> {u}, uri |-> u, created |-> {}, n |-> n,
   seen |-> 0]

\* The requests that will restate a channel of us: a handshake restates the whole link.
Restating(us) ==
  {r \in waiting : /\ r.method # "dispatch"
                  /\ r.method = "subscribe" => r.uris \cap us # {}}

\* Bound: a request that is not a dispatch leaves room for those still to come.
Room == nextId + MaxDispatch < MaxRequests + nextSeq

\* Sends a request and waits for its answer.
Ask(r) ==
  /\ up' = SentUp(up, reader, r)
  /\ waiting' = waiting \cup {r} /\ nextId' = nextId + 1

\* What the caller of a request does when it fails.  A transport that dies leaves a
\* dispatch to the reconnect.
Failure(v, r, why) ==
  IF r.method # "dispatch" THEN ForgetAll(v, r.created)
  ELSE IF why = "transport" THEN v
  ELSE Discard(v, r.uri, r.n, "lost")

Failures(v, requests, why) ==
  FoldSet(LAMBDA r, w : Failure(w, r, why), v, requests)

-----------------------------------------------------------------------------
(* Checkpoints. *)

\* Mutant: what is shown is saved as what is confirmed.
CheckpointOfShown(v, subs, seq) ==
  [nextSeq |-> seq, seen |-> v.seen,
   channels |-> [u \in subs \cap Known(v) |->
     [confirmed |-> v.mirrors[u].optimistic, applied |-> v.mirrors[u].applied,
      pending |-> v.mirrors[u].pending]]]

\* Mutant: the number in use is saved instead of the next one.
CheckpointOfNumberInUse(v, subs, seq) ==
  [nextSeq |-> IF seq = 1 THEN 1 ELSE seq - 1, seen |-> v.seen,
   channels |-> [u \in subs \cap Known(v) |->
     [confirmed |-> v.mirrors[u].confirmed, applied |-> v.mirrors[u].applied,
      pending |-> v.mirrors[u].pending]]]

Checkpoint(v, subs, seq) ==
  [nextSeq |-> seq, seen |-> v.seen,
   channels |-> [u \in subs \cap Known(v) |->
     [confirmed |-> v.mirrors[u].confirmed, applied |-> v.mirrors[u].applied,
      pending |-> v.mirrors[u].pending]]]

\* #persist at the end of a turn: a save is queued if there is something new to save.
Persist(must) ==
  saves' = IF /\ Durable /\ writable' /\ ~done'
              /\ must \/ Checkpoint(view', subscribed', nextSeq')
                           # Checkpoint(view, subscribed, nextSeq)
           THEN Append(saves, Checkpoint(view', subscribed', nextSeq'))
           ELSE saves

\* A caller inside flushPersistence waits for the last save queued (n = 0: shutdown).
Flush(n, u) == [n |-> n, uri |-> u, behind |-> Len(saves')]

-----------------------------------------------------------------------------
(* Handshakes. *)

\* #finishHandshake: what arrived during the handshake is handled now.
Finished(v) == InboundAll(v, early)

BeginHandshake ==
  /\ ready' = FALSE /\ writable' = FALSE /\ early' = << >>

Hello(us) ==
  /\ Connected /\ ~done /\ Room /\ (Durable /\ initialized => ready)
  /\ "overlap" \in Habits \/ Restating(Uris) = {}
  /\ "rehello" \in Habits \/ ~initialized
  /\ BeginHandshake
  /\ view' = WithMirrors(Unprime(view, us), us)
  /\ Ask(Request("hello", us, us \ Known(view)))
  /\ UNCHANGED <<down, reader, detached, linkState, subscribed, nextSeq, saveState>>

\* The answer to hello.
Welcome(r, result) ==
  LET v == ApplyAll(See(view, result.serverSeq), result.snapshots, r.uris) IN
  /\ view' = Finished(v) /\ subscribed' = subscribed \cup r.uris
  /\ ready' = TRUE /\ writable' = TRUE /\ early' = << >> /\ initialized' = TRUE

\* reconnect on socket s: the one in use, or a fresh one.  A fresh one fails the requests
\* of the old one.
Reconnect(s) ==
  /\ ~done /\ Room
  /\ \/ s = reader /\ ("overlap" \in Habits \/ Restating(Uris) = {})
     \/ s = current + 1 /\ s \in Sockets
  /\ BeginHandshake
  /\ LET fresh == s # current
         v     == Unprime(view, Known(view))
         r     == [Request("reconnect", subscribed, {}) EXCEPT !.seen = view.seen]
     IN  /\ reader' = s /\ current' = s
         /\ view' = IF fresh THEN Failures(v, waiting, "transport") ELSE v
         /\ waiting' = (IF fresh THEN {} ELSE waiting) \cup {r}
         /\ nextId' = nextId + 1
         /\ up' = SentUp(up, s, r)
         /\ down' = IF fresh THEN [down EXCEPT ![current] = << >>] ELSE down
  /\ UNCHANGED <<detached, done, initialized, subscribed, nextSeq, saveState>>

\* Mutant: what is still pending after a replay stays pending.
AfterReplayKept(v) ==
  FoldSet(LAMBDA u, w : Restate(Drain(w, u), u), v, Known(v))

\* What a replay did not settle is given up.
AfterReplay(v) ==
  LET w == FoldSet(LAMBDA u, x : Restate(Lose(Drain(x, u), u), u), v, Known(v))
  IN  SettleAll(w, DOMAIN w.outcome, "lost")

\* Mutant: a channel the hub refuses to resume stays subscribed.
ResumedByReplayAll(result) ==
  LET v == ForgetAll(view, result.missing)
      primed == [v EXCEPT !.mirrors = [u \in Known(v) |-> [@[u] EXCEPT !.primed = TRUE]]]
  IN  /\ view' = AfterReplay(Finished(InboundAll(primed, result.actions)))
      /\ UNCHANGED subscribed

\* The answer to reconnect, when the ring reached back far enough.
ResumedByReplay(result) ==
  LET v == ForgetAll(view, result.missing)
      primed == [v EXCEPT !.mirrors = [u \in Known(v) |-> [@[u] EXCEPT !.primed = TRUE]]]
  IN  /\ view' = AfterReplay(Finished(InboundAll(primed, result.actions)))
      /\ subscribed' = subscribed \ result.missing

\* The answer to reconnect, when it did not: a mirror without a snapshot is dropped.
ResumedBySnapshot(result) ==
  LET v        == ForgetAll(view, result.missing)
      given    == {t.uri : t \in result.snapshots} \cap Known(v)
      restated == FoldSet(LAMBDA t, w : IF t.uri \in Known(w)
                                        THEN ApplySnapshot(Lose(w, t.uri), t) ELSE w,
                          v, result.snapshots)
      dropped  == (Known(v) \ given) \ Stateless
      rest     == FoldSet(LAMBDA u, w : PrimeWithoutSnapshot(w, u), restated,
                          (Known(v) \ given) \cap Stateless)
      final    == Finished(ForgetAll(rest, dropped))
  IN  /\ view' = SettleAll(final, DOMAIN final.outcome, "lost")
      /\ subscribed' = subscribed \ (result.missing \cup dropped)

Resumed(result) ==
  /\ IF result.type = "replay" THEN ResumedByReplay(result) ELSE ResumedBySnapshot(result)
  /\ ready' = TRUE /\ writable' = TRUE /\ early' = << >> /\ initialized' = TRUE

-----------------------------------------------------------------------------
(* Subscriptions. *)

Subscribe(u) ==
  /\ Connected /\ ~done /\ Room
  /\ "overlap" \in Habits \/ (ready /\ Restating({u}) = {})
  /\ "resubscribe" \in Habits \/ u \notin subscribed
  /\ view' = WithMirrors(view, {u})
  /\ Ask([Request("subscribe", {u}, {u} \ Known(view)) EXCEPT !.uri = u])
  /\ UNCHANGED <<down, reader, detached, linkState, shakeState, subscribed, nextSeq,
                 writable, saveState>>

\* The answer to subscribe.
Joined(r, result) ==
  /\ subscribed' = subscribed \cup {r.uri}
  /\ view' = ApplyAll(view, result.snapshots,
                      IF result.snapshots = {} THEN {r.uri} ELSE {})
  /\ UNCHANGED <<shakeState, writable, initialized>>

Unsubscribe(u) ==
  /\ u \in Known(view) \cup subscribed
  /\ "overlap" \in Habits \/ Restating({u}) = {}
  /\ subscribed' = subscribed \ {u}
  /\ view' = Forget(view, u)
  /\ up' = IF Connected
           THEN SentUp(up, reader, [method |-> "unsubscribe", uri |-> u]) ELSE up
  /\ UNCHANGED <<linkState, shakeState, callState, nextSeq, writable, failed, flushing,
                 stored, down, reader, detached>>
  /\ Persist(FALSE)

-----------------------------------------------------------------------------
(* Dispatches. *)

\* Applies an action and sends it, with a storage only once it is saved.
Dispatch(u) ==
  /\ ready /\ nextSeq <= MaxDispatch /\ u \in Stateful
  /\ LET v == [view EXCEPT !.outcome[nextSeq] = "open"] IN
       view' = IF u \in Known(v)
               THEN Restate([v EXCEPT !.mirrors[u].pending = Append(@, nextSeq)], u) ELSE v
  /\ nextSeq' = nextSeq + 1
  /\ UNCHANGED <<linkState, shakeState, subscribed, writable, failed, stored, down, reader,
                 detached>>
  /\ Persist(TRUE)
  /\ IF Durable
     THEN flushing' = Append(flushing, Flush(nextSeq, u)) /\ UNCHANGED <<callState, up>>
     ELSE Ask(DispatchRequest(nextId, u, nextSeq)) /\ UNCHANGED flushing

\* #answered: the envelope, if it has not come as a broadcast already.
Answered(r, result) ==
  /\ view' =
       IF result.type = "duplicate" THEN Discard(view, r.uri, r.n, "duplicate")
       ELSE LET v == Inbound(view, result.envelope)
            IN  IF v.outcome[r.n] = "open"
                THEN Discard(v, r.uri, r.n, OutcomeOf(result.envelope)) ELSE v
  /\ UNCHANGED <<shakeState, subscribed, writable, initialized>>

-----------------------------------------------------------------------------
(* Frames. *)

Incoming(kind) ==
  /\ Connected /\ down[reader] # << >> /\ Head(down[reader]).kind = kind
  /\ down' = [down EXCEPT ![reader] = Tail(@)]

ReceivePush ==
  /\ Incoming("action")
  /\ LET e == Head(down[reader]) IN
       IF ready THEN view' = Inbound(view, e) /\ UNCHANGED early
                ELSE early' = Append(early, e) /\ UNCHANGED view
  /\ UNCHANGED <<linkState, ready, subscribed, callState, nextSeq, writable, failed,
                 flushing, stored, up, reader, detached>>
  /\ Persist(FALSE)

\* A handshake that succeeded saves in any case.
ReceiveAnswer ==
  /\ Incoming("answer")
  /\ LET frame  == Head(down[reader])
         result == frame.result
     IN  \E r \in {q \in waiting : q.id = frame.id} :
           /\ waiting' = waiting \ {r}
           /\ \/ result.type = "hello" /\ Welcome(r, result)
              \/ result.type \in {"replay", "snapshot"} /\ Resumed(result)
              \/ result.type = "subscribed" /\ Joined(r, result)
              \/ result.type \in {"envelope", "duplicate"} /\ Answered(r, result)
              \/ /\ result.type = "error" /\ view' = Failure(view, r, "error")
                 /\ UNCHANGED <<shakeState, subscribed, writable, initialized>>
           /\ UNCHANGED <<current, done, nextId, nextSeq, failed, flushing, stored, up,
                          reader, detached>>
           /\ Persist(r.method \in {"hello", "reconnect"} /\ ready')

\* The answer to a request that has timed out.
ReceiveLate ==
  /\ Incoming("answer")
  /\ \A r \in waiting : r.id # Head(down[reader]).id
  /\ UNCHANGED <<clientVars, up, reader, detached>>

-----------------------------------------------------------------------------
(* Timers, and the end of a link. *)

Timeout(r) ==
  /\ "timeout" \in Troubles
  /\ waiting' = waiting \ {r}
  /\ view' = Failure(view, r, "timeout")
  /\ UNCHANGED <<linkState, shakeState, subscribed, nextId, nextSeq, writable, failed,
                 flushing, stored, up, down, reader, detached>>
  /\ Persist(FALSE)

\* The transport closed or failed: the mirrors and what is pending stay.
EndOfStream ==
  /\ Connected
  /\ reader' = 0 /\ down' = [down EXCEPT ![reader] = << >>]
  /\ ready' = FALSE /\ early' = << >>
  /\ waiting' = {} /\ view' = Failures(view, waiting, "transport")
  /\ UNCHANGED <<linkState, subscribed, nextId, nextSeq, writable, failed, flushing, stored,
                 up, detached>>
  /\ Persist(FALSE)

\* #tearDown of a shutdown: everything ends.
TearDown ==
  /\ reader' = 0 /\ down' = [s \in Sockets |-> << >>]
  /\ ready' = FALSE /\ early' = << >> /\ done' = TRUE
  /\ waiting' = {} /\ subscribed' = {}
  /\ view' = [SettleAll(view, DOMAIN view.outcome, "lost") EXCEPT !.mirrors = << >>]

\* shutdown, which waits for the saves first when there is a storage.
Shutdown ==
  LET waits == Durable /\ (writable \/ saves # << >>) IN
  /\ "shutdown" \in Troubles /\ ~done
  /\ \A i \in DOMAIN flushing : flushing[i].n # 0
  /\ IF waits
     THEN UNCHANGED <<reader, down, shakeState, done, waiting, subscribed, view>>
     ELSE TearDown
  /\ UNCHANGED <<current, initialized, nextId, nextSeq, writable, failed, stored, up,
                 detached>>
  /\ Persist(TRUE)
  /\ flushing' = IF waits THEN Append(flushing, Flush(0, CHOOSE u \in Uris : TRUE))
                           ELSE flushing

-----------------------------------------------------------------------------
(* The end of a save, and of the process. *)

\* What a dispatch does when its flush returns: it is sent, or given up.
Released(w, v) ==
  IF failed' \/ ~Connected THEN Discard(v, w.uri, w.n, "lost") ELSE v

\* The requests of the dispatches among these callers.
Sent(callers) ==
  LET dispatches == IF failed' \/ ~Connected THEN << >>
                    ELSE Selected(callers, {i \in DOMAIN callers : callers[i].n # 0})
  IN  [i \in DOMAIN dispatches |->
         DispatchRequest(nextId + i - 1, dispatches[i].uri, dispatches[i].n)]

SendAll(requests) ==
  /\ up' = FoldLeft(LAMBDA q, r : SentUp(q, reader, r), up, requests)
  /\ nextId' = nextId + Len(requests)

\* The flushes that wait for this save see whether another one was queued meanwhile; if
\* so they wait for the last of them, behind those that already do.
WaitAgain ==
  LET later == Selected(flushing, {i \in DOMAIN flushing : flushing[i].behind > 1})
      woken == Selected(flushing, {i \in DOMAIN flushing : flushing[i].behind <= 1})
  IN  [i \in DOMAIN later |-> [later[i] EXCEPT !.behind = @ - 1]]
        \o [i \in DOMAIN woken |-> [woken[i] EXCEPT !.behind = Len(saves) - 1]]

\* The last save queued has ended: its callers go on, in the order they came, and
\* whatever comes after a shutdown finds the client closed.
Flushed ==
  LET closes == {i \in DOMAIN flushing : flushing[i].n = 0} IN
  /\ flushing' = << >>
  /\ \/ /\ closes # {}
        /\ SendAll(Sent(SubSeq(flushing, 1, (CHOOSE i \in closes : TRUE) - 1)))
        /\ TearDown /\ saves' = << >>
     \/ /\ closes = {}
        /\ view' = FoldLeft(LAMBDA v, w : Released(w, v), view, flushing)
        /\ SendAll(Sent(flushing)) /\ waiting' = waiting \cup Range(Sent(flushing))
        /\ saves' = IF view' # view /\ writable
                    THEN <<Checkpoint(view', subscribed, nextSeq)>> ELSE << >>
        /\ UNCHANGED <<reader, down, shakeState, done, subscribed>>

SaveEnds(ok) ==
  /\ saves # << >> /\ (ok \/ "save" \in Troubles)
  /\ failed' = ~ok
  /\ stored' = IF ok THEN Head(saves) ELSE stored
  /\ \/ Len(saves) = 1 /\ Flushed
     \/ /\ Len(saves) > 1
        /\ flushing' = WaitAgain /\ saves' = Tail(saves)
        /\ UNCHANGED <<reader, down, up, shakeState, done, waiting, nextId, subscribed, view>>
  /\ UNCHANGED <<current, initialized, nextSeq, writable, detached>>

\* The process dies, and a new one restores the last checkpoint.  A dispatch that was
\* never saved was never sent, and its number is used again.
Restore ==
  /\ Durable /\ stored # None /\ ("kill" \in Troubles \/ done)
  /\ LET us == DOMAIN stored.channels
         open == UNION {Range(stored.channels[u].pending) : u \in us}
         mirror(c) == Restated([NewMirror(TRUE) EXCEPT
                        !.confirmed = c.confirmed, !.applied = c.applied,
                        !.pending = c.pending])
     IN  /\ view' = [mirrors |-> [u \in us |-> mirror(stored.channels[u])],
                     seen |-> stored.seen,
                     outcome |-> [n \in 1..MaxDispatch |->
                        IF n >= stored.nextSeq THEN "unused"
                        ELSE IF n \in open THEN "open"
                        ELSE IF view.outcome[n] = "open" THEN "lost" ELSE view.outcome[n]]]
         /\ subscribed' = us
  /\ nextSeq' = stored.nextSeq
  /\ reader' = 0 /\ down' = [s \in Sockets |-> << >>]
  /\ done' = FALSE /\ initialized' = TRUE /\ ready' = FALSE /\ early' = << >>
  /\ waiting' = {} /\ writable' = TRUE /\ failed' = FALSE
  /\ saves' = << >> /\ flushing' = << >>
  /\ UNCHANGED <<current, nextId, stored, up, detached>>
=============================================================================
