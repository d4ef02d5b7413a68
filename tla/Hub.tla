-------------------------------- MODULE Hub --------------------------------
(***************************************************************************)
(* DurableChannelHub of hub.ts, at the grain of JavaScript's turns: code   *)
(* between two awaits is one atomic step, and every await is a point where *)
(* any other call may run.  A call of the hub's API is a one-shot process  *)
(* of Calls with a program counter and a frame of local variables.         *)
(*                                                                         *)
(* A storage operation takes effect in the turn that issues it, as in the  *)
(* memory and SQLite storages; its caller resumes later.  A turn of the    *)
(* code that writes nothing and whose checks the next turn repeats is      *)
(* merged with that one.                                                   *)
(*                                                                         *)
(* A channel's state is the sequence of the calls whose actions were       *)
(* reduced into it, so that two states are equal only when the same        *)
(* actions were applied in the same order.  An instance object is named    *)
(* by the call that built it: two objects for one URI can coexist.         *)
(***************************************************************************)
EXTENDS Naturals, Sequences, FiniteSets

CONSTANTS
  Uris,          \* channel URIs that match a route
  Stateless,     \* ... of channels without state
  Singletons,    \* ... of routes without parameters, created on first touch
  Internal,      \* ... of routes no connection can reach
  Guarded,       \* ... of channels with an authorization policy
  Existing,      \* ... whose state is in storage when the hub is built
  Warm,          \* ... that this process has already hydrated
  Conns,         \* connection handles that connect() may return
  ClientOf,      \* the client ID of a handle
  PrincipalOf,   \* the principal of a handle
  Calls,         \* calls of the API
  Requests,      \* what a call may ask for
  Outcomes,      \* what host code (reducer, effect, handler) may do
  Faults,        \* which of "write", "crash" and "send" may happen
  ReplayLimit,   \* slots of the replay ring
  None,          \* no call, object, connection or request
  Absent,        \* no stored value
  Host           \* the object of a channel hydrated before the modelled calls

Ops == {"subscribe", "reconnect", "dispatch", "dispatchFrom", "exec",
        "notify", "get", "create", "destroy"}

Objects == Calls \cup {Host}
State   == Seq(Calls)

Request ==
  [op : Ops, conn : Conns \cup {None}, uri : Uris, uris : SUBSET Uris,
   clientSeq : Nat, lastSeen : Nat, valid : BOOLEAN, lenient : BOOLEAN]

ASSUME HubAssumption ==
  /\ None \notin Uris \cup Conns \cup Calls /\ Host \notin Calls \cup {None}
  /\ Requests \subseteq Request
  /\ \A r \in Requests :
       /\ r.op \in {"subscribe", "reconnect", "dispatchFrom"} => r.conn # None
       /\ r.op \in {"dispatch", "notify", "get", "create", "destroy"} => r.conn = None
  /\ ReplayLimit \in Nat \ {0}
  /\ Singletons \cap Stateless = {} /\ Warm \subseteq Existing
  /\ Outcomes \subseteq {"accept", "reject", "throw", "return", "dispatch"}
  /\ Faults \subseteq {"write", "crash", "send"}

Replayed == INSTANCE ReplayWindow WITH Capacity <- ReplayLimit

VARIABLES
  hydrated, serverSeq,            \* #hydration has resolved, #serverSeq
  instances, heap,                \* #instances, and the state of every object
  lock,                           \* #lock: calls that wait for it; its head holds it
  ring,                           \* #replay
  link, subs, watermark,          \* #links, by handle
  storage, storedSeq,             \* the storage: channel states and serverSeq
  pc, arg, frame,                 \* the calls: where, what for, local variables
  log, inbox                      \* history: what was broadcast; what each link was sent

seqVars   == <<hydrated, serverSeq>>
instVars  == <<instances, heap>>
linkVars  == <<link, subs, watermark>>
storeVars == <<storage, storedSeq>>
callVars  == <<pc, arg, frame>>
histVars  == <<log, inbox>>
vars == <<seqVars, instVars, lock, ring, linkVars, storeVars, callVars, histVars>>

-----------------------------------------------------------------------------
(* Messages and local variables. *)

Envelope ==
  [kind : {"action"}, uri : Uris, seq : Nat, call : Calls, accepted : BOOLEAN]

Snapshot == [uri : Uris, state : State, fromSeq : Nat]

\* What a link is sent, and (for the properties) what its calls answer.
Message ==
  Envelope
    \cup [kind : {"notification"}, uri : Uris, call : Calls]
    \cup [kind : {"snapshots"}, call : Calls, missing : SUBSET Uris,
          snapshots : SUBSET Snapshot]
    \cup [kind : {"replay"}, call : Calls, missing : SUBSET Uris, lastSeen : Nat,
          resumed : SUBSET Uris, actions : SUBSET Envelope]

Frame ==
  [uri : Uris \cup {None}, ref : [Uris -> Objects \cup {None}],
   loaded : State \cup {Absent}, todo : SUBSET Uris, missing : SUBSET Uris,
   seq : Nat, accepted : BOOLEAN, wrote : BOOLEAN, child : Calls \cup {None}]

Blank ==
  [uri |-> None, ref |-> [u \in Uris |-> None], loaded |-> Absent, todo |-> {},
   missing |-> {}, seq |-> 0, accepted |-> FALSE, wrote |-> TRUE, child |-> None]

Locked  == {"authorizing", "persisting", "sequencing"}  \* inside the mutex
Settled == {"done", "failed", "dropped"}
Holding == {"have", "queued"} \cup Locked                  \* the object was looked up
Placed  == {"policy", "load", "creating", "storing", "deleting"} \cup Holding
Labels  == {"idle", "begin", "running", "awaiting"} \cup Placed \cup Settled

WellPlaced(label, f) ==
  /\ label \in Placed => f.uri \in Uris
  /\ label \in Holding => f.ref[f.uri] \in Objects

HubTypes ==
  /\ hydrated \in BOOLEAN /\ serverSeq \in Nat
  /\ instances \in [Uris -> Objects \cup {None}]
  /\ heap \in [Uris -> [Objects -> State]]
  /\ lock \in Seq(Calls)
  /\ ring \in Seq(Envelope)
  /\ link \in [Conns -> {"unused", "live", "gone"}]
  /\ subs \in [Conns -> SUBSET Uris]
  /\ watermark \in [Conns -> Nat]
  /\ storage \in [Uris -> State \cup {Absent}] /\ storedSeq \in Nat

CallTypes ==
  /\ pc \in [Calls -> Labels]
  /\ arg \in [Calls -> Requests \cup {None}]
  /\ frame \in [Calls -> Frame]
  /\ \A c \in Calls : /\ pc[c] # "idle" => arg[c] \in Requests
                      /\ WellPlaced(pc[c], frame[c])

HistoryTypes == log \in Seq(Envelope) /\ inbox \in [Conns -> Seq(Message)]

TypeOK == HubTypes /\ CallTypes /\ HistoryTypes

Init ==
  /\ hydrated = FALSE /\ serverSeq = 0 /\ storedSeq = 0
  /\ instances = [u \in Uris |-> IF u \in Warm THEN Host ELSE None]
  /\ heap = [u \in Uris |-> [o \in Objects |-> << >>]]
  /\ storage = [u \in Uris |-> IF u \in Existing THEN << >> ELSE Absent]
  /\ lock = << >> /\ ring = << >>
  /\ link = [h \in Conns |-> "unused"]
  /\ subs = [h \in Conns |-> {}]
  /\ watermark = [h \in Conns |-> 0]
  /\ pc = [c \in Calls |-> "idle"]
  /\ arg = [c \in Calls |-> None]
  /\ frame = [c \in Calls |-> Blank]
  /\ log = << >> /\ inbox = [h \in Conns |-> << >>]

-----------------------------------------------------------------------------
(* Helpers. *)

\* Mutant: a handle is known by the ID it was issued for, replaced or not.
LiveOnce(h) == link[h] # "unused"

\* #link(connection) does not throw: this exact handle is registered.
Live(h) == link[h] = "live"

Goto(c, label, f) ==
  /\ pc' = [pc EXCEPT ![c] = label]
  /\ frame' = [frame EXCEPT ![c] = f]
  /\ UNCHANGED arg

Settle(c, label) == Goto(c, label, Blank)

\* The write a turn issues succeeds, or (a fault) is rejected and changes nothing.
WriteOutcomes == IF "write" \in Faults THEN BOOLEAN ELSE {TRUE}

\* A policy grants or denies (a policy that throws denies); no policy grants.
Verdicts(u) == IF u \in Guarded THEN BOOLEAN ELSE {TRUE}

\* The synchronous half of #instance(u): the cached object, or a read of the storage.
Lookup(c, f) ==
  \/ /\ instances[f.uri] # None
     /\ Goto(c, "have", [f EXCEPT !.ref[f.uri] = instances[f.uri]])
  \/ /\ instances[f.uri] = None
     /\ Goto(c, "load", [f EXCEPT !.loaded = storage[f.uri]])

Subscribers(u) == {h \in Conns : Live(h) /\ u \in subs[h]}

Dead(u) == IF "send" \in Faults THEN SUBSET Subscribers(u) ELSE {{}}

\* Sends to every subscriber; a link whose send throws is disconnected on the spot.
Broadcast(message) ==
  \E dead \in Dead(message.uri) :
    /\ inbox' = [h \in Conns |-> IF h \in Subscribers(message.uri) \ dead
                                 THEN Append(inbox[h], message) ELSE inbox[h]]
    /\ link' = [h \in Conns |-> IF h \in dead THEN "gone" ELSE link[h]]
    /\ subs' = [h \in Conns |-> IF h \in dead THEN {} ELSE subs[h]]
    /\ UNCHANGED watermark

-----------------------------------------------------------------------------
(* Synchronous operations: they never wait, not even for hydration. *)

\* Mutant: a handle is only replaced by one of the same principal, others coexist.
PreviousOfPrincipal(h) ==
  {g \in Conns : Live(g) /\ ClientOf[g] = ClientOf[h] /\ PrincipalOf[g] = PrincipalOf[h]}

\* The live handle that another one with the same client ID replaces, if any.
Previous(h) == {g \in Conns : Live(g) /\ ClientOf[g] = ClientOf[h]}

\* connect(): a client ID in use is taken over by the same principal only.
Connect(h) ==
  /\ link[h] = "unused"
  /\ \A g \in Previous(h) : PrincipalOf[g] = PrincipalOf[h]
  /\ link' = [g \in Conns |-> IF g = h THEN "live"
                              ELSE IF g \in Previous(h) THEN "gone" ELSE link[g]]
  /\ subs' = [g \in Conns |-> IF g \in Previous(h) THEN {} ELSE subs[g]]
  /\ UNCHANGED <<seqVars, instVars, lock, ring, watermark, storeVars, callVars, histVars>>

Disconnect(h) ==
  /\ Live(h)
  /\ link' = [link EXCEPT ![h] = "gone"]
  /\ subs' = [subs EXCEPT ![h] = {}]
  /\ UNCHANGED <<seqVars, instVars, lock, ring, watermark, storeVars, callVars, histVars>>

Unsubscribe(h, u) ==
  /\ Live(h) /\ u \in subs[h]
  /\ subs' = [subs EXCEPT ![h] = @ \ {u}]
  /\ UNCHANGED <<seqVars, instVars, lock, ring, link, watermark, storeVars, callVars, histVars>>

-----------------------------------------------------------------------------
(* The beginning of a call: host code issues it, and it awaits ready(). *)

Issue(c) ==
  /\ pc[c] = "idle"
  /\ \E r \in Requests : /\ r.conn # None => link[r.conn] # "unused"
                         /\ arg' = [arg EXCEPT ![c] = r]
  /\ pc' = [pc EXCEPT ![c] = "begin"]
  /\ UNCHANGED <<frame, seqVars, instVars, lock, ring, linkVars, storeVars, histVars>>

\* Mutant: the value is taken without asking whether one was stored.
HydrateUnchecked ==
  /\ ~hydrated
  /\ hydrated' = TRUE /\ serverSeq' = IF storedSeq = 0 THEN None ELSE storedSeq
  /\ UNCHANGED <<instVars, lock, ring, linkVars, storeVars, callVars, histVars>>

\* #hydrate: nothing writes the stored sequence before this read has resolved.
Hydrate ==
  /\ ~hydrated
  /\ hydrated' = TRUE /\ serverSeq' = storedSeq
  /\ UNCHANGED <<instVars, lock, ring, linkVars, storeVars, callVars, histVars>>

\* The call is past its ready().
Begins(c, ops) == pc[c] = "begin" /\ hydrated /\ arg[c].op \in ops

\* A request of a connection that is gone, or for a URI it cannot reach, throws at once.
Refused(c) ==
  /\ Begins(c, {"subscribe", "dispatchFrom", "exec"})
  /\ arg[c].conn # None
  /\ ~Live(arg[c].conn) \/ arg[c].uri \in Internal
  /\ Settle(c, "failed")
  /\ UNCHANGED <<seqVars, instVars, lock, ring, linkVars, storeVars, histVars>>

Admitted(c) == arg[c].conn # None => Live(arg[c].conn) /\ arg[c].uri \notin Internal

\* #instance refuses a channel that keeps no state, and so does create.
StatelessRefused(c) ==
  /\ Begins(c, {"dispatch", "dispatchFrom", "get", "destroy", "create"})
  /\ Admitted(c) /\ arg[c].uri \in Stateless
  /\ Settle(c, "failed")
  /\ UNCHANGED <<seqVars, instVars, lock, ring, linkVars, storeVars, histVars>>

\* dispatch, dispatchFrom, exec, get and destroy look their instance up first.
BeginLookup(c) ==
  /\ Begins(c, {"dispatch", "dispatchFrom", "exec", "get", "destroy"})
  /\ Admitted(c) /\ arg[c].uri \notin Stateless
  /\ Lookup(c, [Blank EXCEPT !.uri = arg[c].uri])
  /\ UNCHANGED <<seqVars, instVars, lock, ring, linkVars, storeVars, histVars>>

\* subscribe asks the policy first; so does a command of a channel without state.
BeginPolicy(c) ==
  /\ \/ Begins(c, {"subscribe"})
     \/ Begins(c, {"exec"}) /\ arg[c].uri \in Stateless /\ arg[c].conn # None
  /\ Admitted(c)
  /\ Goto(c, "policy", [Blank EXCEPT !.uri = arg[c].uri])
  /\ UNCHANGED <<seqVars, instVars, lock, ring, linkVars, storeVars, histVars>>

\* A command of a channel without state, run for the host itself.
BeginHandler(c) ==
  /\ Begins(c, {"exec"}) /\ arg[c].conn = None /\ arg[c].uri \in Stateless
  /\ Goto(c, "running", Blank)
  /\ UNCHANGED <<seqVars, instVars, lock, ring, linkVars, storeVars, histVars>>

\* notify: one broadcast, never stored and never replayed.
Notify(c) ==
  /\ Begins(c, {"notify"})
  /\ Broadcast([kind |-> "notification", uri |-> arg[c].uri, call |-> c])
  /\ Settle(c, "done")
  /\ UNCHANGED <<seqVars, instVars, lock, ring, storeVars, log>>

-----------------------------------------------------------------------------
(* #instance, after the storage answered. *)

\* The stored value, or the initial state, becomes a new object.
Build(c, u) ==
  /\ heap' = [heap EXCEPT ![u][c] = IF frame[c].loaded = Absent THEN << >> ELSE frame[c].loaded]
  /\ instances' = [instances EXCEPT ![u] = c]

\* A singleton nobody stored yet is stored with its initial state.
Load(c) ==
  LET u == frame[c].uri IN
  /\ pc[c] = "load"
  /\ frame[c].loaded # Absent \/ u \in Singletons
  /\ Build(c, u)
  /\ \E ok \in WriteOutcomes :
       /\ frame[c].loaded # Absent => ok
       /\ storage' = IF frame[c].loaded = Absent /\ ok
                     THEN [storage EXCEPT ![u] = << >>] ELSE storage
       /\ Goto(c, "have", [frame[c] EXCEPT !.ref[u] = c, !.wrote = ok])
  /\ UNCHANGED <<seqVars, lock, ring, linkVars, storedSeq, histVars>>

\* ChannelNotFoundError: reconnect reports the URI instead (ReconnectUri).
LoadMissing(c) ==
  /\ pc[c] = "load" /\ arg[c].op # "reconnect"
  /\ frame[c].loaded = Absent /\ frame[c].uri \notin Singletons
  /\ Settle(c, "failed")
  /\ UNCHANGED <<seqVars, instVars, lock, ring, linkVars, storeVars, histVars>>

\* The initial state of a singleton could not be stored: the call throws, the object stays.
LoadFailed(c) ==
  /\ pc[c] = "have" /\ ~frame[c].wrote
  /\ Settle(c, "failed")
  /\ UNCHANGED <<seqVars, instVars, lock, ring, linkVars, storeVars, histVars>>

Has(c, op) == pc[c] = "have" /\ frame[c].wrote /\ arg[c].op = op

-----------------------------------------------------------------------------
(* subscribe and reconnect. *)

Object(c, u) == heap[u][frame[c].ref[u]]

\* The link went away while the policy or the storage was awaited.
LinkLost(c) ==
  /\ pc[c] \in {"policy", "have"} /\ frame[c].wrote
  /\ arg[c].conn # None /\ ~Live(arg[c].conn)
  /\ Settle(c, "failed")
  /\ UNCHANGED <<seqVars, instVars, lock, ring, linkVars, storeVars, histVars>>

\* The policy's verdict, on a link that is still there.
Verdict(c, op, granted) ==
  /\ pc[c] = "policy" /\ arg[c].op = op /\ Live(arg[c].conn)
  /\ granted \in Verdicts(frame[c].uri)

\* A denial also ends the subscription the link may already have.
SubscribeDenied(c) ==
  /\ Verdict(c, "subscribe", FALSE)
  /\ subs' = [subs EXCEPT ![arg[c].conn] = @ \ {frame[c].uri}]
  /\ Settle(c, "failed")
  /\ UNCHANGED <<seqVars, instVars, lock, ring, link, watermark, storeVars, histVars>>

SubscribeGranted(c) ==
  LET u == frame[c].uri IN
  /\ Verdict(c, "subscribe", TRUE)
  /\ \/ /\ u \in Stateless
        /\ subs' = [subs EXCEPT ![arg[c].conn] = @ \cup {u}]
        /\ Settle(c, "done")
     \/ /\ u \notin Stateless
        /\ Lookup(c, frame[c])
        /\ UNCHANGED subs
  /\ UNCHANGED <<seqVars, instVars, lock, ring, link, watermark, storeVars, histVars>>

Answer(h, message) == inbox' = [inbox EXCEPT ![h] = Append(@, message)]

SnapshotOf(c, u) == [uri |-> u, state |-> Object(c, u), fromSeq |-> serverSeq]

Subscribe(c) ==
  LET h == arg[c].conn
      u == frame[c].uri
  IN
  /\ Has(c, "subscribe") /\ Live(h)
  /\ subs' = [subs EXCEPT ![h] = @ \cup {u}]
  /\ Answer(h, [kind |-> "snapshots", call |-> c, missing |-> {},
                 snapshots |-> {SnapshotOf(c, u)}])
  /\ Settle(c, "done")
  /\ UNCHANGED <<seqVars, instVars, lock, ring, link, watermark, storeVars, log>>

\* Nothing was missed, or the ring still holds all of it.
Replayable(seq) == seq = serverSeq \/ Replayed!Covers(ring, seq)

\* The last turn of reconnect: replay if the ring reaches back, snapshots otherwise.
Resumption(c, f, kept) ==
  LET seen == arg[c].lastSeen IN
  IF Replayable(seen)
  THEN [kind |-> "replay", call |-> c, lastSeen |-> seen, resumed |-> kept,
        missing |-> f.missing,
        actions |-> {e \in Replayed!Missed(ring, seen) : e.uri \in kept}]
  ELSE [kind |-> "snapshots", call |-> c, missing |-> f.missing,
        snapshots |-> {[uri |-> u, state |-> heap[u][f.ref[u]], fromSeq |-> serverSeq] :
                         u \in {v \in Uris : f.ref[v] # None}}]

\* The link is subscribed to kept; go on with the next URI, or answer.
NextUri(c, f, kept) ==
  LET h == arg[c].conn IN
  /\ subs' = [subs EXCEPT ![h] = kept]
  /\ \/ \E u \in f.todo :
          /\ Goto(c, "policy", [f EXCEPT !.uri = u, !.todo = @ \ {u}])
          /\ UNCHANGED inbox
     \/ /\ f.todo = {}
        /\ Answer(h, Resumption(c, f, kept))
        /\ Settle(c, "done")
  /\ UNCHANGED <<seqVars, lock, ring, link, watermark, storeVars, log>>

\* Mutant: only subscribe hides internal routes.
ReachableAny(us) == us

\* What a connection may ask for.
Reachable(us) == us \ Internal

\* The subscriptions start from none; an unknown or internal route is missing at once.
BeginReconnect(c) ==
  LET r == arg[c] IN
  /\ Begins(c, {"reconnect"})
  /\ \/ /\ Live(r.conn)
        /\ NextUri(c, [Blank EXCEPT !.todo = Reachable(r.uris),
                                    !.missing = r.uris \ Reachable(r.uris)], {})
     \/ /\ ~Live(r.conn)
        /\ Settle(c, "failed")
        /\ UNCHANGED <<seqVars, lock, ring, linkVars, storeVars, histVars>>
  /\ UNCHANGED instVars

\* Denied: missing.  Granted: a stateless URI is subscribed, any other looked up.
ReconnectPolicy(c) ==
  LET f == frame[c]
      h == arg[c].conn
  IN
  /\ \/ /\ Verdict(c, "reconnect", FALSE)
        /\ NextUri(c, [f EXCEPT !.missing = @ \cup {f.uri}], subs[h])
     \/ /\ Verdict(c, "reconnect", TRUE) /\ f.uri \in Stateless
        /\ NextUri(c, f, subs[h] \cup {f.uri})
     \/ /\ Verdict(c, "reconnect", TRUE) /\ f.uri \notin Stateless
        /\ Lookup(c, f)
        /\ UNCHANGED <<seqVars, lock, ring, linkVars, storeVars, histVars>>
  /\ UNCHANGED instVars

\* The instance is there, or the channel does not exist and its URI is missing.
ReconnectUri(c) ==
  LET f == frame[c]
      h == arg[c].conn
  IN
  /\ \/ /\ Has(c, "reconnect") /\ Live(h)
        /\ NextUri(c, f, subs[h] \cup {f.uri})
     \/ /\ pc[c] = "load" /\ arg[c].op = "reconnect" /\ Live(h)
        /\ f.loaded = Absent /\ f.uri \notin Singletons
        /\ NextUri(c, [f EXCEPT !.missing = @ \cup {f.uri}], subs[h])
     \/ /\ pc[c] = "load" /\ arg[c].op = "reconnect" /\ ~Live(h)
        /\ f.loaded = Absent /\ f.uri \notin Singletons
        /\ Settle(c, "failed")
        /\ UNCHANGED <<seqVars, lock, ring, linkVars, storeVars, histVars>>
  /\ UNCHANGED instVars

-----------------------------------------------------------------------------
(* #commit: one call at a time, in the order the calls queued. *)

Queue(c, f) == lock' = Append(lock, c) /\ Goto(c, "queued", f)

\* Mutant: a call in the queue enters without waiting for the ones before it.
HoldsLockAnyone(c) == \E i \in DOMAIN lock : lock[i] = c

\* #withLock runs the tasks one after the other, whether or not the last one threw.
HoldsLock(c) == lock # << >> /\ Head(lock) = c

Release == lock' = Tail(lock)

\* dispatch: an unknown action or an invalid payload throws before the lock.
Dispatch(c) ==
  /\ Has(c, "dispatch")
  /\ IF arg[c].valid THEN Queue(c, frame[c])
                     ELSE Settle(c, "failed") /\ UNCHANGED lock
  /\ UNCHANGED <<seqVars, instVars, ring, linkVars, storeVars, histVars>>

\* The link has accepted this clientSeq, or a later one, before.
Duplicate(h, clientSeq) == clientSeq <= watermark[h]

\* A duplicate answers undefined and consumes no sequence.
DispatchDuplicate(c) ==
  /\ Has(c, "dispatchFrom") /\ Live(arg[c].conn)
  /\ Duplicate(arg[c].conn, arg[c].clientSeq)
  /\ Settle(c, "done")
  /\ UNCHANGED <<seqVars, instVars, lock, ring, linkVars, storeVars, histVars>>

\* Otherwise the watermark rises, before anything else is decided: a request that is not
\* valid throws, or with lenient queues to be committed as a rejected envelope.
DispatchFrom(c) ==
  LET r == arg[c] IN
  /\ Has(c, "dispatchFrom") /\ Live(r.conn)
  /\ ~Duplicate(r.conn, r.clientSeq)
  /\ watermark' = [watermark EXCEPT ![r.conn] = r.clientSeq]
  /\ IF r.valid \/ r.lenient THEN Queue(c, frame[c])
                             ELSE Settle(c, "failed") /\ UNCHANGED lock
  /\ UNCHANGED <<seqVars, instVars, ring, link, subs, storeVars, histVars>>

\* Mutant: a task that throws keeps the mutex.
AbandonKeepsLock(c) ==
  /\ Settle(c, "failed")
  /\ UNCHANGED <<seqVars, instVars, lock, ring, linkVars, storeVars, histVars>>

\* Leaves the mutex without an envelope.
Abandon(c) ==
  /\ Release
  /\ Settle(c, "failed")
  /\ UNCHANGED <<seqVars, instVars, ring, linkVars, storeVars, histVars>>

\* const serverSeq = this.#serverSeq + 1
NextSeq == serverSeq + 1

\* Mutant: the sequence is kept in memory only.
SequenceUnsaved(c, f) ==
  /\ serverSeq' = f.seq
  /\ Goto(c, "sequencing", f)
  /\ UNCHANGED <<hydrated, storedSeq, lock, ring, linkVars, histVars>>

\* The sequence is taken in memory, then written.
Sequence(c, f) ==
  /\ serverSeq' = f.seq
  /\ \E ok \in WriteOutcomes :
       /\ storedSeq' = IF ok THEN f.seq ELSE storedSeq
       /\ Goto(c, "sequencing", [f EXCEPT !.wrote = ok])
  /\ UNCHANGED <<hydrated, lock, ring, linkVars, histVars>>

\* A rejected action consumes a sequence and leaves the state alone.
Reject(c) ==
  /\ Sequence(c, [frame[c] EXCEPT !.seq = NextSeq, !.accepted = FALSE])
  /\ UNCHANGED <<instVars, storage>>

\* Mutant: the reducer starts from the initial state every time.
ReducedAfresh(c, u) == << c >>

\* The state the reducer makes of the object's, read inside the mutex.
Reduced(c, u) == Append(Object(c, u), c)

\* The object changes in memory, then its state is written.
Accept(c) ==
  LET u == frame[c].uri
      next == Reduced(c, u)
  IN
  /\ heap' = [heap EXCEPT ![u][frame[c].ref[u]] = next]
  /\ \E ok \in WriteOutcomes :
       /\ storage' = IF ok THEN [storage EXCEPT ![u] = next] ELSE storage
       /\ Goto(c, "persisting", [frame[c] EXCEPT !.seq = NextSeq, !.accepted = TRUE,
                                                 !.wrote = ok])
  /\ UNCHANGED <<seqVars, instances, lock, ring, linkVars, storedSeq, histVars>>

\* The reducer accepts, throws RejectAction, or throws anything else (an invalid state too).
Reduce(c) ==
  \/ "accept" \in Outcomes /\ Accept(c)
  \/ "reject" \in Outcomes /\ Reject(c)
  \/ "throw" \in Outcomes /\ Abandon(c)

\* First turn inside the mutex.
Enter(c) ==
  LET r == arg[c] IN
  /\ pc[c] = "queued" /\ HoldsLock(c)
  /\ \/ r.conn = None /\ Reduce(c)
     \/ r.conn # None /\ ~Live(r.conn) /\ Abandon(c)
     \/ r.conn # None /\ Live(r.conn) /\ ~r.valid /\ Reject(c)
     \/ /\ r.conn # None /\ Live(r.conn) /\ r.valid
        /\ Goto(c, "authorizing", frame[c])
        /\ UNCHANGED <<seqVars, instVars, lock, ring, linkVars, storeVars, histVars>>

\* The policy answered; the link is checked again, then the state is read.
Authorized(c) ==
  LET h == arg[c].conn IN
  /\ pc[c] = "authorizing"
  /\ \/ ~Live(h) /\ Abandon(c)
     \/ Live(h) /\ FALSE \in Verdicts(frame[c].uri) /\ Reject(c)
     \/ Live(h) /\ TRUE \in Verdicts(frame[c].uri) /\ Reduce(c)

\* The write of the state resolved, or was rejected: the dispatch throws.
Persisted(c) ==
  /\ pc[c] = "persisting"
  /\ \/ frame[c].wrote /\ Sequence(c, frame[c]) /\ UNCHANGED <<instVars, storage>>
     \/ ~frame[c].wrote /\ Abandon(c)

EnvelopeOf(c) ==
  [kind |-> "action", uri |-> frame[c].uri, seq |-> frame[c].seq, call |-> c,
   accepted |-> frame[c].accepted]

\* The write of the sequence resolved: the envelope enters the ring and reaches every
\* subscriber, the mutex is free, and an accepted action's effect runs outside it.
Publish(c) ==
  LET e == EnvelopeOf(c) IN
  /\ ring' = Replayed!Push(ring, e)
  /\ log' = Append(log, e)
  /\ Broadcast(e)
  /\ Release
  /\ IF e.accepted THEN Goto(c, "running", Blank) ELSE Settle(c, "done")
  /\ UNCHANGED <<seqVars, instVars, storeVars>>

\* Mutant: the broadcast does not wait for the write of the sequence.
SequencedUnchecked(c) == pc[c] = "sequencing" /\ Publish(c)

\* The write of the sequence was rejected: the number is spent, and nobody hears of it.
Sequenced(c) ==
  /\ pc[c] = "sequencing"
  /\ \/ frame[c].wrote /\ Publish(c)
     \/ ~frame[c].wrote /\ Abandon(c)

-----------------------------------------------------------------------------
(* Commands and effects: host code that may call the hub again and wait for it. *)

\* exec for a connection asks the policy after the instance was looked up.
Exec(c) ==
  /\ Has(c, "exec") /\ (arg[c].conn # None => Live(arg[c].conn))
  /\ Goto(c, IF arg[c].conn = None THEN "running" ELSE "policy", frame[c])
  /\ UNCHANGED <<seqVars, instVars, lock, ring, linkVars, storeVars, histVars>>

ExecPolicy(c) ==
  /\ \/ Verdict(c, "exec", TRUE) /\ Goto(c, "running", Blank)
     \/ Verdict(c, "exec", FALSE) /\ Settle(c, "failed")
  /\ UNCHANGED <<seqVars, instVars, lock, ring, linkVars, storeVars, histVars>>

\* A handler or an effect returns, throws, or dispatches and awaits that call.
Run(c) ==
  /\ pc[c] = "running"
  /\ \/ "return" \in Outcomes /\ Settle(c, "done")
     \/ "throw" \in Outcomes /\ Settle(c, "failed")
     \/ /\ "dispatch" \in Outcomes
        /\ \E d \in Calls, r \in Requests :
             /\ pc[d] = "idle" /\ r.op = "dispatch"
             /\ pc' = [pc EXCEPT ![c] = "awaiting", ![d] = "begin"]
             /\ arg' = [arg EXCEPT ![d] = r]
             /\ frame' = [frame EXCEPT ![c].child = d]
  /\ UNCHANGED <<seqVars, instVars, lock, ring, linkVars, storeVars, histVars>>

Awaited(c) ==
  /\ pc[c] = "awaiting" /\ pc[frame[c].child] \in Settled
  /\ Settle(c, pc[frame[c].child])
  /\ UNCHANGED <<seqVars, instVars, lock, ring, linkVars, storeVars, histVars>>

-----------------------------------------------------------------------------
(* get, create and destroy. *)

Get(c) ==
  /\ Has(c, "get")
  /\ Settle(c, "done")
  /\ UNCHANGED <<seqVars, instVars, lock, ring, linkVars, storeVars, histVars>>

\* create asks has() first: a cached object or a singleton exists, else the storage knows.
BeginCreate(c) ==
  LET u == arg[c].uri IN
  /\ Begins(c, {"create"}) /\ u \notin Stateless
  /\ \/ /\ instances[u] # None \/ u \in Singletons
        /\ Settle(c, "failed")
     \/ /\ instances[u] = None /\ u \notin Singletons
        /\ Goto(c, "creating", [Blank EXCEPT !.uri = u, !.loaded = storage[u]])
  /\ UNCHANGED <<seqVars, instVars, lock, ring, linkVars, storeVars, histVars>>

Vacant(c) == frame[c].loaded = Absent

\* The new object is in memory before the write of its state.
Create(c) ==
  LET u == frame[c].uri IN
  /\ pc[c] = "creating"
  /\ \/ ~Vacant(c) /\ Settle(c, "failed") /\ UNCHANGED <<instVars, storage>>
     \/ /\ Vacant(c)
        /\ heap' = [heap EXCEPT ![u][c] = << >>]
        /\ instances' = [instances EXCEPT ![u] = c]
        /\ \E ok \in WriteOutcomes :
             /\ storage' = IF ok THEN [storage EXCEPT ![u] = << >>] ELSE storage
             /\ Goto(c, "storing", [Blank EXCEPT !.uri = u, !.wrote = ok])
  /\ UNCHANGED <<seqVars, lock, ring, linkVars, storedSeq, histVars>>

Created(c) ==
  /\ pc[c] = "storing"
  /\ Settle(c, IF frame[c].wrote THEN "done" ELSE "failed")
  /\ UNCHANGED <<seqVars, instVars, lock, ring, linkVars, storeVars, histVars>>

\* destroy deletes the stored state first ...
Destroy(c) ==
  LET u == frame[c].uri IN
  /\ Has(c, "destroy")
  /\ \E ok \in WriteOutcomes :
       /\ storage' = IF ok THEN [storage EXCEPT ![u] = Absent] ELSE storage
       /\ Goto(c, "deleting", [frame[c] EXCEPT !.wrote = ok])
  /\ UNCHANGED <<seqVars, instVars, lock, ring, linkVars, storedSeq, histVars>>

\* ... and once that resolved, the object and every subscription to it.
Destroyed(c) ==
  LET u == frame[c].uri IN
  /\ pc[c] = "deleting"
  /\ \/ /\ frame[c].wrote
        /\ instances' = [instances EXCEPT ![u] = None]
        /\ subs' = [h \in Conns |-> IF Live(h) THEN subs[h] \ {u} ELSE subs[h]]
        /\ Settle(c, "done")
     \/ /\ ~frame[c].wrote
        /\ Settle(c, "failed")
        /\ UNCHANGED <<instances, subs>>
  /\ UNCHANGED <<seqVars, heap, lock, ring, link, watermark, storeVars, histVars>>

-----------------------------------------------------------------------------
(* The process dies: everything but the storage is lost, and a new hub is built on it. *)

Crash ==
  /\ "crash" \in Faults /\ hydrated
  /\ hydrated' = FALSE /\ serverSeq' = 0
  /\ instances' = [u \in Uris |-> None]
  /\ heap' = [u \in Uris |-> [o \in Objects |-> << >>]]
  /\ lock' = << >> /\ ring' = << >>
  /\ link' = [h \in Conns |-> IF Live(h) THEN "gone" ELSE link[h]]
  /\ subs' = [h \in Conns |-> {}]
  /\ pc' = [c \in Calls |-> IF pc[c] \in {"idle", "done", "failed"} THEN pc[c] ELSE "dropped"]
  /\ frame' = [c \in Calls |-> Blank]
  /\ UNCHANGED <<arg, watermark, storeVars, histVars>>

-----------------------------------------------------------------------------

\* A turn of a call that was issued: the event loop, the storage and host code run it.
Resume(c) ==
  \/ Refused(c) \/ StatelessRefused(c) \/ BeginLookup(c) \/ BeginPolicy(c)
  \/ BeginHandler(c) \/ Notify(c) \/ Load(c) \/ LoadMissing(c) \/ LoadFailed(c)
  \/ LinkLost(c) \/ SubscribeDenied(c) \/ SubscribeGranted(c) \/ Subscribe(c)
  \/ BeginReconnect(c) \/ ReconnectPolicy(c) \/ ReconnectUri(c)
  \/ Dispatch(c) \/ DispatchDuplicate(c) \/ DispatchFrom(c)
  \/ Enter(c) \/ Authorized(c) \/ Persisted(c) \/ Sequenced(c)
  \/ Exec(c) \/ ExecPolicy(c) \/ Run(c) \/ Awaited(c)
  \/ Get(c) \/ BeginCreate(c) \/ Create(c) \/ Created(c) \/ Destroy(c) \/ Destroyed(c)

Next ==
  \/ \E c \in Calls : Issue(c) \/ Resume(c)
  \/ \E h \in Conns : Connect(h) \/ Disconnect(h)
  \/ \E h \in Conns, u \in Uris : Unsubscribe(h, u)
  \/ Hydrate \/ Crash

Spec == Init /\ [][Next]_vars
=============================================================================
